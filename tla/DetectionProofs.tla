---------------------------- MODULE DetectionProofs ----------------------------
(***************************************************************************)
(* What TLAPS proves of Detection and ModelCalls, for every plan, set of   *)
(* places, candidates and processes, every ceiling, and any number of      *)
(* retries, failures, interrupts and deaths; and of Scanners and Planning, *)
(* for every snapshot, installation, order of the manifests or the files,  *)
(* and number of troubles.                                                 *)
(***************************************************************************)
EXTENDS Detection, Scanners, FiniteSetTheorems, SequenceTheorems, TLAPS

CallType ==
    [pc : {"none", "check", "ask", "record", "returned", "raised"},
     left : 0 .. MaxRetries + 1, answer : Replies \cup {"none"},
     tokens : Charges \cup {0}]

Spots == Occurs \cup {Cited(c) : c \in Candidates}

ProcType ==
    [pc : {"idle", "next", "lens", "candidates", "rescore", "persist", "finished"},
     at : 0 .. Len(Plan) + 1, queue : SUBSET Candidates, raw : SUBSET Candidates,
     place : SUBSET Spots, due : SUBSET Identities]

-----------------------------------------------------------------------------
(* Citations *)

LEMMA PlaceIsOne ==
    ASSUME NEW c
    PROVE  /\ Canonical(c) \subseteq Locations(c)
           /\ \A o1, o2 \in Canonical(c) : o1 = o2
<1>1. /\ Overlapping(c) \subseteq Declared(c)
      /\ Declared(c) \subseteq Locations(c)
      /\ Locations(c) \subseteq Occurs
  BY DEF Overlapping, Declared, Locations
<1>2. ASSUME NEW S, S \subseteq Occurs, Cardinality(S) = 1
      PROVE  \A o1, o2 \in S : o1 = o2
  <2>1. IsFiniteSet(S)
    BY <1>2, DetectionAssumption, FS_Subset
  <2>2. PICK o : S = {o}
    BY <1>2, <2>1, FS_Singleton
  <2>3. QED BY <2>2
<1>3. CASE Cardinality(Overlapping(c)) = 1
  <2>1. Canonical(c) = Overlapping(c)
    BY <1>3 DEF Canonical
  <2>2. QED BY <1>1, <1>2, <1>3, <2>1
<1>4. CASE Cardinality(Overlapping(c)) # 1 /\ Cardinality(Declared(c)) = 1
  <2>1. Canonical(c) = Declared(c)
    BY <1>4 DEF Canonical
  <2>2. QED BY <1>1, <1>2, <1>4, <2>1
<1>5. CASE Cardinality(Overlapping(c)) # 1 /\ Cardinality(Declared(c)) # 1
  <2>1. Canonical(c) = {o \in Locations(c) : Locations(c) = {o}}
    BY <1>5 DEF Canonical
  <2>2. QED BY <2>1
<1>6. QED BY <1>3, <1>4, <1>5

LEMMA CanonicalOccurs ==
    ASSUME NEW c
    PROVE  Canonical(c) \subseteq Occurs
BY PlaceIsOne DEF Locations

LEMMA TwiceOccurs ==
    ASSUME NEW c
    PROVE  CanonicalTwice(c) \subseteq Occurs
BY CanonicalOccurs DEF CanonicalTwice

(* A citation that is exact means the place it names. *)
LEMMA ExactIsMeant ==
    ASSUME NEW c \in Candidates \cup Occurs, Cited(c) \in Occurs
    PROVE  Canonical(c) \subseteq {Cited(c)}
<1> DEFINE here == Cited(c)
<1>1. here.snippet = c.snippet /\ here.file = c.file /\ here.line = c.line
  BY DEF Cited
<1>2. here \in Locations(c) /\ here \in Declared(c)
  BY <1>1, DetectionAssumption DEF Locations, Declared
<1>3. here \in Overlapping(c)
  <2>1. /\ c.line \in Int
        /\ Height[c.snippet] \in Nat \ {0}
    BY DetectionAssumption
  <2>2. here.line < c.line + Height[c.snippet] /\ c.line < here.line + Height[c.snippet]
    <3> HIDE DEF here
    <3> QED BY <1>1, <2>1
  <2>3. QED BY <1>2, <2>2 DEF Overlapping
<1>4. ASSUME NEW S, S \subseteq Occurs, Cardinality(S) = 1, here \in S
      PROVE  S \subseteq {here}
  <2>1. IsFiniteSet(S)
    BY <1>4, DetectionAssumption, FS_Subset
  <2>2. PICK o : S = {o}
    BY <1>4, <2>1, FS_Singleton
  <2>3. QED BY <1>4, <2>2
<1>5. /\ Overlapping(c) \subseteq Occurs
      /\ Declared(c) \subseteq Occurs
  BY DEF Overlapping, Declared, Locations
<1>6. CASE Cardinality(Overlapping(c)) = 1
  BY <1>3, <1>4, <1>5, <1>6 DEF Canonical
<1>7. CASE Cardinality(Overlapping(c)) # 1 /\ Cardinality(Declared(c)) = 1
  <2>1. Canonical(c) = Declared(c)
    BY <1>7 DEF Canonical
  <2>2. QED BY <1>2, <1>4, <1>5, <1>7, <2>1
<1>8. CASE Cardinality(Overlapping(c)) # 1 /\ Cardinality(Declared(c)) # 1
  <2>1. Canonical(c) = {o \in Locations(c) : Locations(c) = {o}}
    BY <1>8 DEF Canonical
  <2>2. QED BY <1>2, <2>1
<1>9. QED BY <1>6, <1>7, <1>8

LEMMA AssertedTyped ==
    ASSUME NEW r \in Regions, NEW answer \in SUBSET Candidates
    PROVE  Asserted(r, answer) \subseteq Identities
<1> SUFFICES ASSUME NEW c \in Candidates, NEW o \in CanonicalTwice(c)
             PROVE  Identity(r, c.title, o) \in Identities
  BY DEF Asserted, Meant
<1>1. o \in Occurs
  BY TwiceOccurs
<1>2. QED BY <1>1 DEF Identities

-----------------------------------------------------------------------------
(* Types, and where the processes stand *)

LEMMA SteadyTypes ==
    Steady <=> /\ usage \in [calls : Nat, tokens : Nat]
               /\ spent \in Nat
               /\ call \in [Procs -> CallType]
               /\ region \in [Regions -> {"none", "running", "completed", "failed"}]
               /\ findings \in [Identities -> Nat]
               /\ proc \in [Procs -> ProcType]
               /\ owed \in [Regions -> SUBSET Identities]
               /\ contested \subseteq Regions
               /\ lost \in 0 .. MaxCrashes
               /\ troubles \in 0 .. MaxTroubles
               /\ crashes \in 0 .. MaxCrashes
               /\ lost <= crashes
               /\ \A p \in Procs : Stands(p)
BY DEF Steady, TypeOK, CallsTypeOK, CallType, ProcType, Spots

LEMMA HereInPlan ==
    ASSUME NEW p \in Procs, proc[p].at \in DOMAIN Plan
    PROVE  Here(p) \in Regions
BY DEF Here, Regions

LEMMA PlanLength ==
    /\ Len(Plan) \in Nat
    /\ DOMAIN Plan = 1 .. Len(Plan)
BY DetectionAssumption

LEMMA SteadyInit == Init => Steady
<1> SUFFICES ASSUME Init PROVE Steady
  OBVIOUS
<1>1. Len(Plan) \in Nat
  BY PlanLength
<1>2. Stopped \in ProcType
  BY <1>1 DEF Stopped, ProcType
<1>3. NoCall \in CallType
  BY CallsAssumption DEF NoCall, CallType
<1>4. call \in [Procs -> CallType] /\ proc \in [Procs -> ProcType]
  BY <1>2, <1>3 DEF Init, CallsInit
<1>5. \A p \in Procs : Stands(p)
  BY DEF Init, CallsInit, Stands, Stopped, NoCall, Working
<1>6. QED
  BY <1>4, <1>5, SteadyTypes, DetectionAssumption DEF Init, CallsInit

(* A step that moves only one process and its call keeps the others standing. *)
LEMMA OthersStand ==
    ASSUME Steady, NEW p \in Procs, Stands(p)',
           \A q \in Procs \ {p} : proc'[q] = proc[q] /\ call'[q] = call[q]
    PROVE  (\A q \in Procs : Stands(q))'
<1> SUFFICES ASSUME NEW q \in Procs, q # p
             PROVE  Stands(q)'
  OBVIOUS
<1>1. Stands(q)
  BY DEF Steady
<1>2. QED BY <1>1 DEF Stands, Working

LEMMA ProcMoves ==
    ASSUME proc \in [Procs -> ProcType], NEW p \in Procs, NEW x \in ProcType,
           proc' = [proc EXCEPT ![p] = x]
    PROVE  /\ proc' \in [Procs -> ProcType]
           /\ proc'[p] = x
           /\ \A q \in Procs \ {p} : proc'[q] = proc[q]
OBVIOUS

LEMMA BeginCallTyped ==
    ASSUME NEW p \in Procs, call \in [Procs -> CallType], BeginCall(p)
    PROVE  /\ call' \in [Procs -> CallType]
           /\ call'[p].pc = "check" /\ call'[p].left # 0
           /\ \A q \in Procs \ {p} : call'[q] = call[q]
<1>1. PICK x : x = [NoCall EXCEPT !.pc = "check", !.left = MaxRetries + 1]
  OBVIOUS
<1>2. x = [pc |-> "check", left |-> MaxRetries + 1, answer |-> "none", tokens |-> 0]
  BY <1>1 DEF NoCall
<1>3. MaxRetries + 1 \in 0 .. MaxRetries + 1 /\ MaxRetries + 1 # 0
  BY CallsAssumption
<1>4. x \in CallType /\ x.pc = "check" /\ x.left # 0
  BY <1>2, <1>3 DEF CallType
<1>5. call' = [call EXCEPT ![p] = x]
  BY <1>1 DEF BeginCall
<1>6. QED BY <1>4, <1>5

LEMMA EndCallTyped ==
    ASSUME NEW p \in Procs, call \in [Procs -> CallType], EndCall(p)
    PROVE  /\ call' \in [Procs -> CallType]
           /\ call'[p] = NoCall /\ NoCall.pc = "none"
           /\ \A q \in Procs \ {p} : call'[q] = call[q]
           /\ UNCHANGED <<usage, spent>>
<1>1. NoCall \in CallType /\ NoCall.pc = "none"
  BY CallsAssumption DEF NoCall, CallType
<1>2. QED BY <1>1 DEF EndCall

LEMMA StoppedTyped == Stopped \in ProcType /\ Stopped.pc = "idle"
BY PlanLength DEF Stopped, ProcType

(* A call at work stays one, whatever its step. *)
LEMMA CallStepTyped ==
    ASSUME Steady, NEW p \in Procs, CallStep(p)
    PROVE  /\ usage' \in [calls : Nat, tokens : Nat]
           /\ spent' \in Nat
           /\ call' \in [Procs -> CallType]
           /\ call[p].pc # "none" /\ call'[p].pc # "none"
           /\ call'[p].pc \in {"check", "ask"} => call'[p].left # 0
           /\ \A q \in Procs \ {p} : call'[q] = call[q]
<1>1. /\ usage \in [calls : Nat, tokens : Nat]
      /\ spent \in Nat
      /\ call \in [Procs -> CallType]
      /\ Stands(p)
  BY SteadyTypes
<1>2. /\ call[p] \in CallType
      /\ call[p].left \in 0 .. MaxRetries + 1
      /\ call[p].tokens \in Nat
  <2>1. call[p] \in CallType
    BY <1>1
  <2>2. \A t \in Charges \cup {0} : t \in Nat
    BY CallsAssumption
  <2>3. QED BY <2>1, <2>2 DEF CallType
<1>3. CASE CheckBudget(p)
  BY <1>1, <1>2, <1>3 DEF CheckBudget, CallType, Stands
<1>4. CASE Ask(p)
  <2>1. PICK reply \in Replies, tokens \in Charges :
            call' = [call EXCEPT ![p].pc = "record", ![p].answer = reply,
                                 ![p].tokens = tokens, ![p].left = @ - 1]
    BY <1>4 DEF Ask
  <2>2. call[p].left - 1 \in 0 .. MaxRetries + 1
    <3>1. call[p].left # 0
      BY <1>1, <1>4 DEF Stands, Ask
    <3>2. \A n \in 0 .. MaxRetries + 1 : n # 0 => n - 1 \in 0 .. MaxRetries + 1
      BY CallsAssumption
    <3>3. QED BY <1>2, <3>1, <3>2
  <2>3. QED BY <1>1, <1>2, <1>4, <2>1, <2>2 DEF Ask, CallType
<1>5. CASE Record(p)
  <2>1. usage' \in [calls : Nat, tokens : Nat]
    BY <1>1, <1>2, <1>5 DEF Record, WithCall
  <2>2. PICK pc \in {"returned", "raised", "check"} :
            /\ call' = [call EXCEPT ![p].pc = pc]
            /\ pc = "check" => call[p].left # 0
    BY <1>5 DEF Record
  <2>3. QED BY <1>1, <1>2, <1>5, <2>1, <2>2 DEF Record, CallType
<1>6. QED BY <1>3, <1>4, <1>5 DEF CallStep

LEMMA SteadyStep == Steady /\ [Next]_vars => Steady'
<1> SUFFICES ASSUME Steady, [Next]_vars PROVE Steady'
  OBVIOUS
<1>0. /\ usage \in [calls : Nat, tokens : Nat]
      /\ spent \in Nat
      /\ call \in [Procs -> CallType]
      /\ region \in [Regions -> {"none", "running", "completed", "failed"}]
      /\ findings \in [Identities -> Nat]
      /\ proc \in [Procs -> ProcType]
      /\ owed \in [Regions -> SUBSET Identities]
      /\ contested \subseteq Regions
      /\ lost \in 0 .. MaxCrashes
      /\ troubles \in 0 .. MaxTroubles
      /\ crashes \in 0 .. MaxCrashes
      /\ lost <= crashes
      /\ \A p \in Procs : Stands(p)
  BY SteadyTypes
<1> DEFINE CallsOK ==
             /\ usage' \in [calls : Nat, tokens : Nat]
             /\ spent' \in Nat
             /\ call' \in [Procs -> CallType]
           StoreOK ==
             /\ region' \in [Regions -> {"none", "running", "completed", "failed"}]
             /\ findings' \in [Identities -> Nat]
             /\ owed' \in [Regions -> SUBSET Identities]
             /\ contested' \subseteq Regions
           CountsOK ==
             /\ lost' \in 0 .. MaxCrashes
             /\ troubles' \in 0 .. MaxTroubles
             /\ crashes' \in 0 .. MaxCrashes
             /\ lost' <= crashes'
           Moves(p) ==
             /\ proc' \in [Procs -> ProcType]
             /\ Stands(p)'
             /\ \A q \in Procs \ {p} : proc'[q] = proc[q] /\ call'[q] = call[q]
<1>1. ASSUME NEW p \in Procs, CallsOK, StoreOK, CountsOK, Moves(p)
      PROVE  Steady'
  <2>1. (\A q \in Procs : Stands(q))'
    BY <1>1, OthersStand
  <2>2. QED BY <1>1, <2>1 DEF Steady, TypeOK, CallsTypeOK, CallType, ProcType, Spots
<1>2. UNCHANGED callVars => CallsOK
  BY <1>0 DEF callVars
<1>3. UNCHANGED <<region, findings, owed, contested>> => StoreOK
  BY <1>0
<1>4. UNCHANGED <<lost, troubles, crashes>> => CountsOK
  BY <1>0
<1>5. \A p \in Procs : proc[p] \in ProcType /\ Stands(p)
  BY <1>0
<1>6. /\ Len(Plan) \in Nat
      /\ DOMAIN Plan = 1 .. Len(Plan)
  BY PlanLength
<1>7. ASSUME NEW p \in Procs, Start(p) PROVE Steady'
  <2>1. PICK x : x = [proc[p] EXCEPT !.pc = "next", !.at = 1]
    OBVIOUS
  <2>2. x \in ProcType /\ x.pc = "next" /\ x.at # 0
    <3>1. PICK n \in 0 .. Len(Plan) + 1 : n = 1
      BY <1>6
    <3>2. x = [proc[p] EXCEPT !.pc = "next", !.at = n] /\ n # 0
      BY <2>1, <3>1
    <3>3. QED BY <1>5, <3>2 DEF ProcType
  <2>3. proc' = [proc EXCEPT ![p] = x]
    BY <1>0, <1>7, <2>1 DEF Start
  <2>4. call'[p].pc = "none" /\ UNCHANGED call
    BY <1>5, <1>7 DEF Start, Stands, callVars
  <2>5. Moves(p)
    BY <1>0, <2>2, <2>3, <2>4, ProcMoves DEF Stands, Working
  <2>6. QED BY <1>1, <1>2, <1>3, <1>4, <1>7, <2>5 DEF Start
<1>8. ASSUME NEW p \in Procs, SkipRegion(p) PROVE Steady'
  <2>1. PICK n \in 0 .. Len(Plan) + 1 : n = proc[p].at + 1 /\ n # 0
    BY <1>5, <1>6, <1>8 DEF SkipRegion, ProcType
  <2>2. PICK x : x = [proc[p] EXCEPT !.at = n]
    OBVIOUS
  <2>3. x \in ProcType /\ x.pc = "next" /\ x.at # 0
    BY <1>5, <1>8, <2>1, <2>2 DEF SkipRegion, ProcType
  <2>4. proc' = [proc EXCEPT ![p] = x]
    BY <1>0, <1>8, <2>1, <2>2 DEF SkipRegion
  <2>5. call'[p].pc = "none" /\ UNCHANGED call
    BY <1>5, <1>8 DEF SkipRegion, Stands, callVars
  <2>6. Moves(p)
    BY <1>0, <2>3, <2>4, <2>5, ProcMoves DEF Stands, Working
  <2>7. QED BY <1>1, <1>2, <1>3, <1>4, <1>8, <2>6 DEF SkipRegion
<1>9. ASSUME NEW p \in Procs, StartRegion(p) PROVE Steady'
  <2>1. proc[p].at \in DOMAIN Plan
    BY <1>5, <1>6, <1>9 DEF StartRegion, Stands, ProcType
  <2>2. Here(p) \in Regions
    BY <2>1, HereInPlan
  <2>3. StoreOK
    BY <1>0, <1>9, <2>2 DEF StartRegion
  <2>4. /\ CallsOK
        /\ call'[p].pc = "check" /\ call'[p].left # 0
        /\ \A q \in Procs \ {p} : call'[q] = call[q]
    BY <1>0, <1>9, BeginCallTyped DEF StartRegion
  <2>5. Moves(p)
    <3>1. PICK x : x = [proc[p] EXCEPT !.pc = "lens"]
      OBVIOUS
    <3>2. x \in ProcType /\ x.pc = "lens" /\ x.at \in DOMAIN Plan
      BY <1>5, <2>1, <3>1 DEF ProcType
    <3>3. proc' = [proc EXCEPT ![p] = x]
      BY <1>0, <1>9, <3>1 DEF StartRegion
    <3>4. QED BY <1>0, <2>4, <3>2, <3>3, ProcMoves DEF Stands, Working
  <2>6. CountsOK
    BY <1>4, <1>9 DEF StartRegion
  <2>7. QED BY <1>1, <2>3, <2>4, <2>5, <2>6
<1>10. ASSUME NEW p \in Procs, Calling(p) PROVE Steady'
  <2>1. /\ CallsOK
        /\ call[p].pc # "none" /\ call'[p].pc # "none"
        /\ call'[p].pc \in {"check", "ask"} => call'[p].left # 0
        /\ \A q \in Procs \ {p} : call'[q] = call[q]
    BY <1>10, CallStepTyped DEF Calling
  <2>2. troubles' \in 0 .. MaxTroubles
    <3>1. troubles' = troubles + 1 \/ troubles' = troubles
      BY <1>10 DEF Calling
    <3>2. QED BY <1>0, <1>10, <3>1, DetectionAssumption DEF Calling
  <2>3. CountsOK
    BY <1>0, <1>10, <2>2 DEF Calling
  <2>4. Moves(p)
    BY <1>0, <1>5, <1>10, <2>1 DEF Calling, Stands, Working
  <2>5. StoreOK
    BY <1>3, <1>10 DEF Calling
  <2>6. QED BY <1>1, <2>1, <2>3, <2>4, <2>5
<1>11. ASSUME NEW p \in Procs, Answer(p) PROVE Steady'
  <2>1. PICK answer \in SUBSET Candidates :
            proc' = [proc EXCEPT ![p].pc = "candidates", ![p].queue = answer,
                                 ![p].due = Asserted(Here(p), answer)]
    BY <1>11 DEF Answer
  <2>2. proc[p].at \in DOMAIN Plan /\ Here(p) \in Regions
    BY <1>5, <1>11, HereInPlan DEF Answer, Stands, Working
  <2>3. PICK due : due = Asserted(Here(p), answer) /\ due \in SUBSET Identities
    BY <2>2, AssertedTyped
  <2>4. CallsOK /\ call'[p].pc = "none" /\ \A q \in Procs \ {p} : call'[q] = call[q]
    BY <1>0, <1>11, EndCallTyped DEF Answer
  <2>5. PICK x : x = [proc[p] EXCEPT !.pc = "candidates", !.queue = answer, !.due = due]
    OBVIOUS
  <2>6. Moves(p)
    <3>1. x \in ProcType /\ x.pc = "candidates" /\ x.at \in DOMAIN Plan
      BY <1>5, <2>2, <2>3, <2>5 DEF ProcType
    <3>2. proc' = [proc EXCEPT ![p] = x]
      BY <1>0, <2>1, <2>3, <2>5
    <3>3. QED BY <1>0, <2>4, <3>1, <3>2, ProcMoves DEF Stands, Working
  <2>7. QED BY <1>1, <1>3, <1>4, <1>11, <2>4, <2>6 DEF Answer
<1>12. ASSUME NEW p \in Procs, NEW c \in Candidates, Anchor(p, c) PROVE Steady'
  <2>1. PICK place \in SUBSET Occurs : place = Canonical(c)
    BY CanonicalOccurs
  <2>2. PICK raw \in SUBSET Candidates : raw = {d \in {c} : Canonical(c) # {}}
    OBVIOUS
  <2>3. PICK pc : pc = IF Canonical(c) = {} THEN "candidates"
                       ELSE IF c.sure THEN "persist" ELSE "rescore"
    OBVIOUS
  <2>4. PICK x : x = [proc[p] EXCEPT !.queue = @ \ {c}, !.raw = raw, !.place = place,
                                     !.pc = pc]
    OBVIOUS
  <2>5. proc[p].at \in DOMAIN Plan /\ call[p].pc = "none"
    BY <1>5, <1>12 DEF Anchor, Stands, Working
  <2>6. x \in ProcType /\ x.pc = pc /\ x.at \in DOMAIN Plan
    BY <1>5, <2>1, <2>2, <2>3, <2>4, <2>5 DEF ProcType, Spots
  <2>7. proc' = [proc EXCEPT ![p] = x]
    BY <1>0, <1>12, <2>1, <2>2, <2>3, <2>4 DEF Anchor
  <2>8. CASE pc = "rescore"
    <3>1. BeginCall(p)
      BY <1>12, <2>3, <2>8 DEF Anchor
    <3>2. /\ call' \in [Procs -> CallType]
          /\ call'[p].pc = "check" /\ call'[p].left # 0
          /\ \A q \in Procs \ {p} : call'[q] = call[q]
      BY <1>0, <3>1, BeginCallTyped
    <3>3. CallsOK
      BY <1>0, <1>12, <3>2 DEF Anchor
    <3>4. Stands(p)'
      BY <1>0, <2>6, <2>7, <2>8, <3>2, ProcMoves DEF Stands, Working
    <3>5. Moves(p)
      BY <1>0, <2>6, <2>7, <3>2, <3>4, ProcMoves
    <3>6. QED BY <1>1, <1>3, <1>4, <1>12, <3>3, <3>5 DEF Anchor
  <2>9. CASE pc # "rescore"
    <3>1. UNCHANGED call /\ pc \in {"candidates", "persist"}
      BY <1>12, <2>3, <2>9 DEF Anchor
    <3>2. CallsOK
      BY <1>0, <1>12, <3>1 DEF Anchor
    <3>3. Stands(p)'
      BY <1>0, <2>5, <2>6, <2>7, <3>1, ProcMoves DEF Stands, Working
    <3>4. Moves(p)
      BY <1>0, <2>6, <2>7, <3>1, <3>3, ProcMoves
    <3>5. QED BY <1>1, <1>3, <1>4, <1>12, <3>2, <3>4 DEF Anchor
  <2>10. QED BY <2>8, <2>9
<1>13. ASSUME NEW p \in Procs, Rescore(p) PROVE Steady'
  <2>1. CallsOK /\ call'[p].pc = "none" /\ \A q \in Procs \ {p} : call'[q] = call[q]
    BY <1>0, <1>13, EndCallTyped DEF Rescore
  <2>2. \/ proc' = [proc EXCEPT ![p].pc = "persist"]
        \/ \E c \in Candidates :
              proc' = [proc EXCEPT ![p].pc = "persist", ![p].raw = {c},
                                   ![p].place = {Cited(c)}]
    BY <1>13 DEF Rescore
  <2>3. Moves(p)
    <3>1. proc[p].at \in DOMAIN Plan
      BY <1>5, <1>13 DEF Rescore, Stands, Working
    <3>2. PICK x \in ProcType : /\ proc' = [proc EXCEPT ![p] = x]
                                /\ x.pc = "persist" /\ x.at = proc[p].at
      <4>1. CASE proc' = [proc EXCEPT ![p].pc = "persist"]
        <5>1. PICK x : x = [proc[p] EXCEPT !.pc = "persist"]
          OBVIOUS
        <5>2. proc' = [proc EXCEPT ![p] = x]
          BY <1>0, <4>1, <5>1
        <5>3. x \in ProcType /\ x.pc = "persist" /\ x.at = proc[p].at
          BY <1>5, <5>1 DEF ProcType
        <5>4. QED BY <5>2, <5>3
      <4>2. ASSUME NEW c \in Candidates,
                   proc' = [proc EXCEPT ![p].pc = "persist", ![p].raw = {c},
                                        ![p].place = {Cited(c)}]
            PROVE  \E x \in ProcType : /\ proc' = [proc EXCEPT ![p] = x]
                                       /\ x.pc = "persist" /\ x.at = proc[p].at
        <5>1. PICK x : x = [proc[p] EXCEPT !.pc = "persist", !.raw = {c},
                                           !.place = {Cited(c)}]
          OBVIOUS
        <5>2. proc' = [proc EXCEPT ![p] = x]
          BY <1>0, <4>2, <5>1
        <5>3. {c} \in SUBSET Candidates /\ {Cited(c)} \in SUBSET Spots
          BY DEF Spots
        <5>4. x \in ProcType /\ x.pc = "persist" /\ x.at = proc[p].at
          BY <1>5, <5>1, <5>3 DEF ProcType
        <5>5. QED BY <5>2, <5>4
      <4>3. QED BY <2>2, <4>1, <4>2
    <3>3. QED BY <1>0, <2>1, <3>1, <3>2, ProcMoves DEF Stands, Working
  <2>4. QED BY <1>1, <1>3, <1>4, <1>13, <2>1, <2>3 DEF Rescore
<1>14. ASSUME NEW p \in Procs, Persist(p) PROVE Steady'
  <2>1. proc[p].at \in DOMAIN Plan /\ Here(p) \in Regions
    BY <1>5, <1>14, HereInPlan DEF Persist, Stands, Working
  <2>2. findings' \in [Identities -> Nat]
    <3>1. CASE UNCHANGED findings
      BY <1>0, <3>1
    <3>2. CASE \E i \in AtHand(p) : Upsert(i)
      <4>1. PICK i : Upsert(i)
        BY <3>2
      <4>2. QED BY <1>0, <4>1 DEF Upsert
    <3>3. QED BY <1>14, <3>1, <3>2 DEF Persist
  <2>3. Moves(p)
    <3>1. PICK x : x = [proc[p] EXCEPT !.pc = "candidates", !.raw = {}, !.place = {}]
      OBVIOUS
    <3>2. x \in ProcType /\ x.pc = "candidates" /\ x.at \in DOMAIN Plan
      BY <1>5, <2>1, <3>1 DEF ProcType
    <3>3. proc' = [proc EXCEPT ![p] = x]
      BY <1>0, <1>14, <3>1 DEF Persist
    <3>4. call'[p].pc = "none" /\ UNCHANGED call
      BY <1>5, <1>14 DEF Persist, Stands, callVars
    <3>5. QED BY <1>0, <3>2, <3>3, <3>4, ProcMoves DEF Stands, Working
  <2>4. StoreOK
    BY <1>0, <1>14, <2>2 DEF Persist
  <2>5. QED BY <1>1, <1>2, <1>4, <1>14, <2>3, <2>4 DEF Persist
<1>15. ASSUME NEW p \in Procs, Finish(p) PROVE Steady'
  <2>1. proc[p].at \in DOMAIN Plan /\ Here(p) \in Regions
    BY <1>5, <1>15, HereInPlan DEF Finish, Stands, Working
  <2>2. PICK x : x = [Stopped EXCEPT !.pc = "finished", !.at = proc[p].at]
    OBVIOUS
  <2>3. proc[p].at \in 0 .. Len(Plan) + 1
    BY <1>5 DEF ProcType
  <2>4. x \in ProcType /\ x.pc = "finished" /\ x.at = proc[p].at
    BY <2>2, <2>3, StoppedTyped DEF Stopped, ProcType
  <2>5. proc' = [proc EXCEPT ![p] = x]
    BY <1>15, <2>2 DEF Finish
  <2>6. Moves(p)
    BY <1>0, <1>5, <1>15, <2>1, <2>4, <2>5 DEF Finish, Stands, Working, callVars
  <2>7. StoreOK
    <3>1. proc[p].due \in SUBSET Identities
      BY <1>5 DEF ProcType
    <3>2. QED BY <1>0, <1>15, <2>1, <3>1 DEF Finish
  <2>8. QED BY <1>1, <1>2, <1>4, <1>15, <2>6, <2>7 DEF Finish
<1>16. ASSUME NEW p \in Procs, Return(p) PROVE Steady'
  <2>1. Moves(p)
    BY <1>0, <1>5, <1>16, StoppedTyped DEF Return, Stands, Working, callVars
  <2>2. QED BY <1>1, <1>2, <1>3, <1>4, <1>16, <2>1 DEF Return
<1>17. ASSUME NEW p \in Procs, FailRegion(p), Working(p), CountsOK PROVE Steady'
  <2>1. proc[p].at \in DOMAIN Plan /\ Here(p) \in Regions
    BY <1>5, <1>17, HereInPlan DEF Stands
  <2>2. CallsOK /\ call'[p].pc = "none" /\ \A q \in Procs \ {p} : call'[q] = call[q]
    BY <1>0, <1>17, EndCallTyped DEF FailRegion
  <2>3. Moves(p)
    BY <1>0, <1>17, <2>2, StoppedTyped DEF FailRegion, Stands, Working
  <2>4. StoreOK
    BY <1>0, <1>17, <2>1 DEF FailRegion
  <2>5. QED BY <1>1, <1>17, <2>2, <2>3, <2>4
<1>18. ASSUME NEW p \in Procs, crashes < MaxCrashes, crashes' = crashes + 1,
              lost' = lost + Unrecorded(p), UNCHANGED troubles
       PROVE  CountsOK
  <2>1. Unrecorded(p) \in {0, 1}
    BY DEF Unrecorded
  <2>2. QED BY <1>0, <1>18, <2>1, DetectionAssumption
<1>19. ASSUME NEW p \in Procs, Fail(p) PROVE Steady'
  <2>1. Working(p)
    BY <1>5, <1>19 DEF Fail, Stands, Working
  <2>2. CountsOK
    BY <1>0, <1>19 DEF Fail, FailRegion
  <2>3. QED BY <1>17, <1>19, <2>1, <2>2 DEF Fail
<1>20. ASSUME NEW p \in Procs, Interrupt(p) PROVE Steady'
  BY <1>17, <1>18, <1>20 DEF Interrupt, FailRegion
<1>21. ASSUME NEW p \in Procs, Crash(p) PROVE Steady'
  <2>1. CallsOK /\ call'[p].pc = "none" /\ \A q \in Procs \ {p} : call'[q] = call[q]
    BY <1>0, <1>21, EndCallTyped DEF Crash
  <2>2. Moves(p)
    BY <1>0, <1>21, <2>1, StoppedTyped DEF Crash, Stands, Working
  <2>3. StoreOK
    BY <1>3, <1>21 DEF Crash
  <2>4. QED BY <1>1, <1>18, <1>21, <2>1, <2>2, <2>3 DEF Crash
<1>22. ASSUME NEW p \in Procs, Leave(p) PROVE Steady'
  <2>1. proc[p].at \in DOMAIN Plan
    BY <1>5, <1>22 DEF Leave, Stands, Working
  <2>2. PICK n \in 0 .. Len(Plan) + 1 : n = proc[p].at + 1 /\ n # 0
    BY <1>6, <2>1
  <2>3. PICK x : x = [proc[p] EXCEPT !.pc = "next", !.at = n]
    OBVIOUS
  <2>4. x \in ProcType /\ x.pc = "next" /\ x.at # 0
    BY <1>5, <2>2, <2>3 DEF ProcType
  <2>5. proc' = [proc EXCEPT ![p] = x]
    BY <1>0, <1>22, <2>2, <2>3 DEF Leave
  <2>6. call'[p].pc = "none" /\ UNCHANGED call
    BY <1>5, <1>22 DEF Leave, Stands, callVars
  <2>7. Moves(p)
    BY <1>0, <2>4, <2>5, <2>6, ProcMoves DEF Stands, Working
  <2>8. QED BY <1>1, <1>2, <1>3, <1>4, <1>22, <2>7 DEF Leave
<1>23. CASE UNCHANGED vars
  <2>1. CallsOK /\ StoreOK /\ CountsOK /\ UNCHANGED <<proc, call>>
    BY <1>2, <1>3, <1>4, <1>23 DEF vars, detectVars, callVars
  <2>2. (\A q \in Procs : Stands(q))'
    BY <1>0, <2>1 DEF Stands, Working
  <2>3. QED BY <1>0, <2>1, <2>2 DEF Steady, TypeOK, CallsTypeOK, CallType, ProcType, Spots
<1>24. QED
  BY <1>7, <1>8, <1>9, <1>10, <1>11, <1>12, <1>13, <1>14, <1>15, <1>16, <1>19,
     <1>20, <1>21, <1>22, <1>23 DEF Next, Step

(* Whatever the language-model stage and its calls do, their variables keep
   their types: run_ensemble of detect/ensemble.py and LLMClient.call. *)
THEOREM DetectionTyped == Spec => []TypeOK
<1>1. Steady => TypeOK
  BY DEF Steady
<1>2. QED BY <1>1, SteadyInit, SteadyStep, PTL DEF Spec

-----------------------------------------------------------------------------
(* What a step changes *)

LEMMA OwnSteps ==
    ASSUME Steady, [Next]_vars, NEW q \in Procs, proc'[q] # proc[q]
    PROVE  Start(q) \/ Step(q) \/ Interrupt(q) \/ Crash(q)
<1>1. PICK p \in Procs : Start(p) \/ Step(p) \/ Interrupt(p) \/ Crash(p)
  BY DEF Next, vars, detectVars
<1>2. proc \in [Procs -> ProcType]
  BY SteadyTypes
<1>3. \A y : proc' = [proc EXCEPT ![p] = y] => p = q
  BY <1>2
<1>4. p = q
  <2>1. CASE Start(p)
    BY <1>2, <2>1 DEF Start
  <2>2. CASE SkipRegion(p)
    BY <1>2, <2>2 DEF SkipRegion
  <2>3. CASE StartRegion(p)
    BY <1>2, <2>3 DEF StartRegion
  <2>4. CASE Calling(p)
    BY <2>4 DEF Calling
  <2>5. CASE Answer(p)
    BY <1>2, <2>5 DEF Answer
  <2>6. ASSUME NEW c \in Candidates, Anchor(p, c) PROVE p = q
    BY <1>2, <2>6 DEF Anchor
  <2>7. CASE Rescore(p)
    BY <1>2, <2>7 DEF Rescore
  <2>8. CASE Persist(p)
    BY <1>2, <2>8 DEF Persist
  <2>9. CASE Finish(p)
    BY <1>2, <2>9 DEF Finish
  <2>10. CASE Return(p)
    BY <1>2, <2>10 DEF Return
  <2>11. CASE Fail(p)
    BY <1>2, <2>11 DEF Fail, FailRegion
  <2>12. CASE Interrupt(p)
    BY <1>2, <2>12 DEF Interrupt, FailRegion
  <2>13. CASE Crash(p)
    BY <1>2, <2>13 DEF Crash
  <2>14. CASE Leave(p)
    BY <1>2, <2>14 DEF Leave
  <2>15. QED
    BY <1>1, <2>1, <2>2, <2>3, <2>4, <2>5, <2>6, <2>7, <2>8, <2>9, <2>10, <2>11,
       <2>12, <2>13, <2>14 DEF Step
<1>5. QED BY <1>1, <1>4

(* The steps that leave a candidate at hand. *)
LEMMA HandSteps ==
    ASSUME Steady, [Next]_vars, NEW q \in Procs, proc'[q] # proc[q],
           proc'[q].pc \in {"rescore", "persist"}
    PROVE  Rescore(q) \/ \E c \in Candidates : Anchor(q, c)
<1>1. proc \in [Procs -> ProcType] /\ proc[q] \in ProcType
  BY SteadyTypes
<1>2. Stopped.pc = "idle"
  BY DEF Stopped
<1>3. ~Start(q)
  BY <1>1 DEF Start, ProcType
<1>4. ~SkipRegion(q)
  BY <1>1 DEF SkipRegion, ProcType
<1>5. ~StartRegion(q)
  BY <1>1 DEF StartRegion, ProcType
<1>6. ~Calling(q)
  BY DEF Calling
<1>7. ~Answer(q)
  <2>1. ASSUME NEW answer, NEW due,
               proc' = [proc EXCEPT ![q].pc = "candidates", ![q].queue = answer,
                                    ![q].due = due]
        PROVE  proc'[q].pc = "candidates"
    BY <1>1, <2>1 DEF ProcType
  <2>2. ASSUME Answer(q) PROVE proc'[q].pc = "candidates"
    <3>1. PICK answer \in SUBSET Candidates :
              proc' = [proc EXCEPT ![q].pc = "candidates", ![q].queue = answer,
                                   ![q].due = Asserted(Here(q), answer)]
      BY <2>2 DEF Answer
    <3>2. QED BY <2>1, <3>1
  <2>3. QED BY <2>2
<1>8. ~Persist(q)
  BY <1>1 DEF Persist, ProcType
<1>9. ~Finish(q) /\ ~Leave(q)
  <2>1. PICK x : x = [Stopped EXCEPT !.pc = "finished", !.at = proc[q].at]
    OBVIOUS
  <2>2. x.pc = "finished"
    BY <2>1 DEF Stopped
  <2>3. ~Finish(q)
    BY <1>1, <2>1, <2>2 DEF Finish
  <2>4. QED BY <1>1, <2>3 DEF Leave, ProcType
<1>10. ~Return(q) /\ ~Fail(q) /\ ~Interrupt(q) /\ ~Crash(q)
  BY <1>1, <1>2 DEF Return, Fail, FailRegion, Interrupt, Crash
<1>11. QED
  BY <1>3, <1>4, <1>5, <1>6, <1>7, <1>8, <1>9, <1>10, OwnSteps DEF Step

-----------------------------------------------------------------------------
(* ExactCitationStays *)

LEMMA AnchoredStep == Steady /\ Anchored /\ [Next]_vars => Anchored'
<1> SUFFICES ASSUME Steady, Anchored, [Next]_vars, NEW q \in Procs,
                    proc'[q].pc \in {"rescore", "persist"}
             PROVE  \E c \in Candidates :
                        proc'[q].raw = {c} /\ proc'[q].place \in {{Cited(c)}, Canonical(c)}
  BY DEF Anchored
<1>1. proc \in [Procs -> ProcType] /\ proc[q] \in ProcType
  BY SteadyTypes
<1>2. CASE proc'[q] = proc[q]
  BY <1>2 DEF Anchored
<1>3. ASSUME NEW c \in Candidates, Anchor(q, c), proc'[q] # proc[q]
      PROVE  proc'[q].raw = {c} /\ proc'[q].place = Canonical(c)
  <2>1. /\ proc'[q].raw = {d \in {c} : Canonical(c) # {}}
        /\ proc'[q].place = Canonical(c)
        /\ Canonical(c) = {} => proc'[q].pc = "candidates"
    BY <1>1, <1>3 DEF Anchor, ProcType
  <2>2. QED BY <2>1
<1>4. CASE Rescore(q)
  <2>1. proc[q].pc = "rescore"
    BY <1>4 DEF Rescore
  <2>2. CASE proc' = [proc EXCEPT ![q].pc = "persist"]
    BY <1>1, <2>1, <2>2 DEF Anchored, ProcType
  <2>3. ASSUME NEW c \in Candidates,
               proc' = [proc EXCEPT ![q].pc = "persist", ![q].raw = {c},
                                    ![q].place = {Cited(c)}]
        PROVE  proc'[q].raw = {c} /\ proc'[q].place = {Cited(c)}
    BY <1>1, <2>3 DEF ProcType
  <2>4. QED BY <1>4, <2>2, <2>3 DEF Rescore
<1>5. QED BY <1>2, <1>3, <1>4, HandSteps

LEMMA CitedAgain ==
    ASSUME NEW c
    PROVE  /\ Cited(Cited(c)) = Cited(c)
           /\ Locations(Cited(c)) = Locations(c)
BY DEF Cited, Locations

(* A citation that names a place where it occurs is kept there, or refused, by
   both passes of _canonicalize_citation of detect/ensemble.py, also when the
   model repeated it in between. *)
THEOREM ExactCitationsStay == Spec => []ExactCitationStays
<1>1. Steady /\ Anchored => ExactCitationStays
  <2> SUFFICES ASSUME Steady, Anchored, NEW p \in Procs, proc[p].pc = "persist",
                      NEW c \in proc[p].raw, NEW o \in Target(p)
               PROVE  o \in Occurs /\ (Cited(c) \in Occurs => o = Cited(c))
    BY DEF ExactCitationStays
  <2>1. c \in Candidates /\ proc[p].place \in {{Cited(c)}, Canonical(c)}
    BY DEF Anchored
  <2>2. PICK a \in proc[p].place : o \in Canonical(a)
    BY DEF Target
  <2>3. o \in Occurs
    BY <2>2, CanonicalOccurs
  <2>4. ASSUME Cited(c) \in Occurs PROVE o = Cited(c)
    <3>1. a = Cited(c)
      BY <2>1, <2>2, <2>4, ExactIsMeant
    <3>2. Cited(a) = a /\ a \in Occurs
      BY <2>4, <3>1, CitedAgain
    <3>3. Canonical(a) \subseteq {a}
      BY <3>2, ExactIsMeant
    <3>4. QED BY <2>2, <3>1, <3>3
  <2>5. QED BY <2>3, <2>4
<1>2. Init => Anchored
  BY DEF Init, Anchored, Stopped
<1>3. QED BY <1>1, <1>2, SteadyInit, SteadyStep, AnchoredStep, PTL DEF Spec

-----------------------------------------------------------------------------
(* PersistedOnce *)

LEMMA TargetIsOne ==
    ASSUME Steady, Anchored, NEW p \in Procs, proc[p].pc = "persist"
    PROVE  \A o1, o2 \in Target(p) : o1 = o2
<1> PICK c \in Candidates : proc[p].place \in {{Cited(c)}, Canonical(c)}
  BY DEF Anchored
<1>1. \A a1, a2 \in proc[p].place : a1 = a2
  BY PlaceIsOne
<1>2. QED BY <1>1, PlaceIsOne DEF Target

LEMMA AtHandIsOne ==
    ASSUME Steady, Anchored, NEW p \in Procs, proc[p].pc = "persist"
    PROVE  \A i, j \in AtHand(p) : i = j
<1>1. PICK c \in Candidates : proc[p].raw = {c}
  BY DEF Anchored
<1>2. \A o1, o2 \in Target(p) : o1 = o2
  BY TargetIsOne
<1>3. QED BY <1>1, <1>2 DEF AtHand

(* Rows are inserted once and not removed. *)
LEMMA FindingsGrow ==
    ASSUME Steady, [Next]_vars, NEW i \in Identities
    PROVE  /\ findings[i] = 1 => findings'[i] = 1
           /\ findings[i] <= 1 => findings'[i] <= 1
           /\ ~UNCHANGED findings => \E p \in Procs : Persist(p)
<1>1. findings \in [Identities -> Nat]
  BY SteadyTypes
<1>2. ~UNCHANGED findings => \E p \in Procs : Persist(p)
  <2>1. ASSUME NEW p \in Procs,
               Start(p) \/ SkipRegion(p) \/ StartRegion(p) \/ Calling(p) \/ Answer(p) \/ Rescore(p)
        PROVE  UNCHANGED findings
    BY <2>1 DEF Start, SkipRegion, StartRegion, Calling, Answer, Rescore
  <2>2. ASSUME NEW p \in Procs, NEW c \in Candidates, Anchor(p, c)
        PROVE  UNCHANGED findings
    BY <2>2 DEF Anchor
  <2>3. ASSUME NEW p \in Procs,
               Finish(p) \/ Leave(p) \/ Return(p) \/ Fail(p) \/ Interrupt(p) \/ Crash(p)
        PROVE  UNCHANGED findings
    BY <2>3 DEF Finish, Leave, Return, Fail, FailRegion, Interrupt, Crash
  <2>4. CASE UNCHANGED vars
    BY <2>4 DEF vars, detectVars
  <2>5. QED BY <2>1, <2>2, <2>3, <2>4 DEF Next, Step
<1>3. ASSUME NEW p \in Procs, Persist(p)
      PROVE  UNCHANGED findings \/ \E j : Upsert(j)
  BY <1>3 DEF Persist
<1>4. ASSUME NEW j, Upsert(j)
      PROVE  /\ findings[i] = 1 => findings'[i] = 1
             /\ findings[i] <= 1 => findings'[i] <= 1
  BY <1>1, <1>4 DEF Upsert
<1>5. QED BY <1>2, <1>3, <1>4

(* The completion of a region is the only step at which something is owed. *)
LEMMA OwedSteps ==
    ASSUME Steady, [Next]_vars, NEW r \in Regions, owed'[r] # owed[r]
    PROVE  \E p \in Procs : Finish(p) /\ owed'[r] = proc[p].due
<1>1. owed \in [Regions -> SUBSET Identities]
  BY SteadyTypes
<1>2. PICK p \in Procs : Finish(p)
  <2>1. ASSUME NEW p \in Procs,
               Start(p) \/ SkipRegion(p) \/ StartRegion(p) \/ Calling(p) \/ Answer(p) \/ Rescore(p)
        PROVE  UNCHANGED owed
    BY <2>1 DEF Start, SkipRegion, StartRegion, Calling, Answer, Rescore
  <2>2. ASSUME NEW p \in Procs, NEW c \in Candidates, Anchor(p, c)
        PROVE  UNCHANGED owed
    BY <2>2 DEF Anchor
  <2>3. ASSUME NEW p \in Procs,
               Persist(p) \/ Leave(p) \/ Return(p) \/ Fail(p) \/ Interrupt(p) \/ Crash(p)
        PROVE  UNCHANGED owed
    BY <2>3 DEF Persist, Leave, Return, Fail, FailRegion, Interrupt, Crash
  <2>4. CASE UNCHANGED vars
    BY <2>4 DEF vars, detectVars
  <2>5. QED BY <2>1, <2>2, <2>3, <2>4 DEF Next, Step
<1>3. QED BY <1>1, <1>2 DEF Finish

(* What a process owes stays paid, or payable, over its own steps ... *)
LEMMA OwnPays ==
    ASSUME Steady, Anchored, Kept, [Next]_vars, NEW q \in Procs, proc'[q] # proc[q]
    PROVE  /\ \A i \in proc'[q].due : Pays(q, i)'
           /\ proc'[q].pc \in {"idle", "next", "lens", "finished"} => proc'[q].due = {}
<1>1. proc \in [Procs -> ProcType] /\ proc[q] \in ProcType
  BY SteadyTypes
<1>2. Stopped.pc = "idle" /\ Stopped.due = {}
  BY DEF Stopped
<1>3. Plan' = Plan /\ LensOf' = LensOf
  OBVIOUS
<1>4. /\ \A i \in proc[q].due : Pays(q, i) /\ i \in Identities
      /\ proc[q].pc \in {"idle", "next", "lens", "finished"} => proc[q].due = {}
  BY <1>1 DEF Kept, ProcType
<1>5. \A i \in Identities : findings[i] = 1 => findings'[i] = 1
  BY FindingsGrow
<1>6. ASSUME proc'[q].due = {}
      PROVE  \A i \in proc'[q].due : Pays(q, i)'
  BY <1>6
<1>7. CASE Start(q) \/ SkipRegion(q) \/ StartRegion(q) \/ Leave(q)
  <2>1. proc[q].due = {} /\ proc'[q].due = proc[q].due
    BY <1>1, <1>4, <1>7 DEF Start, SkipRegion, StartRegion, Leave, ProcType
  <2>2. QED BY <1>6, <2>1
<1>8. CASE Answer(q)
  <2>1. PICK answer \in SUBSET Candidates :
            proc' = [proc EXCEPT ![q].pc = "candidates", ![q].queue = answer,
                                 ![q].due = Asserted(Here(q), answer)]
    BY <1>8 DEF Answer
  <2>2. /\ proc'[q].pc = "candidates" /\ proc'[q].queue = answer
        /\ proc'[q].due = Asserted(Here(q), answer) /\ proc'[q].at = proc[q].at
    BY <1>1, <2>1 DEF ProcType
  <2>3. ASSUME NEW i \in Asserted(Here(q), answer) PROVE Pays(q, i)'
    <3>1. PICK c \in answer : c.sure /\ i \in Meant(Here(q), c)
      BY <2>3 DEF Asserted
    <3>2. QED BY <2>2, <3>1 DEF Pays, Meant, Here
  <2>4. QED BY <2>2, <2>3
<1>9. ASSUME NEW c \in Candidates, Anchor(q, c)
      PROVE  /\ \A i \in proc'[q].due : Pays(q, i)'
             /\ proc'[q].pc \in {"idle", "next", "lens", "finished"} => proc'[q].due = {}
  <2>1. /\ proc'[q].queue = proc[q].queue \ {c}
        /\ proc'[q].raw = {d \in {c} : Canonical(c) # {}}
        /\ proc'[q].place = Canonical(c)
        /\ proc'[q].pc = IF Canonical(c) = {} THEN "candidates"
                         ELSE IF c.sure THEN "persist" ELSE "rescore"
        /\ proc'[q].at = proc[q].at /\ proc'[q].due = proc[q].due
        /\ proc[q].pc = "candidates"
    BY <1>1, <1>9 DEF Anchor, ProcType
  <2>2. ASSUME NEW i \in proc[q].due PROVE Pays(q, i)'
    <3>1. i \in Identities /\ Pays(q, i)
      BY <1>4
    <3>2. CASE findings[i] = 1
      BY <1>5, <3>1, <3>2 DEF Pays
    <3>3. ASSUME NEW d \in proc[q].queue, d.sure, NEW o \in CanonicalTwice(d),
                 i = Identity(Here(q), d.title, o)
          PROVE  Pays(q, i)'
      <4>1. CASE d # c
        BY <2>1, <3>3, <4>1 DEF Pays, Meant, Here
      <4>2. CASE d = c
        <5>1. Canonical(c) # {}
          BY <3>3, <4>2 DEF CanonicalTwice
        <5>2. proc'[q].pc = "persist"
          BY <2>1, <3>3, <4>2, <5>1
        <5>3. o \in Target(q)'
          BY <2>1, <3>3, <4>2 DEF Target, CanonicalTwice
        <5>4. c \in proc'[q].raw
          BY <2>1, <5>1
        <5>5. i \in AtHand(q)'
          BY <2>1, <3>3, <4>2, <5>3, <5>4 DEF AtHand, Here
        <5>6. QED BY <5>2, <5>5 DEF Pays
      <4>3. QED BY <4>1, <4>2
    <3>4. QED BY <2>1, <3>1, <3>2, <3>3 DEF Pays, Meant
  <2>3. QED BY <2>1, <2>2
<1>10. CASE Rescore(q)
  <2>1. /\ proc'[q].pc = "persist" /\ proc'[q].queue = proc[q].queue
        /\ proc'[q].at = proc[q].at /\ proc'[q].due = proc[q].due
        /\ proc[q].pc = "rescore"
    <3>1. CASE proc' = [proc EXCEPT ![q].pc = "persist"]
      BY <1>1, <1>10, <3>1 DEF Rescore, ProcType
    <3>2. ASSUME NEW c \in Candidates,
                 proc' = [proc EXCEPT ![q].pc = "persist", ![q].raw = {c},
                                      ![q].place = {Cited(c)}]
          PROVE  /\ proc'[q].pc = "persist" /\ proc'[q].queue = proc[q].queue
                 /\ proc'[q].at = proc[q].at /\ proc'[q].due = proc[q].due
      BY <1>1, <3>2 DEF ProcType
    <3>3. QED BY <1>10, <3>1, <3>2 DEF Rescore
  <2>2. ASSUME NEW i \in proc[q].due PROVE Pays(q, i)'
    <3>1. i \in Identities /\ Pays(q, i)
      BY <1>4
    <3>2. QED BY <1>5, <2>1, <3>1 DEF Pays, Meant, Here
  <2>3. QED BY <2>1, <2>2
<1>11. CASE Persist(q)
  <2>1. /\ proc'[q].pc = "candidates" /\ proc'[q].queue = proc[q].queue
        /\ proc'[q].at = proc[q].at /\ proc'[q].due = proc[q].due
        /\ proc[q].pc = "persist"
    BY <1>1, <1>11 DEF Persist, ProcType
  <2>2. ASSUME NEW i \in proc[q].due PROVE Pays(q, i)'
    <3>1. i \in Identities /\ Pays(q, i)
      BY <1>4
    <3>2. CASE findings[i] = 1
      BY <1>5, <3>1, <3>2 DEF Pays
    <3>3. ASSUME i \in AtHand(q)
          PROVE  Pays(q, i)'
      <4>1. Upsert(i)
        <5>1. \A j \in AtHand(q) : j = i
          BY <2>1, <3>3, AtHandIsOne
        <5>2. Target(q) # {}
          BY <3>3 DEF AtHand
        <5>3. QED BY <1>11, <5>1, <5>2 DEF Persist
      <4>2. findings \in [Identities -> Nat] /\ findings[i] <= 1
        BY <3>1, SteadyTypes DEF Kept
      <4>3. findings'[i] = 1
        BY <3>1, <4>1, <4>2 DEF Upsert
      <4>4. QED BY <4>3 DEF Pays
    <3>4. CASE \E c \in proc[q].queue : c.sure /\ i \in Meant(Here(q), c)
      BY <2>1, <3>4 DEF Pays, Meant, Here
    <3>5. QED BY <3>1, <3>2, <3>3, <3>4 DEF Pays
  <2>3. QED BY <2>1, <2>2
<1>12. CASE Finish(q)
  <2>1. proc'[q].due = {}
    BY <1>1, <1>12 DEF Finish, Stopped
  <2>2. QED BY <1>6, <2>1
<1>13. CASE Return(q) \/ Fail(q) \/ Interrupt(q) \/ Crash(q)
  <2>1. proc'[q] = Stopped
    BY <1>1, <1>13 DEF Return, Fail, FailRegion, Interrupt, Crash
  <2>2. QED BY <1>2, <1>6, <2>1
<1>14. CASE Calling(q)
  BY <1>14 DEF Calling
<1>15. QED
  BY <1>7, <1>8, <1>9, <1>10, <1>11, <1>12, <1>13, <1>14, <1>4, <1>6, OwnSteps DEF Step

(* ... and over those of others. *)
LEMMA KeptStep == Steady /\ Anchored /\ Kept /\ [Next]_vars => Kept'
<1> SUFFICES ASSUME Steady, Anchored, Kept, [Next]_vars PROVE Kept'
  OBVIOUS
<1>1. \A i \in Identities : findings'[i] <= 1
  BY FindingsGrow DEF Kept
<1>2. \A i \in Identities : findings[i] = 1 => findings'[i] = 1
  BY FindingsGrow
<1>3. \A p \in Procs : proc[p].due \subseteq Identities
  <2>1. proc \in [Procs -> ProcType]
    BY SteadyTypes
  <2>2. QED BY <2>1 DEF ProcType
<1>4. ASSUME NEW r \in Regions, NEW i \in owed'[r] PROVE findings'[i] = 1
  <2>1. CASE owed'[r] = owed[r]
    <3>1. owed[r] \subseteq Identities
      BY SteadyTypes
    <3>2. QED BY <1>2, <1>4, <2>1, <3>1 DEF Kept
  <2>2. CASE owed'[r] # owed[r]
    <3>1. PICK p \in Procs : Finish(p) /\ owed'[r] = proc[p].due
      BY <2>2, OwedSteps
    <3>2. findings[i] = 1
      <4>1. Pays(p, i)
        BY <1>4, <3>1 DEF Kept
      <4>2. proc[p].queue = {} /\ proc[p].pc = "candidates"
        BY <3>1 DEF Finish
      <4>3. QED BY <4>1, <4>2 DEF Pays
    <3>3. i \in Identities
      BY <1>3, <1>4, <3>1
    <3>4. QED BY <1>2, <3>2, <3>3
  <2>3. QED BY <2>1, <2>2
<1>5. ASSUME NEW q \in Procs
      PROVE  /\ \A i \in proc'[q].due : Pays(q, i)'
             /\ proc'[q].pc \in {"idle", "next", "lens", "finished"} => proc'[q].due = {}
  <2>1. CASE proc'[q] # proc[q]
    BY <2>1, OwnPays
  <2>2. CASE proc'[q] = proc[q]
    <3>1. ASSUME NEW i \in proc[q].due PROVE Pays(q, i)'
      <4>1. Pays(q, i) /\ i \in Identities
        BY <1>3 DEF Kept
      <4>2. QED BY <1>2, <2>2, <4>1 DEF Pays, Meant, AtHand, Here, Target
    <3>2. QED BY <2>2, <3>1 DEF Kept
  <2>3. QED BY <2>1, <2>2
<1>6. QED BY <1>1, <1>4, <1>5 DEF Kept

(* What a completed region is never asked about again is in the store, once
   under the title that the answer gave it: run_ensemble of detect/ensemble.py
   inserts candidate by candidate before it finishes the region, and
   upsert_detected_finding of store/db.py looks for the lens, title, file, line
   and snippet and inserts under one lock. *)
THEOREM FindingsArePersisted == Spec => []PersistedOnce
<1>1. Kept => PersistedOnce
  BY DEF Kept, PersistedOnce
<1>2. Init => Kept
  BY DEF Init, Kept, Stopped
<1>3. Init => Anchored
  BY DEF Init, Anchored, Stopped
<1>4. QED
  BY <1>1, <1>2, <1>3, SteadyInit, SteadyStep, AnchoredStep, KeptStep, PTL DEF Spec

-----------------------------------------------------------------------------
(* PaidRegionOnce *)

(* What a step of p, other than taking up a region, may do to the rows of the
   regions: nothing; complete the one that p is at; or, as p stops, something to
   that one only. *)
MovesRegion(p) ==
    \/ /\ UNCHANGED region
       /\ Working(p)' => (proc'[p].pc = "finished" <=> proc[p].pc = "finished")
    \/ /\ Working(p) /\ proc'[p].pc = "finished"
       /\ region' = [region EXCEPT ![Here(p)] = "completed"]
    \/ /\ Working(p) /\ proc'[p].pc = "idle"
       /\ crashes' = crashes + 1 \/ proc[p].pc # "finished"
       /\ \A r \in Regions : r # Here(p) => region'[r] = region[r]

(* A region is taken up by StartRegion, which notes who else is at it; any other
   step changes at most the region of a process that completes or leaves it. *)
LEMMA RegionSteps ==
    ASSUME Steady, NEW p \in Procs, Start(p) \/ Step(p) \/ Interrupt(p) \/ Crash(p)
    PROVE  \/ StartRegion(p)
           \/ /\ UNCHANGED contested
              /\ \A q \in Procs : Working(q)' => Working(q) /\ Here(q)' = Here(q)
              /\ \A q \in Procs \ {p} : proc'[q] = proc[q]
              /\ MovesRegion(p)
<1>1. /\ proc \in [Procs -> ProcType]
      /\ \A q \in Procs : proc[q] \in ProcType
      /\ region \in [Regions -> {"none", "running", "completed", "failed"}]
  BY SteadyTypes
<1> DEFINE Stays == \A q \in Procs : Working(q)' => Working(q) /\ Here(q)' = Here(q)
<1>2. ASSUME NEW x \in ProcType, proc' = [proc EXCEPT ![p] = x],
             x.pc \notin {"idle", "next"} => Working(p) /\ x.at = proc[p].at
      PROVE  Stays
  <2> SUFFICES ASSUME NEW q \in Procs, Working(q)'
               PROVE  Working(q) /\ Here(q)' = Here(q)
    OBVIOUS
  <2>1. CASE q = p
    <3>1. proc'[q] = x
      BY <1>1, <1>2, <2>1
    <3>2. QED BY <1>2, <2>1, <3>1 DEF Working, Here
  <2>2. CASE q # p
    <3>1. proc'[q] = proc[q]
      BY <1>1, <1>2, <2>2
    <3>2. QED BY <3>1 DEF Working, Here
  <2>3. QED BY <2>1, <2>2
<1>3. Stopped \in ProcType /\ Stopped.pc = "idle"
  BY StoppedTyped
<1>4. ASSUME proc' = [proc EXCEPT ![p] = Stopped]
      PROVE  /\ Stays /\ proc'[p].pc = "idle" /\ ~Working(p)'
             /\ \A q \in Procs \ {p} : proc'[q] = proc[q]
  <2>1. Stays
    BY <1>2, <1>3, <1>4
  <2>2. QED BY <1>1, <1>3, <1>4, <2>1 DEF Working
<1>5. CASE Start(p)
  <2>1. Stays /\ ~Working(p)' /\ \A q \in Procs \ {p} : proc'[q] = proc[q]
    BY <1>1, <1>5 DEF Start, Working, Here, ProcType
  <2>2. QED BY <1>5, <2>1 DEF Start, MovesRegion
<1>6. CASE SkipRegion(p)
  <2>1. Stays /\ ~Working(p)' /\ \A q \in Procs \ {p} : proc'[q] = proc[q]
    BY <1>1, <1>6 DEF SkipRegion, Working, Here, ProcType
  <2>2. QED BY <1>6, <2>1 DEF SkipRegion, MovesRegion
<1>7. CASE Calling(p)
  BY <1>7 DEF Calling, Working, Here, MovesRegion
<1>8. CASE Answer(p)
  <2>1. PICK answer, due : proc' = [proc EXCEPT ![p].pc = "candidates",
                                                ![p].queue = answer, ![p].due = due]
    BY <1>8 DEF Answer
  <2>2. proc[p].pc = "lens"
    BY <1>8 DEF Answer
  <2>3. /\ Stays /\ proc'[p].pc = "candidates"
        /\ \A q \in Procs \ {p} : proc'[q] = proc[q]
    BY <1>1, <2>1, <2>2 DEF Working, Here, ProcType
  <2>4. QED BY <1>8, <2>2, <2>3 DEF Answer, MovesRegion
<1>9. ASSUME NEW c \in Candidates, Anchor(p, c)
      PROVE  /\ Stays /\ UNCHANGED contested /\ MovesRegion(p)
             /\ \A q \in Procs \ {p} : proc'[q] = proc[q]
  <2>1. PICK raw, place, pc :
            /\ pc # "finished"
            /\ proc' = [proc EXCEPT ![p].queue = @ \ {c}, ![p].raw = raw,
                                    ![p].place = place, ![p].pc = pc]
    <3>1. PICK pc : pc = IF Canonical(c) = {} THEN "candidates"
                         ELSE IF c.sure THEN "persist" ELSE "rescore"
      OBVIOUS
    <3>2. QED BY <1>9, <3>1 DEF Anchor
  <2>2. proc[p].pc = "candidates"
    BY <1>9 DEF Anchor
  <2>3. /\ Stays /\ proc'[p].pc # "finished"
        /\ \A q \in Procs \ {p} : proc'[q] = proc[q]
    BY <1>1, <2>1, <2>2 DEF Working, Here, ProcType
  <2>4. QED BY <1>9, <2>2, <2>3 DEF Anchor, MovesRegion
<1>10. CASE Rescore(p)
  <2> DEFINE Ready == /\ Stays /\ proc'[p].pc = "persist"
                      /\ \A q \in Procs \ {p} : proc'[q] = proc[q]
  <2>0. proc[p].pc = "rescore"
    BY <1>10 DEF Rescore
  <2>1. ASSUME NEW raw, NEW place,
               proc' = [proc EXCEPT ![p].pc = "persist", ![p].raw = raw, ![p].place = place]
        PROVE  Ready
    <3>1. /\ proc'[p].at = proc[p].at /\ proc'[p].pc = "persist"
          /\ \A q \in Procs \ {p} : proc'[q] = proc[q]
      BY <1>1, <2>1 DEF ProcType
    <3>2. QED BY <2>0, <3>1 DEF Working, Here
  <2>2. ASSUME proc' = [proc EXCEPT ![p].pc = "persist"]
        PROVE  Ready
    BY <1>1, <2>0, <2>2 DEF Working, Here, ProcType
  <2>3. Ready
    <3>1. CASE \E c \in Candidates :
                  proc' = [proc EXCEPT ![p].pc = "persist", ![p].raw = {c},
                                       ![p].place = {Cited(c)}]
      <4>1. PICK c \in Candidates :
                  proc' = [proc EXCEPT ![p].pc = "persist", ![p].raw = {c},
                                       ![p].place = {Cited(c)}]
        BY <3>1
      <4>2. QED BY <2>1, <4>1
    <3>2. \/ proc' = [proc EXCEPT ![p].pc = "persist"]
          \/ \E c \in Candidates :
                  proc' = [proc EXCEPT ![p].pc = "persist", ![p].raw = {c},
                                       ![p].place = {Cited(c)}]
      BY <1>10 DEF Rescore
    <3> HIDE DEF Ready
    <3>3. QED BY <2>2, <3>1, <3>2
  <2>4. QED BY <1>10, <2>0, <2>3 DEF Rescore, MovesRegion
<1>11. CASE Persist(p)
  <2>1. /\ Stays /\ proc[p].pc = "persist" /\ proc'[p].pc = "candidates"
        /\ \A q \in Procs \ {p} : proc'[q] = proc[q]
    BY <1>1, <1>11 DEF Persist, Working, Here, ProcType
  <2>2. QED BY <1>11, <2>1 DEF Persist, MovesRegion
<1>12. CASE Finish(p)
  <2>1. PICK x : x = [Stopped EXCEPT !.pc = "finished", !.at = proc[p].at]
    OBVIOUS
  <2>2. proc' = [proc EXCEPT ![p] = x] /\ Working(p)
    BY <1>12, <2>1 DEF Finish, Working
  <2>3. x.pc = "finished" /\ x.at = proc[p].at
    BY <2>1 DEF Stopped
  <2>4. /\ proc'[p].pc = "finished" /\ proc'[p].at = proc[p].at
        /\ \A q \in Procs \ {p} : proc'[q] = proc[q]
    BY <1>1, <2>2, <2>3
  <2>5. Stays
    BY <2>2, <2>4 DEF Working, Here
  <2>6. QED BY <1>12, <2>2, <2>4, <2>5 DEF Finish, MovesRegion
<1>13. CASE Return(p)
  BY <1>4, <1>13 DEF Return, MovesRegion
<1>14. CASE /\ FailRegion(p) /\ Working(p)
            /\ crashes' = crashes + 1 \/ proc[p].pc # "finished"
  <2>1. /\ Stays /\ proc'[p].pc = "idle"
        /\ \A q \in Procs \ {p} : proc'[q] = proc[q]
    BY <1>4, <1>14 DEF FailRegion
  <2>2. QED BY <1>1, <1>14, <2>1 DEF FailRegion, MovesRegion
<1>15. CASE Fail(p)
  <2>1. Working(p) /\ proc[p].pc # "finished"
    BY <1>15, SteadyTypes DEF Fail, Stands, Working
  <2>2. QED BY <1>14, <1>15, <2>1 DEF Fail
<1>16. CASE Interrupt(p)
  BY <1>14, <1>16 DEF Interrupt
<1>17. CASE Crash(p)
  BY <1>4, <1>17 DEF Crash, MovesRegion
<1>18. CASE Leave(p)
  <2>1. Stays /\ ~Working(p)' /\ \A q \in Procs \ {p} : proc'[q] = proc[q]
    BY <1>1, <1>18 DEF Leave, Working, Here, ProcType
  <2>2. QED BY <1>18, <2>1 DEF Leave, MovesRegion
<1>19. QED
  BY <1>5, <1>6, <1>7, <1>8, <1>9, <1>10, <1>11, <1>12, <1>13, <1>15, <1>16, <1>17,
     <1>18 DEF Step

(* What StartRegion does, with the region at hand named. *)
LEMMA Started ==
    ASSUME Steady, NEW p \in Procs, StartRegion(p)
    PROVE  /\ Here(p) \in Regions /\ Here(p)' = Here(p) /\ ~Working(p)
           /\ proc'[p].pc = "lens"
           /\ region[Here(p)] # "completed"
           /\ region' = [region EXCEPT ![Here(p)] = "running"]
           /\ contested' = contested \cup {r \in {Here(p)} : Others(p, r) # {}}
           /\ \A q \in Procs \ {p} : proc'[q] = proc[q]
<1>1. proc \in [Procs -> ProcType] /\ proc[p] \in ProcType /\ Stands(p)
  BY SteadyTypes
<1>2. proc[p].at \in DOMAIN Plan
  BY <1>1, PlanLength DEF StartRegion, Stands, ProcType
<1>3. proc'[p].at = proc[p].at /\ proc'[p].pc = "lens"
  BY <1>1 DEF StartRegion, ProcType
<1>4. Here(p) \in Regions /\ Here(p)' = Here(p)
  BY <1>2, <1>3, HereInPlan DEF Here
<1>5. \A q \in Procs \ {p} : proc'[q] = proc[q]
  BY <1>1 DEF StartRegion
<1>6. QED BY <1>3, <1>4, <1>5 DEF StartRegion, Working

LEMMA AloneStep == Steady /\ Alone /\ [Next]_vars => Alone'
<1> SUFFICES ASSUME Steady, Alone, [Next]_vars, NEW q \in Procs, Working(q)',
                    Here(q)' \notin contested'
             PROVE  /\ region'[Here(q)'] = "completed" <=> proc'[q].pc = "finished"
                    /\ \A o \in Procs \ {q} : Working(o)' => Here(o)' # Here(q)'
  BY DEF Alone
<1>0. /\ region \in [Regions -> {"none", "running", "completed", "failed"}]
      /\ \A o \in Procs : Stands(o)
  BY SteadyTypes
<1>1. CASE UNCHANGED vars
  BY <1>1 DEF Alone, Working, Here, vars, detectVars
<1>2. ASSUME NEW p \in Procs, StartRegion(p)
      PROVE  /\ region'[Here(q)'] = "completed" <=> proc'[q].pc = "finished"
             /\ \A o \in Procs \ {q} : Working(o)' => Here(o)' # Here(q)'
  <2>1. /\ Here(p) \in Regions /\ Here(p)' = Here(p) /\ ~Working(p)
        /\ proc'[p].pc = "lens"
        /\ region' = [region EXCEPT ![Here(p)] = "running"]
        /\ contested' = contested \cup {r \in {Here(p)} : Others(p, r) # {}}
        /\ \A o \in Procs \ {p} : proc'[o] = proc[o]
    BY <1>2, Started
  <2>2. \A o \in Procs \ {p} : /\ Working(o)' = Working(o)
                               /\ Here(o)' = Here(o)
    BY <2>1 DEF Working, Here
  <2>3. CASE q = p
    <3>1. Others(p, Here(p)) = {}
      BY <2>1, <2>3
    <3>2. QED BY <1>0, <2>1, <2>2, <2>3, <3>1 DEF Others
  <2>4. CASE q # p
    <3>1. Working(q) /\ Here(q)' = Here(q) /\ Here(q) \notin contested
      BY <2>1, <2>2, <2>4
    <3>2. Here(q) # Here(p)
      <4>1. Others(p, Here(p)) = {} \/ Here(q) # Here(p)
        BY <2>1, <3>1
      <4>2. QED BY <2>4, <3>1, <4>1 DEF Others
    <3>3. /\ region[Here(q)] = "completed" <=> proc[q].pc = "finished"
          /\ Here(q) \in Regions
      BY <1>0, <3>1, HereInPlan DEF Alone, Stands
    <3>4. region'[Here(q)'] = "completed" <=> proc'[q].pc = "finished"
      BY <1>0, <2>1, <2>4, <3>1, <3>2, <3>3
    <3>5. QED BY <2>1, <2>2, <3>1, <3>2, <3>4 DEF Alone
  <2>5. QED BY <2>3, <2>4
<1>3. ASSUME NEW p \in Procs, Start(p) \/ Step(p) \/ Interrupt(p) \/ Crash(p),
             ~StartRegion(p)
      PROVE  /\ region'[Here(q)'] = "completed" <=> proc'[q].pc = "finished"
             /\ \A o \in Procs \ {q} : Working(o)' => Here(o)' # Here(q)'
  <2>1. /\ UNCHANGED contested
        /\ \A o \in Procs : Working(o)' => Working(o) /\ Here(o)' = Here(o)
        /\ \A o \in Procs \ {p} : proc'[o] = proc[o]
        /\ MovesRegion(p)
    BY <1>3, RegionSteps
  <2>2. /\ Working(q) /\ Here(q)' = Here(q) /\ Here(q) \notin contested
        /\ Here(q) \in Regions
    BY <1>0, <2>1, HereInPlan DEF Stands
  <2>3. /\ region[Here(q)] = "completed" <=> proc[q].pc = "finished"
        /\ \A o \in Procs \ {q} : Working(o) => Here(o) # Here(q)
    BY <2>2 DEF Alone
  <2>4. region'[Here(q)] = "completed" <=> proc'[q].pc = "finished"
    <3>1. CASE q = p
      BY <1>0, <2>1, <2>2, <2>3, <3>1 DEF MovesRegion, Working
    <3>2. CASE q # p
      <4>1. Working(p) => Here(p) \in Regions /\ Here(p) # Here(q)
        BY <1>0, <2>3, <3>2, HereInPlan DEF Stands
      <4>2. region'[Here(q)] = region[Here(q)] /\ proc'[q] = proc[q]
        BY <1>0, <2>1, <2>2, <3>2, <4>1 DEF MovesRegion
      <4>3. QED BY <2>3, <4>2
    <3>3. QED BY <3>1, <3>2
  <2>5. QED BY <2>1, <2>2, <2>3, <2>4
<1>4. QED BY <1>1, <1>2, <1>3 DEF Next

(* A completed region is not put to the model again and stays completed, but for
   regions that two processes were at together, and one whose process is
   interrupted between its completion and the end of the try:
   start_detection_region and finish_detection_region of store/db.py, as
   run_ensemble calls them. *)
THEOREM RegionsPaidOnce == Spec => PaidRegionOnce
<1>1. ASSUME Steady, Alone, [Next]_vars, NEW r \in Regions \ contested,
             region[r] = "completed"
      PROVE  /\ region'[r] = "completed" \/ Undone(r)
             /\ \A q \in Procs : Working(q)' /\ ~Working(q) => Here(q)' # r
  <2>0. region \in [Regions -> {"none", "running", "completed", "failed"}]
    BY <1>1, SteadyTypes
  <2>1. CASE UNCHANGED vars
    BY <1>1, <2>1 DEF Working, Here, vars, detectVars
  <2>2. ASSUME NEW p \in Procs, StartRegion(p)
        PROVE  /\ region'[r] = "completed" \/ Undone(r)
               /\ \A q \in Procs : Working(q)' /\ ~Working(q) => Here(q)' # r
    <3>1. /\ Here(p) \in Regions /\ Here(p)' = Here(p)
          /\ region[Here(p)] # "completed"
          /\ region' = [region EXCEPT ![Here(p)] = "running"]
          /\ \A o \in Procs \ {p} : proc'[o] = proc[o]
      BY <1>1, <2>2, Started
    <3>2. region'[r] = "completed"
      BY <1>1, <2>0, <3>1
    <3>3. QED BY <1>1, <3>1, <3>2 DEF Working
  <2>3. ASSUME NEW p \in Procs, Start(p) \/ Step(p) \/ Interrupt(p) \/ Crash(p),
               ~StartRegion(p)
        PROVE  /\ region'[r] = "completed" \/ Undone(r)
               /\ \A q \in Procs : Working(q)' /\ ~Working(q) => Here(q)' # r
    <3>1. (\A o \in Procs : Working(o)' => Working(o)) /\ MovesRegion(p)
      BY <1>1, <2>3, RegionSteps
    <3>2. Working(p) /\ Here(p) = r => proc[p].pc = "finished"
      BY <1>1 DEF Alone
    <3>3. region'[r] = "completed" \/ Undone(r)
      BY <1>1, <2>0, <3>1, <3>2 DEF MovesRegion, Undone
    <3>4. QED BY <3>1, <3>3
  <2>4. QED BY <1>1, <2>1, <2>2, <2>3 DEF Next
<1>2. Steady /\ Alone /\ [Next]_vars =>
          [\A r \in Regions \ contested : region[r] = "completed" =>
              /\ region'[r] = "completed" \/ Undone(r)
              /\ \A p \in Procs : Working(p)' /\ ~Working(p) => Here(p)' # r]_vars
  BY <1>1
<1>3. Init => Alone
  BY DEF Init, Alone, Stopped, Working
<1>4. QED
  BY <1>2, <1>3, SteadyInit, SteadyStep, AloneStep, PTL DEF Spec, PaidRegionOnce

-----------------------------------------------------------------------------
(* Budget *)

(* One process at a time moves its call; it begins one, takes a step of it,
   takes up its end, or leaves it, and what it leaves unrecorded is lost. *)
LEMMA CallMoves ==
    ASSUME Steady, [Next]_vars
    PROVE  \/ UNCHANGED <<usage, spent, lost, call>>
           \/ \E p \in Procs :
                /\ \A q \in Procs \ {p} : call'[q] = call[q]
                /\ \/ /\ UNCHANGED <<usage, spent, lost>>
                      /\ call[p].pc \notin {"ask", "record"}
                      /\ call'[p].pc \notin {"ask", "record"}
                   \/ CallStep(p) /\ UNCHANGED lost
                   \/ /\ UNCHANGED <<usage, spent>>
                      /\ call'[p].pc = "none"
                      /\ lost' = lost + Unrecorded(p)
<1>1. call \in [Procs -> CallType] /\ \A p \in Procs : Stands(p)
  BY SteadyTypes
<1>2. CASE UNCHANGED vars
  BY <1>2 DEF vars, detectVars, callVars
<1>3. ASSUME NEW p \in Procs, EndCall(p)
      PROVE  /\ UNCHANGED <<usage, spent>> /\ call'[p].pc = "none"
             /\ \A q \in Procs \ {p} : call'[q] = call[q]
  BY <1>1, <1>3, EndCallTyped
<1>4. ASSUME NEW p \in Procs, BeginCall(p)
      PROVE  call'[p].pc = "check" /\ \A q \in Procs \ {p} : call'[q] = call[q]
  BY <1>1, <1>4, BeginCallTyped
<1>5. ASSUME NEW p \in Procs,
             Start(p) \/ SkipRegion(p) \/ Persist(p) \/ Finish(p) \/ Leave(p) \/ Return(p)
      PROVE  UNCHANGED <<usage, spent, lost, call>>
  BY <1>5 DEF Start, SkipRegion, Persist, Finish, Leave, Return, callVars
<1>6. ASSUME NEW p \in Procs, StartRegion(p)
      PROVE  /\ UNCHANGED <<usage, spent, lost>> /\ call[p].pc = "none"
             /\ call'[p].pc = "check" /\ \A q \in Procs \ {p} : call'[q] = call[q]
  BY <1>1, <1>4, <1>6 DEF StartRegion, Stands
<1>7. ASSUME NEW p \in Procs, Calling(p)
      PROVE  /\ CallStep(p) /\ UNCHANGED lost
             /\ \A q \in Procs \ {p} : call'[q] = call[q]
  BY <1>7, CallStepTyped DEF Calling
<1>8. ASSUME NEW p \in Procs, Answer(p) \/ Rescore(p)
      PROVE  /\ UNCHANGED <<usage, spent, lost>> /\ call[p].pc = "returned"
             /\ call'[p].pc = "none" /\ \A q \in Procs \ {p} : call'[q] = call[q]
  BY <1>3, <1>8 DEF Answer, Rescore
<1>9. ASSUME NEW p \in Procs, NEW c \in Candidates, Anchor(p, c)
      PROVE  \/ UNCHANGED <<usage, spent, lost, call>>
             \/ /\ UNCHANGED <<usage, spent, lost>> /\ call[p].pc = "none"
                /\ call'[p].pc = "check" /\ \A q \in Procs \ {p} : call'[q] = call[q]
  BY <1>1, <1>4, <1>9 DEF Anchor, Stands
<1>10. ASSUME NEW p \in Procs, Fail(p)
       PROVE  /\ UNCHANGED <<usage, spent, lost>> /\ call[p].pc = "raised"
              /\ call'[p].pc = "none" /\ \A q \in Procs \ {p} : call'[q] = call[q]
  BY <1>3, <1>10 DEF Fail, FailRegion
<1>11. ASSUME NEW p \in Procs, Interrupt(p) \/ Crash(p)
       PROVE  /\ UNCHANGED <<usage, spent>> /\ lost' = lost + Unrecorded(p)
              /\ call'[p].pc = "none" /\ \A q \in Procs \ {p} : call'[q] = call[q]
  BY <1>3, <1>11 DEF Interrupt, Crash, FailRegion
<1>12. ASSUME NEW p \in Procs, Start(p) \/ Step(p) \/ Interrupt(p) \/ Crash(p)
       PROVE  \/ UNCHANGED <<usage, spent, lost, call>>
              \/ /\ \A q \in Procs \ {p} : call'[q] = call[q]
                 /\ \/ /\ UNCHANGED <<usage, spent, lost>>
                       /\ call[p].pc \notin {"ask", "record"}
                       /\ call'[p].pc \notin {"ask", "record"}
                    \/ CallStep(p) /\ UNCHANGED lost
                    \/ /\ UNCHANGED <<usage, spent>>
                       /\ call'[p].pc = "none"
                       /\ lost' = lost + Unrecorded(p)
  BY <1>5, <1>6, <1>7, <1>8, <1>9, <1>10, <1>11, <1>12 DEF Step
<1>13. QED BY <1>2, <1>12 DEF Next

LEMMA CountMoves ==
    ASSUME NEW p \in Procs, \A q \in Procs \ {p} : call'[q] = call[q]
    PROVE  /\ Recording' = IF call'[p].pc = "record" THEN Recording \cup {p}
                                                     ELSE Recording \ {p}
           /\ InFlight' = IF call'[p].pc \in {"ask", "record"} THEN InFlight \cup {p}
                                                               ELSE InFlight \ {p}
BY DEF Recording, InFlight

LEMMA Counts ==
    /\ IsFiniteSet(Recording) /\ Cardinality(Recording) \in Nat
    /\ IsFiniteSet(InFlight) /\ Cardinality(InFlight) \in Nat
    /\ Cardinality(InFlight) <= Cardinality(Procs)
    /\ Cardinality(Procs) \in Nat
<1>1. Recording \subseteq Procs /\ InFlight \subseteq Procs
  BY DEF Recording, InFlight
<1>2. QED BY <1>1, CallsAssumption, FS_Subset, FS_CardinalityType

(* The room that the calls in flight and the recorded ones take of a ceiling. *)
LEMMA Room ==
    ASSUME NEW k \in Nat, NEW n \in Nat, NEW t \in Nat, NEW u \in Nat, NEW m \in Nat,
           t <= m
    PROVE  /\ k <= n => k * m <= n * m
           /\ u + t + (k - 1) * m <= u + k * m
           /\ (k - 1) * m <= k * m
<1>1. (k - 1) * m = k * m - m
  OBVIOUS
<1>2. ASSUME k <= n PROVE k * m <= n * m
  <2>1. PICK d \in Nat : n = k + d
    <3>1. n - k \in Nat /\ n = k + (n - k)
      BY <1>2
    <3>2. QED BY <3>1
  <2>2. n * m = k * m + d * m
    BY <2>1
  <2>3. d * m \in Nat /\ k * m \in Nat
    BY <2>1
  <2>4. QED BY <2>2, <2>3
<1>3. k * m \in Nat
  OBVIOUS
<1>4. QED BY <1>1, <1>2, <1>3

LEMMA KeptCeilings == Steady /\ CeilingsKept(lost) /\ [Next]_vars => CeilingsKept(lost)'
<1> SUFFICES ASSUME Steady, CeilingsKept(lost), [Next]_vars
             PROVE  CeilingsKept(lost)'
  OBVIOUS
<1>1. /\ usage.calls \in Nat /\ usage.tokens \in Nat
      /\ spent \in Nat /\ lost \in Nat
      /\ call \in [Procs -> CallType]
      /\ MaxCalls \in Nat /\ MaxTokens \in Nat
      /\ Charges \subseteq Nat
  BY SteadyTypes, CallsAssumption
<1>2. PICK k, m, n : /\ k = Cardinality(Recording) /\ m = Cardinality(InFlight)
                     /\ n = Cardinality(Procs)
  OBVIOUS
<1>3. k \in Nat /\ m \in Nat /\ n \in Nat /\ m <= n
  BY <1>2, Counts
<1>4. PICK k1, m1 : k1 = Cardinality(Recording') /\ m1 = Cardinality(InFlight')
  OBVIOUS
<1>5. /\ spent = usage.calls + lost + k
      /\ MaxCalls # 0 => usage.calls + m <= MaxCalls + n - 1
      /\ MaxTokens # 0 => \A most \in Charges : (\A t \in Charges : t <= most) =>
                                usage.tokens + m * most < MaxTokens + n * most
  BY <1>2 DEF CeilingsKept
<1>6. SUFFICES /\ spent' = usage'.calls + lost' + k1
               /\ MaxCalls # 0 => usage'.calls + m1 <= MaxCalls + n - 1
               /\ MaxTokens # 0 =>
                    \A most \in Charges : (\A t \in Charges : t <= most) =>
                        usage'.tokens + m1 * most < MaxTokens + n * most
  BY <1>2, <1>4 DEF CeilingsKept
<1>7. CASE UNCHANGED <<usage, spent, lost, call>>
  <2>1. k1 = k /\ m1 = m
    BY <1>2, <1>4, <1>7 DEF Recording, InFlight
  <2>2. QED BY <1>5, <1>7, <2>1
<1>8. ASSUME NEW p \in Procs, \A q \in Procs \ {p} : call'[q] = call[q]
      PROVE  /\ k1 = IF call'[p].pc = "record"
                     THEN IF p \in Recording THEN k ELSE k + 1
                     ELSE IF p \in Recording THEN k - 1 ELSE k
             /\ m1 = IF call'[p].pc \in {"ask", "record"}
                     THEN IF p \in InFlight THEN m ELSE m + 1
                     ELSE IF p \in InFlight THEN m - 1 ELSE m
             /\ k1 \in Nat /\ m1 \in Nat /\ m1 <= n
  <2>1. /\ Recording' = IF call'[p].pc = "record" THEN Recording \cup {p} ELSE Recording \ {p}
        /\ InFlight' = IF call'[p].pc \in {"ask", "record"} THEN InFlight \cup {p}
                                                            ELSE InFlight \ {p}
    BY <1>8, CountMoves
  <2>2. /\ Cardinality(Recording \cup {p}) = IF p \in Recording THEN k ELSE k + 1
        /\ Cardinality(Recording \ {p}) = IF p \in Recording THEN k - 1 ELSE k
    BY <1>2, Counts, FS_AddElement, FS_RemoveElement
  <2>3. /\ Cardinality(InFlight \cup {p}) = IF p \in InFlight THEN m ELSE m + 1
        /\ Cardinality(InFlight \ {p}) = IF p \in InFlight THEN m - 1 ELSE m
    BY <1>2, Counts, FS_AddElement, FS_RemoveElement
  <2>4. k1 \in Nat /\ m1 \in Nat /\ m1 <= n
    <3>1. Recording' \subseteq Procs /\ InFlight' \subseteq Procs
      BY DEF Recording, InFlight
    <3>2. QED BY <1>2, <1>4, <3>1, CallsAssumption, FS_Subset, FS_CardinalityType
  <2>5. QED BY <1>4, <2>1, <2>2, <2>3, <2>4
<1>9. ASSUME NEW p \in Procs
      PROVE  /\ p \in Recording <=> call[p].pc = "record"
             /\ p \in InFlight <=> call[p].pc \in {"ask", "record"}
  BY DEF Recording, InFlight
<1>10. ASSUME NEW p \in Procs, \A q \in Procs \ {p} : call'[q] = call[q],
              UNCHANGED <<usage, spent, lost>>,
              call[p].pc \notin {"ask", "record"}, call'[p].pc \notin {"ask", "record"}
       PROVE  k1 = k /\ m1 = m
  BY <1>8, <1>9, <1>10
<1>11. ASSUME NEW p \in Procs, \A q \in Procs \ {p} : call'[q] = call[q],
              UNCHANGED <<usage, spent>>, call'[p].pc = "none",
              lost' = lost + Unrecorded(p)
       PROVE  /\ spent' = usage'.calls + lost' + k1
              /\ m1 \in {m, m - 1}
  <2>1. CASE call[p].pc = "record"
    <3>1. k1 = k - 1 /\ m1 = m - 1 /\ Unrecorded(p) = 1
      BY <1>8, <1>9, <1>11, <2>1 DEF Unrecorded
    <3>2. QED BY <1>1, <1>3, <1>5, <1>11, <3>1
  <2>2. CASE call[p].pc # "record"
    <3>1. k1 = k /\ m1 \in {m, m - 1} /\ Unrecorded(p) = 0
      BY <1>8, <1>9, <1>11, <2>2 DEF Unrecorded
    <3>2. QED BY <1>1, <1>3, <1>5, <1>11, <3>1
  <2>3. QED BY <2>1, <2>2
<1>12. ASSUME NEW p \in Procs, \A q \in Procs \ {p} : call'[q] = call[q],
              CheckBudget(p), UNCHANGED lost
       PROVE  /\ UNCHANGED <<usage, spent, lost>> /\ k1 = k
              /\ \/ m1 = m
                 \/ m1 <= n /\ m1 \in Nat /\ ~Exhausted
  <2>1. /\ call'[p].pc = IF Exhausted THEN "raised" ELSE "ask"
        /\ call[p].pc = "check" /\ UNCHANGED <<usage, spent, lost>>
    BY <1>1, <1>12 DEF CheckBudget, CallType
  <2>2. QED BY <1>8, <1>9, <1>12, <2>1
<1>13. ASSUME NEW p \in Procs, \A q \in Procs \ {p} : call'[q] = call[q],
              Ask(p), UNCHANGED lost
       PROVE  UNCHANGED <<usage, lost>> /\ spent' = spent + 1 /\ k1 = k + 1 /\ m1 = m
  <2>1. call[p].pc = "ask" /\ call'[p].pc = "record"
    <3>1. PICK reply \in Replies, tokens \in Charges :
              call' = [call EXCEPT ![p].pc = "record", ![p].answer = reply,
                                   ![p].tokens = tokens, ![p].left = @ - 1]
      BY <1>13 DEF Ask
    <3>2. QED BY <1>1, <1>13, <3>1 DEF Ask, CallType
  <2>2. QED BY <1>8, <1>9, <1>13, <2>1 DEF Ask
<1>14. ASSUME NEW p \in Procs, \A q \in Procs \ {p} : call'[q] = call[q],
              Record(p), UNCHANGED lost
       PROVE  /\ UNCHANGED <<spent, lost>> /\ k1 = k - 1 /\ m1 = m - 1
              /\ usage'.calls = usage.calls + 1
              /\ usage'.tokens = usage.tokens + call[p].tokens
  <2>1. call[p].pc = "record" /\ call'[p].pc \in {"returned", "raised", "check"}
    <3>1. PICK pc \in {"returned", "raised", "check"} : call' = [call EXCEPT ![p].pc = pc]
      BY <1>14 DEF Record
    <3>2. QED BY <1>1, <1>14, <3>1 DEF Record, CallType
  <2>2. k1 = k - 1 /\ m1 = m - 1
    BY <1>8, <1>9, <1>14, <2>1
  <2>3. QED BY <1>14, <2>2 DEF Record, WithCall
<1>15. ASSUME m1 \in {m, m - 1}, m1 \in Nat, UNCHANGED usage
       PROVE  /\ MaxCalls # 0 => usage'.calls + m1 <= MaxCalls + n - 1
              /\ MaxTokens # 0 =>
                    \A most \in Charges : (\A t \in Charges : t <= most) =>
                        usage'.tokens + m1 * most < MaxTokens + n * most
  <2>1. MaxCalls # 0 => usage'.calls + m1 <= MaxCalls + n - 1
    BY <1>1, <1>3, <1>5, <1>15
  <2>2. ASSUME MaxTokens # 0, NEW most \in Charges, \A t \in Charges : t <= most
        PROVE  usage'.tokens + m1 * most < MaxTokens + n * most
    <3>1. most \in Nat /\ usage.tokens + m * most < MaxTokens + n * most
      BY <1>1, <1>5, <2>2
    <3>2. m1 * most <= m * most /\ m1 * most \in Nat /\ m * most \in Nat /\ n * most \in Nat
      BY <1>3, <1>15, <3>1, Room
    <3>3. PICK a, b, c \in Nat : a = m1 * most /\ b = m * most /\ c = n * most
      BY <3>2
    <3>4. QED BY <1>1, <1>15, <3>1, <3>2, <3>3
  <2>3. QED BY <2>1, <2>2
<1>16. ASSUME m1 \in Nat, m1 <= n, UNCHANGED usage, ~Exhausted
       PROVE  /\ MaxCalls # 0 => usage'.calls + m1 <= MaxCalls + n - 1
              /\ MaxTokens # 0 =>
                    \A most \in Charges : (\A t \in Charges : t <= most) =>
                        usage'.tokens + m1 * most < MaxTokens + n * most
  <2>1. MaxCalls # 0 => usage'.calls + m1 <= MaxCalls + n - 1
    BY <1>1, <1>3, <1>16 DEF Exhausted
  <2>2. ASSUME MaxTokens # 0, NEW most \in Charges
        PROVE  usage'.tokens + m1 * most < MaxTokens + n * most
    <3>1. most \in Nat /\ usage.tokens < MaxTokens
      BY <1>1, <1>16, <2>2 DEF Exhausted
    <3>2. m1 * most <= n * most /\ m1 * most \in Nat /\ n * most \in Nat
      BY <1>3, <1>16, <3>1, Room
    <3>3. PICK a, c \in Nat : a = m1 * most /\ c = n * most
      BY <3>2
    <3>4. QED BY <1>1, <1>16, <3>1, <3>2, <3>3
  <2>3. QED BY <2>1, <2>2
<1>17. ASSUME NEW p \in Procs, \A q \in Procs \ {p} : call'[q] = call[q],
              Record(p), UNCHANGED lost
       PROVE  /\ MaxCalls # 0 => usage'.calls + m1 <= MaxCalls + n - 1
              /\ MaxTokens # 0 =>
                    \A most \in Charges : (\A t \in Charges : t <= most) =>
                        usage'.tokens + m1 * most < MaxTokens + n * most
  <2>1. /\ m1 = m - 1
        /\ usage'.calls = usage.calls + 1
        /\ usage'.tokens = usage.tokens + call[p].tokens
    BY <1>14, <1>17
  <2>2. MaxCalls # 0 => usage'.calls + m1 <= MaxCalls + n - 1
    BY <1>1, <1>3, <1>5, <2>1
  <2>3. ASSUME MaxTokens # 0, NEW most \in Charges, \A t \in Charges : t <= most
        PROVE  usage'.tokens + m1 * most < MaxTokens + n * most
    <3>1. most \in Nat /\ usage.tokens + m * most < MaxTokens + n * most
      BY <1>1, <1>5, <2>3
    <3>2. PICK t \in Nat : t = call[p].tokens /\ t <= most
      <4>1. call[p].tokens \in Charges \cup {0}
        BY <1>1 DEF CallType
      <4>2. CASE call[p].tokens = 0
        BY <3>1, <4>2
      <4>3. CASE call[p].tokens \in Charges
        BY <1>1, <2>3, <4>3
      <4>4. QED BY <4>1, <4>2, <4>3
    <3>3. usage.tokens + t + (m - 1) * most <= usage.tokens + m * most
      BY <1>1, <1>3, <3>1, <3>2, Room
    <3>4. PICK a, b, c \in Int : a = (m - 1) * most /\ b = m * most /\ c = n * most
      BY <1>3, <3>1
    <3>5. QED BY <1>1, <2>1, <3>1, <3>2, <3>3, <3>4
  <2>4. QED BY <2>2, <2>3
<1>18. ASSUME NEW p \in Procs, \A q \in Procs \ {p} : call'[q] = call[q],
              CallStep(p), UNCHANGED lost
       PROVE  /\ spent' = usage'.calls + lost' + k1
              /\ MaxCalls # 0 => usage'.calls + m1 <= MaxCalls + n - 1
              /\ MaxTokens # 0 =>
                    \A most \in Charges : (\A t \in Charges : t <= most) =>
                        usage'.tokens + m1 * most < MaxTokens + n * most
  <2>1. spent' = usage'.calls + lost' + k1
    BY <1>1, <1>3, <1>5, <1>12, <1>13, <1>14, <1>18 DEF CallStep
  <2>2. CASE CheckBudget(p)
    BY <1>3, <1>12, <1>15, <1>16, <1>18, <2>1, <2>2
  <2>3. CASE Ask(p)
    BY <1>3, <1>13, <1>15, <1>18, <2>1, <2>3
  <2>4. CASE Record(p)
    BY <1>17, <1>18, <2>1, <2>4
  <2>5. QED BY <1>18, <2>2, <2>3, <2>4 DEF CallStep
<1>19. ASSUME NEW p \in Procs, \A q \in Procs \ {p} : call'[q] = call[q],
              UNCHANGED <<usage, spent, lost>>,
              call[p].pc \notin {"ask", "record"}, call'[p].pc \notin {"ask", "record"}
       PROVE  /\ spent' = usage'.calls + lost' + k1
              /\ MaxCalls # 0 => usage'.calls + m1 <= MaxCalls + n - 1
              /\ MaxTokens # 0 =>
                    \A most \in Charges : (\A t \in Charges : t <= most) =>
                        usage'.tokens + m1 * most < MaxTokens + n * most
  <2>1. k1 = k /\ m1 = m
    BY <1>10, <1>19
  <2>2. QED BY <1>5, <1>19, <2>1
<1>20. ASSUME NEW p \in Procs, \A q \in Procs \ {p} : call'[q] = call[q],
              UNCHANGED <<usage, spent>>, call'[p].pc = "none",
              lost' = lost + Unrecorded(p)
       PROVE  /\ spent' = usage'.calls + lost' + k1
              /\ MaxCalls # 0 => usage'.calls + m1 <= MaxCalls + n - 1
              /\ MaxTokens # 0 =>
                    \A most \in Charges : (\A t \in Charges : t <= most) =>
                        usage'.tokens + m1 * most < MaxTokens + n * most
  <2>1. m1 \in {m, m - 1} /\ m1 \in Nat
    BY <1>8, <1>11, <1>20
  <2>2. QED BY <1>11, <1>15, <1>20, <2>1
<1>21. QED BY <1>7, <1>18, <1>19, <1>20, CallMoves

(* The ceilings of the pipeline run hold, up to a call of every process but one
   and up to what a process that died had not recorded: _check_pipeline_budget
   and _record_usage of llm/client.py, through retries, failures and restarts. *)
THEOREM CeilingsAreKept == Spec => []Budget
<1>1. Init => CeilingsKept(lost)
  <2> SUFFICES ASSUME Init PROVE CeilingsKept(lost)
    OBVIOUS
  <2>1. Recording = {} /\ InFlight = {}
    BY DEF Init, CallsInit, NoCall, Recording, InFlight
  <2>2. Cardinality(Recording) = 0 /\ Cardinality(InFlight) = 0
    BY <2>1, FS_EmptySet
  <2>3. Cardinality(Procs) \in Nat /\ MaxCalls \in Nat /\ MaxTokens \in Nat
    BY Counts, CallsAssumption
  <2>4. ASSUME NEW most \in Charges
        PROVE  0 * most = 0 /\ Cardinality(Procs) * most \in Nat
    BY <2>3, CallsAssumption
  <2>5. QED BY <2>2, <2>3, <2>4 DEF CeilingsKept, Init, CallsInit
<1>2. Steady /\ CeilingsKept(lost) => Budget
  <2> SUFFICES ASSUME Steady, CeilingsKept(lost) PROVE CeilingsHold(lost)
    BY DEF Budget
  <2>1. /\ usage.calls \in Nat /\ usage.tokens \in Nat
        /\ spent \in Nat /\ lost \in Nat
        /\ MaxCalls \in Nat /\ MaxTokens \in Nat /\ Charges \subseteq Nat
    BY SteadyTypes, CallsAssumption
  <2>2. /\ Cardinality(Recording) \in Nat /\ Cardinality(InFlight) \in Nat
        /\ Cardinality(Procs) \in Nat
        /\ Cardinality(Recording) <= Cardinality(InFlight)
    <3>1. Recording \subseteq InFlight
      BY DEF Recording, InFlight
    <3>2. QED BY <3>1, Counts, FS_Subset
  <2>3. MaxCalls # 0 => spent - lost <= MaxCalls + Cardinality(Procs) - 1
    BY <2>1, <2>2 DEF CeilingsKept
  <2>4. ASSUME MaxTokens # 0, NEW most \in Charges, \A t \in Charges : t <= most
        PROVE  usage.tokens < MaxTokens + Cardinality(Procs) * most
    <3>1. usage.tokens + Cardinality(InFlight) * most
            < MaxTokens + Cardinality(Procs) * most
      BY <2>4 DEF CeilingsKept
    <3>2. PICK a, c \in Nat : a = Cardinality(InFlight) * most /\ c = Cardinality(Procs) * most
      BY <2>1, <2>2
    <3>3. QED BY <2>1, <3>1, <3>2
  <2>5. QED BY <2>3, <2>4 DEF CeilingsHold
<1>3. QED
  BY <1>1, <1>2, SteadyInit, SteadyStep, KeptCeilings, PTL DEF Spec
-----------------------------------------------------------------------------
(* Scanners: what each adapter leaves, whatever its programs do. *)

(* The six adapters and the seven scanners, one by one. *)
LEMMA TheAdapters ==
    /\ Len(Adapters) = 6 /\ DOMAIN Adapters = 1 .. 6
    /\ Adapters[1] = "semgrep" /\ Adapters[2] = "semgrep-supplemental"
    /\ Adapters[3] = "sca" /\ Adapters[4] = "gitleaks"
    /\ Adapters[5] = "weak_rng" /\ Adapters[6] = "weak_rng_py"
<1> DEFINE first == <<"semgrep", "semgrep-supplemental", "sca", "gitleaks", "weak_rng">>
           last  == <<"weak_rng_py">>
           ids   == {"semgrep", "semgrep-supplemental", "sca", "gitleaks", "weak_rng",
                     "weak_rng_py"}
<1>1. /\ first \in Seq(ids) /\ Len(first) = 5
      /\ first[1] = "semgrep" /\ first[2] = "semgrep-supplemental"
      /\ first[3] = "sca" /\ first[4] = "gitleaks" /\ first[5] = "weak_rng"
  OBVIOUS
<1>2. last \in Seq(ids) /\ Len(last) = 1 /\ last[1] = "weak_rng_py"
  OBVIOUS
<1>3. Adapters = first \o last
  BY DEF Adapters, Plugins
<1> HIDE DEF first, last, ids
<1>4. /\ Adapters \in Seq(ids) /\ Len(Adapters) = 6
      /\ \A i \in 1 .. 5 : Adapters[i] = first[i]
      /\ Adapters[6] = last[1]
  <2>1. /\ first \o last \in Seq(ids) /\ Len(first \o last) = Len(first) + Len(last)
        /\ \A i \in 1 .. Len(first) + Len(last) :
            (first \o last)[i] = IF i <= Len(first) THEN first[i] ELSE last[i - Len(first)]
    BY <1>1, <1>2, ConcatProperties
  <2>2. QED BY <1>1, <1>2, <1>3, <2>1
<1>5. QED BY <1>1, <1>2, <1>4

(* The seven scanners of the six adapters. *)
LEMMA TheScanners ==
    Scanners = {"semgrep", "pip-audit", "osv-scanner", "gitleaks", "semgrep-supplemental",
                "weak_rng", "weak_rng_py"}
<1>1. ToSet(Plugins) = {"weak_rng_py"}
  BY DEF ToSet, Plugins
<1>2. QED BY <1>1 DEF Scanners, Binaries

(* Every scanner is run by one of the adapters. *)
LEMMA ScannerHasAdapter ==
    /\ \A i \in 1 .. 6 : ScannersOf(Adapters[i]) \subseteq Scanners
    /\ \A x \in Scanners : \E i \in 1 .. 6 : x \in ScannersOf(Adapters[i])
    /\ \A i, j \in 1 .. 6 : \A x \in ScannersOf(Adapters[i]) \cap ScannersOf(Adapters[j]) : i = j
<1>1. \A i \in 1 .. 6 : i = 1 \/ i = 2 \/ i = 3 \/ i = 4 \/ i = 5 \/ i = 6
  OBVIOUS
<1>2. QED BY <1>1, TheAdapters, TheScanners DEF ScannersOf

(* What an overlay holds: the first function where it is defined. *)
LEMMA OverFields ==
    ASSUME NEW f, NEW g
    PROVE  /\ DOMAIN Over(f, g) = DOMAIN f \cup DOMAIN g
           /\ \A x \in DOMAIN f : Over(f, g)[x] = f[x]
           /\ \A x \in DOMAIN g \ DOMAIN f : Over(f, g)[x] = g[x]
BY DEF Over

(* Candidates count as many as the files they are in. *)
LEMMA FoundCounts ==
    ASSUME NEW x, NEW what, NEW files, IsFiniteSet(files)
    PROVE  /\ IsFiniteSet(Found(x, what, files))
           /\ Cardinality(Found(x, what, files)) = Cardinality(files)
           /\ Cardinality(files) \in Nat
           /\ Cardinality(files) = 0 <=> files = {}
           /\ Found(x, what, files) = {} <=> files = {}
<1>1. [f \in files |-> <<x, what, f>>] \in Bijection(files, Found(x, what, files))
  BY DEF Bijection, Injection, Surjection, IsInjective, Found
<1>2. QED BY <1>1, FS_Bijection, FS_CardinalityType, FS_EmptySet DEF Found, ExistsBijection

(* A record that claims coverage is accepted if it counts what there is, of some
   target. *)
LEMMA CleanValidates ==
    ASSUME NEW found, IsFiniteSet(found), NEW n \in Nat, n >= 1
    PROVE  /\ Validates(Execution(Clean(found), TRUE, Cardinality(found), n))
           /\ Execution(Clean(found), TRUE, Cardinality(found), n) \in ExecutionType
<1>1. Cardinality(found) \in Nat /\ (Cardinality(found) = 0 <=> found = {})
  BY FS_CardinalityType, FS_EmptySet
<1>2. QED BY <1>1 DEF Validates, Execution, Clean, ExecutionType

(* One that does not claim it is accepted whatever it counts. *)
LEMMA OtherValidates ==
    ASSUME NEW status \in {"failed", "partial", "unavailable"}, NEW valid \in BOOLEAN,
           NEW c \in Nat, NEW n \in Nat
    PROVE  /\ Validates(Execution(status, valid, c, n))
           /\ Execution(status, valid, c, n) \in ExecutionType
           /\ Validates(Execution("not-applicable", valid, c, 0))
           /\ Execution("not-applicable", valid, c, 0) \in ExecutionType
BY DEF Validates, Execution, ExecutionType

ResultType(X) ==
    [records : [X -> ExecutionType], returned : [X -> SUBSET CandidateType],
     said : [X -> SUBSET CandidateType], raised : BOOLEAN]

(* A result of one scanner says what it has: if it claims coverage it counts what
   the program printed; if it is neither failed nor partial it keeps that, which
   OSV-Scanner need not; and if nothing was raised it counts what it returns. *)
Tells(x, r) ==
    /\ r \in ResultType({x})
    /\ r.records[x].status \in {"complete", "empty"} =>
            r.records[x].counted = Cardinality(r.said[x])
    /\ r.records[x].status \notin {"failed", "partial"} /\ x # "osv-scanner" =>
            r.said[x] = r.returned[x]
    /\ ~r.raised => r.records[x].counted = Cardinality(r.returned[x])
    /\ r.raised => r.records[x].status \in {"failed", "partial"}

(* A result of one scanner, put together from typed parts. *)
LEMMA OneTyped ==
    ASSUME NEW x, NEW e \in ExecutionType, NEW returned \in SUBSET CandidateType,
           NEW said \in SUBSET CandidateType, NEW raised \in BOOLEAN
    PROVE  One(x, e, returned, said, raised) \in ResultType({x})
BY DEF One, Result, ResultType

Leaves(x, r, e, returned, said, raised) ==
    /\ Tells(x, r) /\ r.records[x] = e /\ r.raised = raised
    /\ r.returned[x] = returned /\ r.said[x] = said

(* The three ways to leave a result. *)
LEMMA ToldTells ==
    ASSUME NEW x, NEW found \in SUBSET CandidateType, IsFiniteSet(found),
           NEW n \in Nat, n >= 1
    PROVE  Leaves(x, Told(x, found, n), Execution(Clean(found), TRUE, Cardinality(found), n),
                  found, found, FALSE)
<1> DEFINE e == Execution(Clean(found), TRUE, Cardinality(found), n)
           r == Told(x, found, n)
<1>1. e \in ExecutionType /\ e.counted = Cardinality(found)
  BY CleanValidates DEF Execution
<1> HIDE DEF e
<1>2. r = One(x, e, found, found, FALSE)
  BY DEF e, Told
<1>3. r.records[x] = e /\ r.raised = FALSE /\ r.returned[x] = found /\ r.said[x] = found
  BY <1>2 DEF One, Result
<1>4. r \in ResultType({x})
  BY <1>1, <1>2, OneTyped
<1> HIDE DEF r
<1>5. Tells(x, r)
  BY <1>1, <1>3, <1>4 DEF Tells
<1>6. Leaves(x, r, e, found, found, FALSE)
  BY <1>3, <1>5 DEF Leaves
<1>7. QED BY <1>6 DEF e, r

(* An adapter that gives up without a finding. *)
LEMMA PlainTells ==
    ASSUME NEW x, NEW status \in {"failed", "unavailable", "not-applicable", "empty"},
           NEW n \in Nat
    PROVE  Leaves(x, Plain(x, status, n), Execution(status, FALSE, 0, n), {}, {}, FALSE)
<1> DEFINE e == Execution(status, FALSE, 0, n)
           r == Plain(x, status, n)
<1>1. e \in ExecutionType /\ e.counted = 0
  BY DEF Execution, ExecutionType
<1>2. Cardinality({}) = 0
  BY FS_EmptySet
<1> HIDE DEF e
<1>3. r = One(x, e, {}, {}, FALSE)
  BY DEF e, Plain
<1>4. r.records[x] = e /\ r.raised = FALSE /\ r.returned[x] = {} /\ r.said[x] = {}
  BY <1>3 DEF One, Result
<1>5. r \in ResultType({x})
  BY <1>1, <1>3, OneTyped
<1> HIDE DEF r
<1>6. Tells(x, r)
  BY <1>1, <1>2, <1>4, <1>5 DEF Tells
<1>7. Leaves(x, r, e, {}, {}, FALSE)
  BY <1>4, <1>6 DEF Leaves
<1>8. QED BY <1>7 DEF e, r

(* An adapter that raises: what it found is not returned. *)
LEMMA LostTells ==
    ASSUME NEW x, NEW said \in SUBSET CandidateType,
           NEW valid \in BOOLEAN, NEW c \in Nat, NEW n \in Nat
    PROVE  Leaves(x, Lost(x, valid, c, n, said), Execution("failed", valid, c, n), {}, said,
                  TRUE)
<1> DEFINE e == Execution("failed", valid, c, n)
           r == Lost(x, valid, c, n, said)
<1>1. e \in ExecutionType /\ e.status = "failed"
  BY DEF Execution, ExecutionType
<1> HIDE DEF e
<1>2. r = One(x, e, {}, said, TRUE)
  BY DEF e, Lost
<1>3. r.records[x] = e /\ r.raised = TRUE /\ r.returned[x] = {} /\ r.said[x] = said
  BY <1>2 DEF One, Result
<1>4. r \in ResultType({x})
  BY <1>1, <1>2, OneTyped
<1> HIDE DEF r
<1>5. Tells(x, r)
  BY <1>1, <1>3, <1>4 DEF Tells
<1>6. Leaves(x, r, e, {}, said, TRUE)
  BY <1>3, <1>5 DEF Leaves
<1>7. QED BY <1>6 DEF e, r

-----------------------------------------------------------------------------
(* Semgrep, gitleaks and the two built-in detectors *)

(* What can be found in a snapshot. *)
LEMMA FilesOf ==
    ASSUME NEW s \in SnapshotType
    PROVE  /\ IsFiniteSet(s.sources) /\ s.sources \subseteq Sources
           /\ \A files : files \subseteq s.sources =>
                /\ IsFiniteSet(files) /\ Cardinality(files) \in Nat
                /\ files # {} => Cardinality(files) >= 1
<1>1. s.sources \subseteq Sources /\ IsFiniteSet(Sources)
  BY PlanningAssumption DEF SnapshotType
<1>2. IsFiniteSet(s.sources)
  BY <1>1, FS_Subset
<1>3. ASSUME NEW files, files \subseteq s.sources
      PROVE  /\ IsFiniteSet(files) /\ Cardinality(files) \in Nat
             /\ files # {} => Cardinality(files) >= 1
  <2>1. IsFiniteSet(files)
    BY <1>2, <1>3, FS_Subset
  <2>2. Cardinality(files) \in Nat /\ (Cardinality(files) = 0 <=> files = {})
    BY <2>1, FS_CardinalityType, FS_EmptySet
  <2>3. QED BY <2>1, <2>2
<1>4. QED BY <1>1, <1>2, <1>3

(* Flaws are reported as candidates. *)
LEMMA FlawsFound ==
    ASSUME NEW x \in Scanners, NEW files \in SUBSET Sources
    PROVE  Found(x, "flaw", files) \in SUBSET CandidateType
BY DEF Found, CandidateType

(* Flaws found in files of a snapshot are finitely many. *)
LEMMA FlawsFinite ==
    ASSUME NEW x, NEW s \in SnapshotType, NEW files, files \subseteq s.sources
    PROVE  /\ IsFiniteSet(Found(x, "flaw", files))
           /\ Cardinality(Found(x, "flaw", files)) \in Nat
BY FilesOf, FoundCounts

(* Semgrep, whatever its program does. *)
LEMMA SemgrepTells ==
    ASSUME NEW x \in {"semgrep", "semgrep-supplemental"},
           NEW s \in SnapshotType, s.flawed \subseteq s.sources,
           NEW way \in Defects("semgrep"), NEW intact \in BOOLEAN,
           NEW r, r = Semgrep(x, s, way, intact)
    PROVE  /\ Tells(x, r)
           /\ r.raised => /\ r.records[x].status = "failed"
                          /\ way = "unwritable" \/ (r.records[x].counted = 0 /\ r.returned[x] = {})
           /\ Validates(r.records[x]) \/ way = "silent"
           /\ Validates(r.records[x]) /\ r.records[x].status \in {"complete", "empty"} =>
                way \in {"blind", "cut", "works"}
           /\ way = "unwritable" => r.raised
<1> DEFINE scope == SemgrepScope(x, s)
           found == Found(x, "flaw", scope \cap s.flawed)
           n     == Cardinality(scope)
<1>1. /\ x \in Scanners /\ scope \subseteq s.sources /\ scope \subseteq Sources
      /\ n \in Nat /\ (scope # {} => n >= 1)
  BY FilesOf, TheScanners DEF SemgrepScope
<1>2. /\ found \in SUBSET CandidateType /\ {} \in SUBSET CandidateType
      /\ IsFiniteSet(found) /\ IsFiniteSet({}) /\ Cardinality(found) \in Nat
  BY <1>1, FilesOf, FlawsFound, FlawsFinite, FS_EmptySet
<1>3. way \in {"works", "absent", "blind", "dies", "refuses", "cut", "silent", "garbled",
               "odd", "unwritable"}
  BY DEF Defects, Troubles
<1> HIDE DEF scope, found, n
<1>4. ASSUME NEW status \in {"failed", "unavailable", "not-applicable"},
             r = Plain(x, status, 0)
      PROVE  /\ Tells(x, r) /\ ~r.raised /\ Validates(r.records[x])
             /\ r.records[x].status \notin {"complete", "empty"}
  <2>1. Leaves(x, r, Execution(status, FALSE, 0, 0), {}, {}, FALSE)
    BY <1>4, PlainTells
  <2>2. QED BY <2>1 DEF Leaves, Execution, Validates
<1>u. ASSUME way = "unwritable", NEW valid \in BOOLEAN, NEW c \in Nat, NEW k \in Nat,
             NEW said \in SUBSET CandidateType, r = Lost(x, valid, c, k, said)
      PROVE  /\ Tells(x, r) /\ r.raised /\ r.records[x].status = "failed"
             /\ Validates(r.records[x])
  <2>1. Leaves(x, r, Execution("failed", valid, c, k), {}, said, TRUE)
    BY <1>u, LostTells
  <2>2. QED BY <2>1 DEF Leaves, Execution, Validates
<1>5. ASSUME way \in {"blind", "cut", "works"}, scope # {},
             NEW f \in {{}, found}, r = Told(x, f, n)
      PROVE  Tells(x, r) /\ ~r.raised /\ Validates(r.records[x])
  <2>1. Leaves(x, r, Execution(Clean(f), TRUE, Cardinality(f), n), f, f, FALSE)
    BY <1>1, <1>2, <1>5, ToldTells
  <2>2. QED BY <1>1, <1>2, <1>5, <2>1, CleanValidates DEF Leaves
<1>6. CASE way = "absent" \/ ~intact
  <2>1. CASE way = "unwritable"
    <3>1. r = Lost(x, FALSE, 0, 0, {})
      BY <1>6, <2>1 DEF Semgrep
    <3>2. QED BY <1>2, <1>u, <2>1, <3>1
  <2>2. CASE way # "unwritable"
    <3>1. r = Plain(x, "unavailable", 0) \/ r = Plain(x, "failed", 0)
      BY <1>6, <2>2 DEF Semgrep
    <3>2. QED BY <1>4, <2>2, <3>1
  <2>3. QED BY <2>1, <2>2
<1>7. CASE way # "absent" /\ intact /\ scope = {} /\ (x = "semgrep-supplemental" \/ way # "silent")
  <2>1. CASE way = "unwritable"
    <3>1. r = Lost(x, FALSE, 0, 0, {})
      BY <1>7, <2>1 DEF Semgrep, scope
    <3>2. QED BY <1>2, <1>u, <2>1, <3>1
  <2>2. CASE way # "unwritable"
    <3>1. r = Plain(x, "not-applicable", 0) \/ r = Plain(x, "failed", 0)
      BY <1>7, <2>2 DEF Semgrep, scope
    <3>2. QED BY <1>4, <2>2, <3>1
  <2>3. QED BY <2>1, <2>2
<1>8. CASE way # "absent" /\ intact /\ (scope # {} \/ (x = "semgrep" /\ way = "silent"))
  <2>1. CASE way \in {"dies", "refuses", "garbled"}
    <3>1. r = Plain(x, "failed", 0)
      BY <1>8, <2>1 DEF Semgrep, scope
    <3>2. QED BY <1>4, <2>1, <3>1
  <2>2. CASE way = "silent"
    <3>1. r = Plain(x, "empty", 0)
      BY <1>8, <2>2 DEF Semgrep, scope
    <3>2. Leaves(x, r, Execution("empty", FALSE, 0, 0), {}, {}, FALSE)
      BY <3>1, PlainTells
    <3>3. QED BY <2>2, <3>2 DEF Leaves, Execution, Validates
  <2>3. CASE way = "odd"
    <3>1. r = Lost(x, FALSE, 0, n, found)
      BY <1>8, <2>3 DEF Semgrep, scope, found, n
    <3>2. Leaves(x, r, Execution("failed", FALSE, 0, n), {}, found, TRUE)
      BY <1>1, <1>2, <3>1, LostTells
    <3>3. QED BY <3>2 DEF Leaves, Execution, Validates
  <2>4. CASE way = "unwritable"
    <3>1. r = Lost(x, TRUE, Cardinality(found), n, found)
      BY <1>8, <2>4 DEF Semgrep, scope, found, n
    <3>2. QED BY <1>1, <1>2, <1>u, <2>4, <3>1
  <2>5. CASE way \in {"blind", "cut"}
    <3>1. r = Told(x, {}, n)
      BY <1>8, <2>5 DEF Semgrep, scope, n
    <3>2. QED BY <1>5, <1>8, <2>5, <3>1
  <2>6. CASE way = "works"
    <3>1. r = Told(x, found, n)
      BY <1>8, <2>6 DEF Semgrep, scope, found, n
    <3>2. QED BY <1>5, <1>8, <2>6, <3>1
  <2>7. QED BY <1>3, <1>8, <2>1, <2>2, <2>3, <2>4, <2>5, <2>6
<1>9. QED BY <1>3, <1>6, <1>7, <1>8

(* Gitleaks, whatever its program does. *)
LEMMA GitleaksTells ==
    ASSUME NEW s \in SnapshotType, s.flawed \subseteq s.sources,
           NEW way \in Defects("gitleaks"), NEW r, r = Gitleaks(s, way)
    PROVE  /\ Tells("gitleaks", r)
           /\ r.raised => r.records["gitleaks"].counted = 0 /\ r.returned["gitleaks"] = {}
           /\ Validates(r.records["gitleaks"])
           /\ r.records["gitleaks"].status \in {"complete", "empty"} => way \in {"blind", "works"}
<1> DEFINE x == "gitleaks"
           found == Found(x, "flaw", s.flawed)
<1>1. /\ x \in Scanners /\ s.flawed \subseteq Sources
      /\ found \in SUBSET CandidateType /\ {} \in SUBSET CandidateType
      /\ IsFiniteSet(found) /\ IsFiniteSet({})
  <2>1. x \in Scanners /\ s.flawed \subseteq Sources
    BY TheScanners DEF SnapshotType
  <2>2. QED BY <2>1, FlawsFound, FlawsFinite, FS_EmptySet
<1>2. way \in {"works", "absent", "blind", "dies", "refuses", "silent", "garbled", "odd"}
  BY DEF Defects, Troubles
<1> HIDE DEF found
<1>3. ASSUME NEW status \in {"failed", "unavailable"}, NEW n \in {0, 1}, r = Plain(x, status, n)
      PROVE  /\ Tells(x, r) /\ ~r.raised /\ Validates(r.records[x])
             /\ r.records[x].status \notin {"complete", "empty"}
  <2>1. Leaves(x, r, Execution(status, FALSE, 0, n), {}, {}, FALSE)
    BY <1>3, PlainTells
  <2>2. QED BY <2>1 DEF Leaves, Execution, Validates
<1>4. ASSUME NEW f \in {{}, found}, r = Told(x, f, 1)
      PROVE  Tells(x, r) /\ ~r.raised /\ Validates(r.records[x])
  <2> DEFINE n == 1
  <2>1. n \in Nat /\ n >= 1 /\ r = Told(x, f, n)
    BY <1>4
  <2> HIDE DEF n
  <2>2. f \in SUBSET CandidateType /\ IsFiniteSet(f)
    BY <1>1
  <2>3. Leaves(x, r, Execution(Clean(f), TRUE, Cardinality(f), n), f, f, FALSE)
    BY <2>1, <2>2, ToldTells
  <2>4. Validates(Execution(Clean(f), TRUE, Cardinality(f), n))
    BY <2>1, <2>2, CleanValidates
  <2>5. QED BY <2>3, <2>4 DEF Leaves
<1>5. CASE way = "absent"
  <2>1. r = Plain(x, "unavailable", 0)
    BY <1>5 DEF Gitleaks
  <2>2. QED BY <1>3, <2>1
<1>6. CASE way \in {"dies", "refuses", "silent", "garbled"}
  <2>1. r = Plain(x, "failed", 1)
    BY <1>6 DEF Gitleaks
  <2>2. QED BY <1>3, <2>1
<1>7. CASE way = "odd"
  <2>1. r = Lost(x, FALSE, 0, 1, found)
    BY <1>7 DEF Gitleaks, found
  <2>2. Leaves(x, r, Execution("failed", FALSE, 0, 1), {}, found, TRUE)
    BY <1>1, <2>1, LostTells
  <2>3. QED BY <2>2 DEF Leaves, Execution, Validates
<1>8. CASE way \in {"blind", "works"}
  <2>1. r = Told(x, {}, 1) \/ r = Told(x, found, 1)
    BY <1>8 DEF Gitleaks, found
  <2>2. QED BY <1>4, <1>8, <2>1
<1>9. QED BY <1>2, <1>5, <1>6, <1>7, <1>8

(* The built-in detectors, whatever happens to them. *)
LEMMA WeakRngTells ==
    ASSUME NEW x \in {"weak_rng", "weak_rng_py"},
           NEW s \in SnapshotType, s.flawed \subseteq s.sources,
           NEW way, NEW r, r = WeakRng(x, s, way)
    PROVE  /\ Tells(x, r)
           /\ r.raised => r.records[x].counted = 0 /\ r.returned[x] = {}
           /\ Validates(r.records[x])
           /\ r.records[x].status \in {"complete", "empty"} => way # "odd"
<1> DEFINE targets == WeakRngTargets(x, s)
           found == WeakRngFound(x, s)
           n == Cardinality(targets)
<1>1. /\ x \in Scanners /\ targets \subseteq s.sources
      /\ n \in Nat /\ (targets # {} => n >= 1)
  BY FilesOf, TheScanners DEF WeakRngTargets
<1>2. /\ found \in SUBSET CandidateType /\ {} \in SUBSET CandidateType /\ IsFiniteSet(found)
  <2> DEFINE files == (targets \cap s.flawed) \ TestSources
  <2>1. files \subseteq s.sources /\ files \in SUBSET Sources
    BY <1>1, FilesOf
  <2>2. found = Found(x, "flaw", files)
    BY DEF WeakRngFound
  <2> HIDE DEF files
  <2>3. QED BY <1>1, <2>1, <2>2, FlawsFound, FlawsFinite
<1> HIDE DEF targets, found, n
<1>3. CASE way = "odd" /\ (targets # {} \/ x = "weak_rng_py")
  <2>1. r = Lost(x, FALSE, 0, n, {})
    BY <1>3 DEF WeakRng, targets, n
  <2>2. Leaves(x, r, Execution("failed", FALSE, 0, n), {}, {}, TRUE)
    BY <1>1, <1>2, <2>1, LostTells
  <2>3. QED BY <2>2 DEF Leaves, Execution, Validates
<1>4. CASE ~(way = "odd" /\ (targets # {} \/ x = "weak_rng_py")) /\ targets = {}
  <2>1. r = Plain(x, "not-applicable", 0)
    BY <1>4 DEF WeakRng, targets
  <2>2. Leaves(x, r, Execution("not-applicable", FALSE, 0, 0), {}, {}, FALSE)
    BY <2>1, PlainTells
  <2>3. QED BY <2>2 DEF Leaves, Execution, Validates
<1>5. CASE way # "odd" /\ targets # {}
  <2>1. r = Told(x, found, n)
    BY <1>5 DEF WeakRng, targets, found, n
  <2>2. Leaves(x, r, Execution(Clean(found), TRUE, Cardinality(found), n), found, found, FALSE)
    BY <1>1, <1>2, <1>5, <2>1, ToldTells
  <2>3. QED BY <1>1, <1>2, <1>5, <2>2, CleanValidates DEF Leaves
<1>6. QED BY <1>3, <1>4, <1>5

-----------------------------------------------------------------------------
(* The dependency adapter *)

(* The last of finitely many places. *)
LEMMA LastOf ==
    ASSUME NEW n \in Nat, NEW S, S \subseteq 1 .. n, S # {}
    PROVE  Max(S) \in S /\ \A i \in S : i <= Max(S)
<1> DEFINE R == OpToRel(<, Nat)
           Bounds == {b \in Nat : \A i \in S : i <= b}
<1>1. /\ \A x, y \in Nat : x < y => <<x, y>> \in R
      /\ IsWellFoundedOn(R, Nat)
  BY NatLessThanWellFounded DEF OpToRel
<1> HIDE DEF R
<1>2. n \in Bounds /\ Bounds \subseteq Nat
  OBVIOUS
<1>3. PICK m \in Bounds : \A b \in Bounds : <<b, m>> \notin R
  <2> HIDE DEF Bounds
  <2>1. IsWellFoundedOn(R, Nat) /\ Bounds # {}
    BY <1>1, <1>2
  <2>2. QED BY <1>2, <2>1, WFMin
<1>4. m \in Nat /\ \A i \in S : i <= m
  OBVIOUS
<1>5. m \in S
  <2> SUFFICES ASSUME m \notin S PROVE FALSE
    OBVIOUS
  <2>1. PICK i \in S : TRUE
    OBVIOUS
  <2>2. i \in 1 .. n /\ i <= m
    BY <1>4
  <2>3. m - 1 \in Nat
    BY <1>4, <2>2
  <2>4. ASSUME NEW j \in S PROVE j <= m - 1
    <3>1. j \in 1 .. n /\ j <= m /\ j # m
      BY <1>4
    <3>2. QED BY <1>4, <3>1
  <2>5. m - 1 \in Bounds
    BY <2>3, <2>4
  <2>6. <<m - 1, m>> \in R
    BY <1>1, <1>4, <2>3
  <2>7. QED BY <1>3, <2>5, <2>6
<1>6. \E x \in S : \A y \in S : x >= y
  <2>1. \A y \in S : m >= y
    BY <1>4
  <2>2. QED BY <1>5, <2>1
<1>7. Max(S) \in S /\ \A y \in S : Max(S) >= y
  BY <1>6 DEF Max
<1>8. QED BY <1>7

Answered == {"works", "blind", "dies", "refuses", "silent", "garbled", "odd"}

(* One manifest of pip-audit. *)
LEMMA PipOneIs ==
    ASSUME NEW content \in Contents, NEW m \in Manifests,
           NEW first \in Answered, NEW second \in Answered,
           NEW o, o = PipOne(content, m, first, second)
    PROVE  /\ o.kind \in {"ok", "failed", "partial", "raised"}
           /\ o.found \subseteq {<<"pip-audit", content, m>>}
           /\ o.kind = "ok" =>
                first = "blind" \/ (first = "works" /\ ~Unresolvable(content))
<1>1. CASE first \in {"dies", "silent", "garbled", "odd", "blind"}
  BY <1>1 DEF PipOne
<1>2. CASE first = "works" /\ ~Unresolvable(content)
  BY <1>2 DEF PipOne, Resolved, Found
<1>3. CASE first = "refuses" \/ (first = "works" /\ Unresolvable(content))
  <2>1. CASE ~ExactPins(content)
    BY <1>3, <2>1 DEF PipOne
  <2>2. CASE ExactPins(content)
    BY <1>3, <2>2 DEF PipOne, Direct, Found, Answered
  <2>3. QED BY <2>1, <2>2
<1>4. QED BY <1>1, <1>2, <1>3 DEF Answered

(* The manifests of a snapshot and their places. *)
LEMMA PlacesOf ==
    /\ Len(ManifestOrder) \in Nat /\ DOMAIN ManifestOrder = 1 .. Len(ManifestOrder)
    /\ \A i \in DOMAIN ManifestOrder : ManifestOrder[i] \in Manifests
    /\ \A m \in Manifests : \E i \in DOMAIN ManifestOrder : m = ManifestOrder[i]
    /\ IsFiniteSet(Manifests) /\ IsFiniteSet(DOMAIN ManifestOrder)
<1>1. /\ Len(ManifestOrder) \in Nat /\ DOMAIN ManifestOrder = 1 .. Len(ManifestOrder)
      /\ Manifests = {ManifestOrder[i] : i \in DOMAIN ManifestOrder}
  BY ScannersAssumption DEF Manifests, ToSet
<1>2. IsFiniteSet(DOMAIN ManifestOrder)
  BY <1>1, FS_Interval
<1>3. [i \in DOMAIN ManifestOrder |-> ManifestOrder[i]]
        \in Surjection(DOMAIN ManifestOrder, Manifests)
  BY <1>1 DEF Surjection
<1>4. IsFiniteSet(Manifests)
  BY <1>2, <1>3, FS_Surjection
<1>5. QED BY <1>1, <1>2, <1>4

(* What is found in manifests is one candidate of each at most. *)
LEMMA DependenciesFound ==
    ASSUME NEW s \in SnapshotType, NEW x \in Scanners, NEW found,
           found \subseteq {<<x, s.manifests[m], m>> :
                             m \in {n \in Manifests : s.manifests[n] # "none"}}
    PROVE  found \in SUBSET CandidateType /\ IsFiniteSet(found) /\ Cardinality(found) \in Nat
<1> DEFINE there == {n \in Manifests : s.manifests[n] # "none"}
           all == {<<x, s.manifests[m], m>> : m \in there}
<1>1. IsFiniteSet(there)
  BY PlacesOf, FS_Subset
<1>2. [m \in there |-> <<x, s.manifests[m], m>>] \in Surjection(there, all)
  BY DEF Surjection
<1>3. IsFiniteSet(all)
  BY <1>1, <1>2, FS_Surjection
<1>4. \A m \in there : s.manifests[m] \in Contents
  BY DEF SnapshotType
<1>5. all \subseteq CandidateType
  BY <1>4 DEF CandidateType
<1>6. QED BY <1>3, <1>5, FS_Subset, FS_CardinalityType

(* The last manifest that did not go well decides, if there is one. *)
LEMMA PipStatusIs ==
    ASSUME NEW outcomes, DOMAIN outcomes \subseteq DOMAIN ManifestOrder, NEW found
    PROVE  \/ /\ PipStatus(outcomes, found) = Clean(found)
              /\ \A i \in DOMAIN outcomes : outcomes[i].kind \notin {"failed", "partial"}
           \/ \E i \in DOMAIN outcomes :
                /\ outcomes[i].kind \in {"failed", "partial"}
                /\ PipStatus(outcomes, found) = outcomes[i].kind
<1> DEFINE bad == {i \in DOMAIN outcomes : outcomes[i].kind \in {"failed", "partial"}}
<1>1. bad # {} => Max(bad) \in bad
  BY PlacesOf, LastOf
<1>2. PipStatus(outcomes, found) = IF bad = {} THEN Clean(found) ELSE outcomes[Max(bad)].kind
  BY DEF PipStatus
<1>3. QED BY <1>1, <1>2

(* pip-audit, whatever its program does with each of the manifests. *)
LEMMA PipTells ==
    ASSUME NEW s \in SnapshotType, NEW absent \in BOOLEAN, NEW first, NEW second,
           ~absent => \A m \in Manifests : first[m] \in Answered /\ second[m] \in Answered,
           NEW r, r = PipAudit(s, absent, first, second)
    PROVE  /\ Tells("pip-audit", r)
           /\ r.raised => r.records["pip-audit"].counted = 0
           /\ Validates(r.records["pip-audit"])
           /\ r.records["pip-audit"].status \in {"complete", "empty"} =>
                /\ \A m \in RootManifests : s.manifests[m] # "none" =>
                    \/ first[m] = "blind"
                    \/ first[m] = "works" /\ ~Unresolvable(s.manifests[m])
                /\ ~absent /\ \E m \in RootManifests : s.manifests[m] # "none"
<1> DEFINE x == "pip-audit"
           roots    == {i \in Present(s) : ManifestOrder[i] \in RootManifests}
           one(m)   == PipOne(s.manifests[m], m, first[m], second[m])
           raises   == {i \in roots : one(ManifestOrder[i]).kind = "raised"}
           audited  == {i \in roots : \A j \in raises : i < j}
           outcomes == [i \in audited |-> one(ManifestOrder[i])]
           found    == UNION {outcomes[i].found : i \in audited}
           bad      == {i \in audited : outcomes[i].kind \in {"failed", "partial"}}
           valid    == \E i \in bad : outcomes[i].kind = "partial"
           n        == Cardinality(roots)
           status   == PipStatus(outcomes, found)
           e == IF raises = {}
                THEN Execution(status, bad = {} \/ valid, Cardinality(found), n)
                ELSE Execution(IF bad = {} THEN "failed" ELSE status, valid, 0, n)
<1>1. CASE absent \/ roots = {}
  <2>1. r = Plain(x, "unavailable", 0) \/ r = Plain(x, "not-applicable", 0)
    BY <1>1 DEF PipAudit
  <2>2. \E st \in {"unavailable", "not-applicable"} :
            Leaves(x, r, Execution(st, FALSE, 0, 0), {}, {}, FALSE)
    BY <2>1, PlainTells
  <2>3. QED BY <2>2 DEF Leaves, Execution, Validates
<1>2. CASE ~absent /\ roots # {}
  <2>1. r = One(x, e, found, found, raises # {})
    BY <1>2 DEF PipAudit
  <2>2. \A i \in roots : /\ i \in DOMAIN ManifestOrder /\ ManifestOrder[i] \in Manifests
                         /\ s.manifests[ManifestOrder[i]] \in Contents
    BY PlacesOf DEF Present, SnapshotType
  <2>3. ASSUME NEW i \in roots
        PROVE  LET m == ManifestOrder[i] IN
               /\ one(m).kind \in {"ok", "failed", "partial", "raised"}
               /\ one(m).found \subseteq {<<x, s.manifests[m], m>>}
               /\ one(m).kind = "ok" =>
                    first[m] = "blind" \/ (first[m] = "works" /\ ~Unresolvable(s.manifests[m]))
    BY <1>2, <2>2, PipOneIs
  <2> HIDE DEF one
  <2>4. \A i \in audited : /\ i \in roots /\ outcomes[i] = one(ManifestOrder[i])
                           /\ outcomes[i].kind # "raised"
    <3>1. ASSUME NEW i \in audited, outcomes[i].kind = "raised" PROVE FALSE
      <4>1. i \in raises /\ i \in roots
        BY <3>1
      <4>2. i < i /\ i \in Nat
        BY <2>2, <4>1, PlacesOf
      <4>3. QED BY <4>2
    <3>2. QED BY <3>1
  <2>5. /\ roots \subseteq DOMAIN ManifestOrder /\ audited \subseteq DOMAIN ManifestOrder
        /\ DOMAIN outcomes = audited
    BY <2>2
  <2>6. n \in Nat /\ n >= 1
    <3>1. IsFiniteSet(roots)
      BY <2>5, PlacesOf, FS_Subset
    <3>2. QED BY <1>2, <3>1, FS_CardinalityType, FS_EmptySet
  <2>7. found \in SUBSET CandidateType /\ IsFiniteSet(found) /\ Cardinality(found) \in Nat
    <3>1. x \in Scanners
      BY TheScanners
    <3>2. ASSUME NEW c \in found
          PROVE  c \in {<<x, s.manifests[m], m>> :
                            m \in {k \in Manifests : s.manifests[k] # "none"}}
      <4>1. PICK i \in audited : c \in outcomes[i].found
        OBVIOUS
      <4>2. i \in roots /\ c \in one(ManifestOrder[i]).found
        BY <2>4, <4>1
      <4>3. c = <<x, s.manifests[ManifestOrder[i]], ManifestOrder[i]>>
        BY <2>3, <4>2
      <4>4. ManifestOrder[i] \in Manifests /\ s.manifests[ManifestOrder[i]] # "none"
        BY <2>2, <4>2 DEF Present
      <4>5. QED BY <4>3, <4>4
    <3> HIDE DEF found
    <3>3. QED BY <3>1, <3>2, DependenciesFound
  <2>8. IF bad = {} THEN status = Clean(found) ELSE status \in {"failed", "partial"}
    <3>1. bad = {i \in audited : outcomes[i].kind \in {"failed", "partial"}}
      OBVIOUS
    <3> HIDE DEF roots, outcomes, audited, found, bad, raises
    <3>2. \/ /\ status = Clean(found)
             /\ \A i \in DOMAIN outcomes : outcomes[i].kind \notin {"failed", "partial"}
          \/ \E i \in DOMAIN outcomes : /\ outcomes[i].kind \in {"failed", "partial"}
                                       /\ status = outcomes[i].kind
      BY <2>5, PipStatusIs
    <3> HIDE DEF status
    <3>3. QED BY <2>5, <3>1, <3>2
  <2>9. bad \subseteq audited /\ (bad = {} => ~valid)
    OBVIOUS
  <2>10. bad = {} /\ raises = {} => \A i \in roots : one(ManifestOrder[i]).kind = "ok"
    <3>1. ASSUME bad = {}, raises = {}, NEW i \in roots PROVE one(ManifestOrder[i]).kind = "ok"
      <4>1. i \in audited
        BY <3>1
      <4>2. outcomes[i].kind \notin {"failed", "partial"}
        BY <3>1, <4>1
      <4>3. QED BY <2>3, <2>4, <4>1, <4>2
    <3>2. QED BY <3>1
  <2> HIDE DEF roots, raises, audited, outcomes, found, bad, valid, n, status
  <2>11. CASE raises = {} /\ bad = {}
    <3>1. r = Told(x, found, n)
      BY <2>1, <2>8, <2>11 DEF Told
    <3>2. Leaves(x, r, Execution(Clean(found), TRUE, Cardinality(found), n), found, found, FALSE)
      BY <2>6, <2>7, <3>1, ToldTells
    <3>3. Validates(Execution(Clean(found), TRUE, Cardinality(found), n))
      BY <2>6, <2>7, CleanValidates
    <3>4. ASSUME NEW m \in RootManifests, s.manifests[m] # "none"
          PROVE  first[m] = "blind" \/ (first[m] = "works" /\ ~Unresolvable(s.manifests[m]))
      <4>1. PICK i \in DOMAIN ManifestOrder : m = ManifestOrder[i]
        BY PlacesOf, ScannersAssumption
      <4>2. i \in roots
        BY <3>4, <4>1 DEF roots, Present
      <4>3. one(m).kind = "ok"
        BY <2>10, <2>11, <4>1, <4>2
      <4>4. QED BY <2>3, <4>1, <4>2, <4>3
    <3>5. \E m \in RootManifests : s.manifests[m] # "none"
      <4>1. PICK i \in Present(s) : ManifestOrder[i] \in RootManifests
        BY <1>2 DEF roots
      <4>2. QED BY <4>1 DEF Present
    <3>6. QED BY <1>2, <3>2, <3>3, <3>4, <3>5 DEF Leaves
  <2>12. CASE raises # {} \/ bad # {}
    <3> DEFINE st == IF bad = {} THEN "failed" ELSE status
               c  == IF raises = {} THEN Cardinality(found) ELSE 0
    <3>1. e = Execution(st, valid, c, n)
      <4>1. CASE raises = {}
        <5>1. bad # {} /\ e = Execution(status, bad = {} \/ valid, Cardinality(found), n)
          BY <2>12, <4>1
        <5>2. (bad = {} \/ valid) = valid
          BY <5>1 DEF valid
        <5>3. st = status /\ c = Cardinality(found)
          BY <4>1, <5>1
        <5> HIDE DEF e, st, c
        <5>4. QED BY <5>1, <5>2, <5>3
      <4>2. CASE raises # {}
        BY <4>2
      <4>3. QED BY <4>1, <4>2
    <3>2. st \in {"failed", "partial"} /\ c \in Nat /\ valid \in BOOLEAN
      BY <2>7, <2>8 DEF valid
    <3>3. /\ e \in ExecutionType /\ e.status \in {"failed", "partial"}
          /\ e.counted = c /\ Validates(e)
      BY <2>6, <3>1, <3>2 DEF Execution, ExecutionType, Validates
    <3>4. r \in ResultType({x})
      BY <2>1, <2>7, <3>3, OneTyped
    <3> HIDE DEF e
    <3>5. /\ r.records[x] = e /\ r.raised = (raises # {})
          /\ r.returned[x] = found /\ r.said[x] = found
      BY <2>1 DEF One, Result
    <3>6. QED BY <3>3, <3>4, <3>5 DEF Tells
  <2>13. QED BY <2>11, <2>12
<1>3. QED BY <1>1, <1>2

(* One manifest given to OSV-Scanner by name. *)
LEMMA OsvOneIs ==
    ASSUME NEW content, NEW m, NEW way
    PROVE  /\ OsvOne(content, m, way).found \subseteq {<<"osv-scanner", content, m>>}
           /\ OsvOne(content, m, way).kind = "raised" => way = "odd"
<1>1. CASE way = "odd"
  BY <1>1 DEF OsvOne
<1>2. CASE way \in {"works", "blind"} /\ content = "comments"
  BY <1>2 DEF OsvOne
<1>3. CASE way = "works" /\ content # "comments"
  BY <1>3 DEF OsvOne, Direct, Found
<1>4. CASE way = "blind" /\ content # "comments"
  BY <1>4 DEF OsvOne
<1>5. CASE way \notin {"odd", "works", "blind"}
  BY <1>5 DEF OsvOne
<1>6. QED BY <1>1, <1>2, <1>3, <1>4, <1>5

(* The fallback. *)
LEMMA OsvByNameTells ==
    ASSUME NEW s \in SnapshotType, NEW way, NEW r, r = OsvByName(s, way)
    PROVE  LET x == "osv-scanner" IN
           /\ Tells(x, r)
           /\ r.raised => /\ r.records[x].counted = 0 /\ r.returned[x] = {}
                          /\ \E m \in Manifests : s.manifests[m] # "none" /\ way[m] = "odd"
           /\ Validates(r.records[x])
           /\ r.records[x].status \notin {"complete", "empty"}
<1> DEFINE x == "osv-scanner"
           explicit == {i \in Present(s) : Cardinality({j \in Present(s) : j < i}) < MaxExplicit}
           one(m)   == OsvOne(s.manifests[m], m, way[m])
           kinds    == {one(ManifestOrder[i]).kind : i \in explicit}
           found    == UNION {one(ManifestOrder[i]).found : i \in explicit}
           n        == Cardinality(explicit)
<1>1. \A i \in explicit : /\ i \in DOMAIN ManifestOrder /\ ManifestOrder[i] \in Manifests
                          /\ s.manifests[ManifestOrder[i]] # "none"
  BY PlacesOf DEF Present
<1>2. ASSUME NEW m
      PROVE  /\ one(m).found \subseteq {<<x, s.manifests[m], m>>}
             /\ one(m).kind = "raised" => way[m] = "odd"
  BY OsvOneIs
<1> HIDE DEF one
<1>3. n \in Nat
  <2>1. explicit \subseteq DOMAIN ManifestOrder
    BY <1>1
  <2>2. IsFiniteSet(explicit)
    BY <2>1, PlacesOf, FS_Subset
  <2>3. QED BY <2>2, FS_CardinalityType
<1>4. found \in SUBSET CandidateType /\ Cardinality(found) \in Nat
  <2>1. x \in Scanners
    BY TheScanners
  <2>2. ASSUME NEW c \in found
        PROVE  c \in {<<x, s.manifests[m], m>> : m \in {k \in Manifests : s.manifests[k] # "none"}}
    <3>1. PICK i \in explicit : c \in one(ManifestOrder[i]).found
      OBVIOUS
    <3>2. c = <<x, s.manifests[ManifestOrder[i]], ManifestOrder[i]>>
      BY <1>2, <3>1
    <3>3. QED BY <1>1, <3>2
  <2> HIDE DEF found
  <2>3. QED BY <2>1, <2>2, DependenciesFound
<1>5. "raised" \in kinds => \E m \in Manifests : s.manifests[m] # "none" /\ way[m] = "odd"
  <2>1. ASSUME "raised" \in kinds
        PROVE  \E m \in Manifests : s.manifests[m] # "none" /\ way[m] = "odd"
    <3>1. PICK i \in explicit : one(ManifestOrder[i]).kind = "raised"
      BY <2>1
    <3>2. QED BY <1>1, <1>2, <3>1
  <2>2. QED BY <2>1
<1>6. r = CASE kinds = {} ->
                  One(x, Execution("not-applicable", FALSE, 0, 0), {}, found, FALSE)
            [] "raised" \in kinds -> One(x, Execution("failed", FALSE, 0, 1), {}, found, TRUE)
            [] kinds = {"ok"} ->
                  One(x, Execution("partial", TRUE, Cardinality(found), n), found, found, FALSE)
            [] {"raised", "failed"} \cap kinds = {} /\ "no source" \in kinds ->
                  One(x, Execution("not-applicable", FALSE, 0, 0), {}, found, FALSE)
            [] OTHER -> One(x, Execution("failed", FALSE, 0, 1), {}, found, FALSE)
  BY DEF OsvByName, one
<1>7. Cardinality({}) = 0
  BY FS_EmptySet
<1> HIDE DEF found, kinds, n
<1>8. ASSUME NEW status \in {"not-applicable", "failed", "partial"}, NEW valid \in BOOLEAN,
             NEW returned \in {{}, found}, NEW raised \in BOOLEAN, NEW k \in Nat,
             NEW c, c = Cardinality(returned),
             status = "not-applicable" => k = 0, raised => returned = {} /\ status = "failed"
      PROVE  /\ Leaves(x, One(x, Execution(status, valid, c, k), returned, found, raised),
                       Execution(status, valid, c, k), returned, found, raised)
             /\ Validates(Execution(status, valid, c, k))
  <2> DEFINE e == Execution(status, valid, c, k)
             o == One(x, e, returned, found, raised)
  <2>1. /\ returned \in SUBSET CandidateType /\ c \in Nat
    BY <1>4, <1>7, <1>8
  <2>2. e \in ExecutionType /\ Validates(e) /\ e.status = status /\ e.counted = c
    BY <1>8, <2>1 DEF Execution, ExecutionType, Validates
  <2> HIDE DEF e
  <2>3. /\ o.records[x] = e /\ o.raised = raised
        /\ o.returned[x] = returned /\ o.said[x] = found
    BY DEF One, Result
  <2>4. o \in ResultType({x})
    BY <1>4, <2>1, <2>2, OneTyped
  <2> HIDE DEF o
  <2>5. Tells(x, o)
    BY <1>8, <2>2, <2>3, <2>4 DEF Tells
  <2>6. Leaves(x, o, e, returned, found, raised)
    BY <2>3, <2>5 DEF Leaves
  <2>7. QED BY <2>2, <2>6 DEF e, o
<1>9. ASSUME NEW status \in {"not-applicable", "failed"}, NEW k \in {0, 1},
             status = "not-applicable" => k = 0,
             r = One(x, Execution(status, FALSE, 0, k), {}, found, FALSE)
      PROVE  /\ Tells(x, r) /\ ~r.raised /\ Validates(r.records[x])
             /\ r.records[x].status \notin {"complete", "empty"}
  <2>1. /\ Leaves(x, r, Execution(status, FALSE, 0, k), {}, found, FALSE)
        /\ Validates(Execution(status, FALSE, 0, k))
    <3>1. /\ FALSE \in BOOLEAN /\ {} \in {{}, found} /\ k \in Nat /\ 0 = Cardinality({})
          /\ status \in {"not-applicable", "failed", "partial"}
      BY <1>7, <1>9
    <3>2. /\ Leaves(x, One(x, Execution(status, FALSE, 0, k), {}, found, FALSE),
                    Execution(status, FALSE, 0, k), {}, found, FALSE)
          /\ Validates(Execution(status, FALSE, 0, k))
      BY <1>8, <1>9, <3>1
    <3>3. QED BY <1>9, <3>2
  <2>2. Execution(status, FALSE, 0, k).status \notin {"complete", "empty"}
    BY <1>9 DEF Execution
  <2>3. QED BY <2>1, <2>2 DEF Leaves
<1>10. CASE "raised" \in kinds
  <2>1. r = One(x, Execution("failed", FALSE, 0, 1), {}, found, TRUE)
    <3>1. kinds # {} /\ kinds # {"ok"}
      BY <1>10
    <3>2. QED BY <1>6, <1>10, <3>1
  <2>2. /\ Leaves(x, r, Execution("failed", FALSE, 0, 1), {}, found, TRUE)
        /\ Validates(Execution("failed", FALSE, 0, 1))
    BY <1>7, <1>8, <2>1
  <2>3. QED BY <1>5, <1>10, <2>2 DEF Leaves, Execution
<1>11. CASE kinds = {"ok"}
  <2>1. r = One(x, Execution("partial", TRUE, Cardinality(found), n), found, found, FALSE)
    BY <1>6, <1>11
  <2>2. /\ Leaves(x, r, Execution("partial", TRUE, Cardinality(found), n), found, found, FALSE)
        /\ Validates(Execution("partial", TRUE, Cardinality(found), n))
    BY <1>3, <1>8, <2>1
  <2>3. QED BY <2>2 DEF Leaves, Execution
<1>12. CASE kinds = {} \/ ("raised" \notin kinds /\ kinds # {"ok"})
  <2>1. \/ r = One(x, Execution("not-applicable", FALSE, 0, 0), {}, found, FALSE)
        \/ r = One(x, Execution("failed", FALSE, 0, 1), {}, found, FALSE)
    BY <1>6, <1>12
  <2>2. QED BY <1>9, <2>1
<1>13. QED BY <1>10, <1>11, <1>12

(* osv-scanner, whatever its program does. *)
LEMMA OsvTells ==
    ASSUME NEW s \in SnapshotType, NEW reads \in BOOLEAN,
           NEW root \in Answered \cup {"absent"}, NEW way,
           NEW r, r = OsvScanner(s, reads, root, way)
    PROVE  LET x == "osv-scanner" IN
           /\ Tells(x, r)
           /\ r.raised => /\ r.records[x].counted = 0 /\ r.returned[x] = {}
                          /\ \/ root = "odd"
                             \/ /\ NoSource(s, reads)
                                /\ \E m \in Manifests : s.manifests[m] # "none" /\ way[m] = "odd"
           /\ Validates(r.records[x])
           /\ r.records[x].status \in {"complete", "empty"} =>
                root \in {"works", "blind"} /\ ~NoSource(s, reads)
<1> DEFINE x == "osv-scanner"
           there == {<<x, s.manifests[m], m>> : m \in {k \in Manifests : s.manifests[k] # "none"}}
           lock  == Found(x, "lock", IF s.lock = "vulnerable" THEN {"lock"} ELSE {})
           named == UNION {Direct(x, s.manifests[m], m) : m \in {k \in Packages(s) : reads}}
           found == lock \cup named
<1>1. x \in Scanners
  BY TheScanners
<1>2. lock \in SUBSET CandidateType /\ IsFiniteSet(lock)
  <2>1. lock \subseteq {<<x, "lock", "lock">>}
    BY DEF Found
  <2>2. <<x, "lock", "lock">> \in CandidateType
    BY <1>1 DEF CandidateType
  <2>3. IsFiniteSet({<<x, "lock", "lock">>})
    BY FS_Singleton
  <2> HIDE DEF lock, x
  <2>4. IsFiniteSet(lock)
    BY <2>1, <2>3, FS_Subset
  <2>5. QED BY <2>1, <2>2, <2>4
<1>3. named \in SUBSET CandidateType /\ IsFiniteSet(named)
  <2>1. ASSUME NEW c \in named PROVE c \in there
    <3>1. PICK m \in Packages(s) : c \in Direct(x, s.manifests[m], m)
      OBVIOUS
    <3>2. m \in Manifests /\ s.manifests[m] # "none" /\ c = <<x, s.manifests[m], m>>
      BY <3>1 DEF Packages, Direct, Found
    <3>3. QED BY <3>2
  <2> HIDE DEF named
  <2>2. QED BY <1>1, <2>1, DependenciesFound
<1>4. /\ found \in SUBSET CandidateType /\ IsFiniteSet(found)
      /\ {} \in SUBSET CandidateType /\ IsFiniteSet({})
  <2> HIDE DEF lock, named
  <2>1. QED BY <1>2, <1>3, FS_Union, FS_EmptySet
<1>5. /\ root = "absent" => r = Plain(x, "unavailable", 0)
      /\ root \in {"works", "blind"} /\ NoSource(s, reads) => r = OsvByName(s, way)
      /\ root = "works" /\ ~NoSource(s, reads) => r = Told(x, found, 1)
      /\ root = "blind" /\ ~NoSource(s, reads) => r = Told(x, {}, 1)
      /\ root = "odd" => r = Lost(x, FALSE, 0, 1, found)
      /\ root \in {"dies", "refuses", "silent", "garbled"} => r = Plain(x, "failed", 1)
  <2>1. r = CASE root = "absent" -> Plain(x, "unavailable", 0)
              [] root \in {"works", "blind"} /\ NoSource(s, reads) -> OsvByName(s, way)
              [] root = "works" /\ ~NoSource(s, reads) -> Told(x, found, 1)
              [] root = "blind" /\ ~NoSource(s, reads) -> Told(x, {}, 1)
              [] root = "odd" -> Lost(x, FALSE, 0, 1, found)
              [] OTHER -> Plain(x, "failed", 1)
    BY DEF OsvScanner
  <2> HIDE DEF found
  <2>2. QED BY <2>1
<1> HIDE DEF found
<1>6. CASE root = "absent" \/ root \in {"dies", "refuses", "silent", "garbled"}
  <2>1. \E st \in {"unavailable", "failed"}, n \in {0, 1} : r = Plain(x, st, n)
    BY <1>5, <1>6
  <2>2. \E st \in {"unavailable", "failed"}, n \in {0, 1} :
            Leaves(x, r, Execution(st, FALSE, 0, n), {}, {}, FALSE)
    BY <2>1, PlainTells
  <2>3. QED BY <2>2 DEF Leaves, Execution, Validates
<1>7. CASE root \in {"works", "blind"} /\ NoSource(s, reads)
  <2>1. r = OsvByName(s, way)
    BY <1>5, <1>7
  <2>2. QED BY <1>7, <2>1, OsvByNameTells
<1>8. CASE root \in {"works", "blind"} /\ ~NoSource(s, reads)
  <2> DEFINE n == 1
             f == IF root = "works" THEN found ELSE {}
  <2>1. /\ n \in Nat /\ n >= 1 /\ r = Told(x, f, n)
        /\ f \in SUBSET CandidateType /\ IsFiniteSet(f)
    BY <1>4, <1>5, <1>8
  <2> HIDE DEF n, f
  <2>2. Leaves(x, r, Execution(Clean(f), TRUE, Cardinality(f), n), f, f, FALSE)
    BY <2>1, ToldTells
  <2>3. Validates(Execution(Clean(f), TRUE, Cardinality(f), n))
    BY <2>1, CleanValidates
  <2>4. QED BY <1>8, <2>2, <2>3 DEF Leaves
<1>9. CASE root = "odd"
  <2>1. r = Lost(x, FALSE, 0, 1, found)
    BY <1>5, <1>9
  <2>2. Leaves(x, r, Execution("failed", FALSE, 0, 1), {}, found, TRUE)
    BY <1>4, <2>1, LostTells
  <2>3. QED BY <1>9, <2>2 DEF Leaves, Execution, Validates
<1>10. QED BY <1>6, <1>7, <1>8, <1>9 DEF Answered

(* The two together: what either raises loses the findings of both. *)
LEMMA ScaTells ==
    ASSUME NEW pip, NEW osv, Tells("pip-audit", pip), Tells("osv-scanner", osv),
           Validates(pip.records["pip-audit"]), Validates(osv.records["osv-scanner"]),
           pip.raised => pip.records["pip-audit"].counted = 0,
           osv.raised => osv.records["osv-scanner"].counted = 0,
           NEW r, r = Sca(pip, osv)
    PROVE  /\ r \in ResultType(ScannersOf("sca"))
           /\ \A x \in ScannersOf("sca") :
                /\ Validates(r.records[x])
                /\ r.records[x].status \in {"complete", "empty"} =>
                        r.records[x].counted = Cardinality(r.said[x])
           /\ r.records["pip-audit"] = pip.records["pip-audit"]
           /\ ~pip.raised => r.records["osv-scanner"] = osv.records["osv-scanner"]
           /\ pip.raised => /\ r.records["osv-scanner"].status = "failed"
                            /\ r.records["osv-scanner"].counted = 0
           /\ r.raised = (pip.raised \/ osv.raised)
           /\ r.raised => \A x \in ScannersOf("sca") : r.returned[x] = {}
           /\ r.raised => \E x \in ScannersOf("sca") :
                                r.records[x].status \in {"failed", "partial"}
           /\ ~r.raised => \A x \in ScannersOf("sca") :
                                r.records[x].counted = Cardinality(r.returned[x])
           /\ ~r.raised /\ r.records["pip-audit"].status \notin {"failed", "partial"} =>
                r.said["pip-audit"] = r.returned["pip-audit"]
           /\ r.records["osv-scanner"].counted = Cardinality(r.returned["osv-scanner"])
           /\ r.records["pip-audit"].counted = Cardinality(r.returned["pip-audit"]) \/ osv.raised
<1> DEFINE none  == Plain("osv-scanner", "failed", 0)
           after == IF pip.raised THEN none ELSE osv
           raised == pip.raised \/ after.raised
<1>1. ScannersOf("sca") = {"pip-audit", "osv-scanner"}
  BY DEF ScannersOf
<1>2. Leaves("osv-scanner", none, Execution("failed", FALSE, 0, 0), {}, {}, FALSE)
  BY PlainTells
<1>3. /\ Tells("osv-scanner", none) /\ none.raised = FALSE /\ Validates(none.records["osv-scanner"])
      /\ none.records["osv-scanner"].status = "failed" /\ none.records["osv-scanner"].counted = 0
  BY <1>2 DEF Leaves, Execution, Validates
<1> HIDE DEF none
<1>4. r = Result(Over(pip.records, after.records),
                 IF raised THEN [x \in ScannersOf("sca") |-> {}]
                 ELSE Over(pip.returned, after.returned),
                 Over(pip.said, after.said), raised)
  BY DEF Sca, none
<1>5. /\ pip \in ResultType({"pip-audit"}) /\ pip.raised \in BOOLEAN /\ osv.raised \in BOOLEAN
      /\ osv \in ResultType({"osv-scanner"}) /\ none \in ResultType({"osv-scanner"})
  BY <1>3 DEF Tells, ResultType
<1>6. /\ after \in ResultType({"osv-scanner"}) /\ after.raised \in BOOLEAN
      /\ Validates(after.records["osv-scanner"])
      /\ Tells("osv-scanner", after)
      /\ after.raised => after.records["osv-scanner"].counted = 0
  BY <1>3, <1>5
<1> HIDE DEF after, raised
<1>7. /\ r.records = Over(pip.records, after.records) /\ r.raised = raised
      /\ r.said = Over(pip.said, after.said)
      /\ r.returned = IF raised THEN [x \in ScannersOf("sca") |-> {}]
                      ELSE Over(pip.returned, after.returned)
  BY <1>4 DEF Result
<1>8. /\ r.records["pip-audit"] = pip.records["pip-audit"]
      /\ r.records["osv-scanner"] = after.records["osv-scanner"]
      /\ r.said["pip-audit"] = pip.said["pip-audit"]
      /\ r.said["osv-scanner"] = after.said["osv-scanner"]
      /\ ~raised => /\ r.returned["pip-audit"] = pip.returned["pip-audit"]
                    /\ r.returned["osv-scanner"] = after.returned["osv-scanner"]
      /\ raised => \A x \in ScannersOf("sca") : r.returned[x] = {}
  BY <1>5, <1>6, <1>7 DEF Over, ResultType
<1>9. Cardinality({}) = 0
  BY FS_EmptySet
<1>10. r \in ResultType(ScannersOf("sca"))
  <2>1. r.records \in [{"pip-audit", "osv-scanner"} -> ExecutionType]
    BY <1>5, <1>6, <1>7 DEF Over, ResultType
  <2>2. r.said \in [{"pip-audit", "osv-scanner"} -> SUBSET CandidateType]
    BY <1>5, <1>6, <1>7 DEF Over, ResultType
  <2>3. r.returned \in [{"pip-audit", "osv-scanner"} -> SUBSET CandidateType]
    <3>1. CASE raised
      BY <1>1, <1>7, <3>1
    <3>2. CASE ~raised
      BY <1>5, <1>6, <1>7, <3>2 DEF Over, ResultType
    <3>3. QED BY <3>1, <3>2
  <2>4. raised \in BOOLEAN
    BY <1>5, <1>6 DEF raised
  <2>5. r = [records |-> r.records, returned |-> r.returned, said |-> r.said,
             raised |-> r.raised]
    BY <1>4 DEF Result
  <2>6. QED BY <1>1, <1>7, <2>1, <2>2, <2>3, <2>4, <2>5 DEF ResultType
<1>11. /\ raised = (pip.raised \/ osv.raised)
       /\ pip.raised => raised /\ after.raised = FALSE /\ after = none
       /\ ~pip.raised => after = osv
  BY <1>3, <1>5 DEF after, raised
<1>12. /\ Validates(r.records["pip-audit"]) /\ Validates(r.records["osv-scanner"])
       /\ r.records["pip-audit"].status \in {"complete", "empty"} =>
                r.records["pip-audit"].counted = Cardinality(r.said["pip-audit"])
       /\ r.records["osv-scanner"].status \in {"complete", "empty"} =>
                r.records["osv-scanner"].counted = Cardinality(r.said["osv-scanner"])
  BY <1>6, <1>8 DEF Tells
<1>13. pip.raised => /\ r.records["osv-scanner"].status = "failed"
                     /\ r.records["osv-scanner"].counted = 0
  BY <1>3, <1>8, <1>11
<1>14. r.raised => \E x \in ScannersOf("sca") : r.records[x].status \in {"failed", "partial"}
  BY <1>1, <1>7, <1>8, <1>11 DEF Tells
<1>15. ~r.raised =>
            /\ \A x \in ScannersOf("sca") :
                    r.records[x].counted = Cardinality(r.returned[x])
            /\ r.records["pip-audit"].status \notin {"failed", "partial"} =>
                    r.said["pip-audit"] = r.returned["pip-audit"]
  BY <1>1, <1>5, <1>6, <1>7, <1>8, <1>11 DEF Tells
<1>16. r.records["osv-scanner"].counted = Cardinality(r.returned["osv-scanner"])
  <2>1. CASE ~r.raised
    BY <1>1, <1>15, <2>1
  <2>2. CASE r.raised
    BY <1>1, <1>3, <1>6, <1>7, <1>8, <1>9, <1>11, <2>2
  <2>3. QED BY <2>1, <2>2
<1>17. pip.raised => r.records["pip-audit"].counted = Cardinality(r.returned["pip-audit"])
  BY <1>1, <1>7, <1>8, <1>9, <1>11
<1>18. QED BY <1>1, <1>7, <1>8, <1>10, <1>11, <1>12, <1>13, <1>14, <1>15, <1>16, <1>17

-----------------------------------------------------------------------------
(* What the adapters leave for some ways of their invocations *)

(* The environment of a run. *)
Installed ==
    /\ snapshot \in SnapshotType /\ snapshot.flawed \subseteq snapshot.sources
    /\ tool \in [Binaries -> UNION {Defects(b) : b \in Binaries}]
    /\ \A b \in Binaries : tool[b] \in Defects(b)
    /\ ruleset \in BOOLEAN /\ enabled \in BOOLEAN

(* The state that the adapters read is typed. *)
LEMMA InstalledFollows ==
    ASSUME ScannersTypeOK PROVE Installed
<1> DEFINE i == [tool |-> tool, ruleset |-> ruleset, enabled |-> enabled]
<1>1. i \in Installations /\ snapshot \in Snapshots
  BY DEF ScannersTypeOK
<1>2. i.tool = tool /\ i.ruleset = ruleset /\ i.enabled = enabled
  OBVIOUS
<1> HIDE DEF i
<1>3. /\ i \in [tool : [Binaries -> UNION {Defects(b) : b \in Binaries}],
               ruleset : BOOLEAN, enabled : BOOLEAN]
      /\ \A b \in Binaries : i.tool[b] \in Defects(b)
  BY <1>1, InstallationsAssumption
<1>4. QED BY <1>1, <1>2, <1>3, SnapshotsAssumption DEF Installed

(* Each invocation works or is in a trouble of its adapter. *)
LEMMA WaysAre ==
    ASSUME NEW a, NEW n, NEW ways \in Ways(a, n)
    PROVE  /\ DOMAIN ways = Invocations(a)
           /\ \A i \in Invocations(a) : ways[i] \in {"works"} \cup Troubles(a)
           /\ InTrouble(ways) = {i \in Invocations(a) : ways[i] # "works"}
           /\ \A i \in InTrouble(ways) : ways[i] \in Troubles(a)
<1>1. PICK D \in UNION {kSubset(k, Invocations(a)) : k \in 0 .. n} :
        ways \in {[i \in Invocations(a) |-> IF i \in D THEN g[i] ELSE "works"] :
                    g \in [D -> Troubles(a)]}
  BY DEF Ways
<1>2. PICK g \in [D -> Troubles(a)] :
        ways = [i \in Invocations(a) |-> IF i \in D THEN g[i] ELSE "works"]
  BY <1>1
<1>3. QED BY <1>2 DEF InTrouble

(* The ways with few troubles are among the ways with more. *)
LEMMA MoreWays ==
    ASSUME NEW a, NEW n \in Int, NEW k \in Int, k <= n
    PROVE  Ways(a, k) \subseteq Ways(a, n)
<1>1. 0 .. k \subseteq 0 .. n
  OBVIOUS
<1>2. QED BY <1>1 DEF Ways

(* An invocation that no trouble was met in works. *)
LEMMA AllWaysAre ==
    ASSUME NEW ways
    PROVE  /\ \A i \in DOMAIN ways : AllWays(ways)[i] = ways[i]
           /\ \A i \in ({"full", "direct", "osv"} \X Manifests) \ DOMAIN ways :
                    AllWays(ways)[i] = "works"
BY DEF AllWays, Over

(* A scanner did its work, as far as it shows in what its program is and met; or
   it is a Semgrep that was cut short. *)
DidItsWork(x, known) ==
    \/ /\ known = {}
       /\ \A b \in Binaries \cap {IF x = "semgrep-supplemental" THEN "semgrep" ELSE x} :
                tool[b] \in {"works", "blind"}
    \/ x \in SarifScanners /\ "cut" \in {tool["semgrep"]} \cup known

(* This is what a record of coverage may claim. *)
LEMMA WorkDone ==
    ASSUME NEW x, DidItsWork(x, met[x]) PROVE WentWell(x) \/ CutShort(x)
BY DEF DidItsWork, WentWell, CutShort

(* What is known of a result, given the troubles that were met. *)
Sound(a, ways, r) ==
    /\ r \in ResultType(ScannersOf(a))
    /\ a = "semgrep" /\ r.raised => r.records[a].status = "failed"
    /\ a \in SarifScanners /\ tool["semgrep"] = "unwritable" => r.raised
    /\ (\A x \in ScannersOf(a) : r.records[x].status \notin {"failed", "partial"}) =>
            \A x \in ScannersOf(a) \ {"osv-scanner"} : r.said[x] = r.returned[x]
    /\ \A x \in ScannersOf(a) :
        LET e == r.records[x] IN
        /\ \/ Validates(e)
           \/ /\ x \in SarifScanners
              /\ "silent" \in {tool["semgrep"]} \cup MetBy(x, ways)
        /\ Validates(e) /\ e.status \in {"complete", "empty"} =>
                e.counted = Cardinality(r.said[x]) /\ DidItsWork(x, MetBy(x, ways))
        /\ \/ e.counted = Cardinality(r.returned[x])
           \/ x = "pip-audit" /\ "odd" \in {tool["osv-scanner"]} \cup MetBy("osv-scanner", ways)
           \/ /\ x \in SarifScanners
              /\ "unwritable" \in {tool["semgrep"]} \cup MetBy(x, ways)

(* Adapters that make one invocation. *)
LEMMA OneWay ==
    ASSUME NEW a \in {"semgrep", "semgrep-supplemental", "gitleaks", "weak_rng", "weak_rng_py"},
           NEW n, NEW ways \in Ways(a, n), NEW reads,
           \A i \in InTrouble(ways) : Made(ways, reads, i)
    PROVE  LET w == AllWays(ways)[<<"run", a>>]
               b == IF a = "semgrep-supplemental" THEN "semgrep" ELSE a
           IN  /\ w \in {"works"} \cup Troubles(a)
               /\ ScannersOf(a) = {a}
               /\ MetBy(a, ways) = {v \in {w} : v # "works"}
               /\ w # "works" /\ b \in Binaries => tool[b] = "works"
<1> DEFINE i == <<"run", a>>
           b == IF a = "semgrep-supplemental" THEN "semgrep" ELSE a
<1>1. Invocations(a) = {i} /\ ScannersOf(a) = {a}
  BY DEF Invocations, ScannersOf
<1>2. /\ DOMAIN ways = {i} /\ ways[i] \in {"works"} \cup Troubles(a)
      /\ InTrouble(ways) = {j \in {i} : ways[j] # "works"}
  BY <1>1, WaysAre
<1>3. AllWays(ways)[i] = ways[i]
  BY <1>2, AllWaysAre
<1>4. ProgramOf(i) = b
  BY DEF ProgramOf
<1>5. MetBy(a, ways) = {v \in {ways[i]} : v # "works"}
  BY <1>2 DEF MetBy
<1>6. ways[i] # "works" /\ b \in Binaries => tool[b] = "works"
  BY <1>2, <1>4 DEF Made
<1> HIDE DEF i, b
<1>7. QED BY <1>1, <1>2, <1>3, <1>5, <1>6 DEF i, b

(* What Semgrep leaves is sound, given the troubles met in a run. *)
LEMMA SemgrepSound ==
    ASSUME Installed, NEW a \in {"semgrep", "semgrep-supplemental"},
           NEW n, NEW ways \in Ways(a, n), NEW reads,
           \A i \in InTrouble(ways) : Made(ways, reads, i)
    PROVE  Sound(a, ways, ResultOf(a, AllWays(ways), reads))
<1> DEFINE w   == AllWays(ways)[<<"run", a>>]
           way == Way("semgrep", w)
           intact == IF a = "semgrep" THEN ruleset ELSE TRUE
           r   == ResultOf(a, AllWays(ways), reads)
<1>1. /\ w \in {"works"} \cup Troubles(a) /\ ScannersOf(a) = {a}
      /\ MetBy(a, ways) = {v \in {w} : v # "works"}
      /\ w # "works" => tool["semgrep"] = "works"
  BY OneWay DEF Binaries
<1>2. r = Semgrep(a, snapshot, way, intact)
  BY DEF ResultOf
<1> HIDE DEF w, r
<1>3. way \in Defects("semgrep") /\ tool["semgrep"] \in Defects("semgrep")
  BY <1>1 DEF Installed, Binaries, Way, Defects, Troubles
<1>4. /\ way = tool["semgrep"] \/ (way = w /\ tool["semgrep"] = "works")
      /\ w # "works" => way = w
  BY <1>1 DEF Way
<1> HIDE DEF way
<1>5. intact \in BOOLEAN /\ snapshot \in SnapshotType /\ snapshot.flawed \subseteq snapshot.sources
  BY DEF Installed
<1> HIDE DEF intact
<1>6. /\ Tells(a, r)
      /\ r.raised => /\ r.records[a].status = "failed"
                     /\ way = "unwritable" \/ (r.records[a].counted = 0 /\ r.returned[a] = {})
      /\ Validates(r.records[a]) \/ way = "silent"
      /\ Validates(r.records[a]) /\ r.records[a].status \in {"complete", "empty"} =>
            way \in {"blind", "cut", "works"}
      /\ way = "unwritable" => r.raised
  BY <1>2, <1>3, <1>5, SemgrepTells
<1>7. way \in {"silent", "unwritable"} => way \in {tool["semgrep"]} \cup MetBy(a, ways)
  BY <1>1, <1>4
<1>8. way \in {"blind", "cut", "works"} => DidItsWork(a, MetBy(a, ways))
  <2>1. CASE way = "cut"
    <3>1. "cut" \in {tool["semgrep"]} \cup MetBy(a, ways)
      BY <1>1, <1>4, <2>1
    <3>2. QED BY <3>1 DEF DidItsWork, SarifScanners
  <2>2. CASE way \in {"blind", "works"}
    <3>1. MetBy(a, ways) = {} /\ tool["semgrep"] \in {"works", "blind"}
      BY <1>1, <1>4, <2>2 DEF Troubles
    <3>2. QED BY <3>1 DEF DidItsWork
  <2>3. QED BY <2>1, <2>2
<1>9. Cardinality({}) = 0
  BY FS_EmptySet
<1>10. tool["semgrep"] = "unwritable" => r.raised
  BY <1>4, <1>6
<1>11. Sound(a, ways, r)
  BY <1>1, <1>6, <1>7, <1>8, <1>9, <1>10 DEF Sound, Tells, SarifScanners
<1>12. QED BY <1>11 DEF r

(* What gitleaks leaves is sound, given the troubles met in a run. *)
LEMMA GitleaksSound ==
    ASSUME Installed, NEW a, a = "gitleaks",
           NEW n, NEW ways \in Ways(a, n), NEW reads,
           \A i \in InTrouble(ways) : Made(ways, reads, i)
    PROVE  Sound(a, ways, ResultOf(a, AllWays(ways), reads))
<1> DEFINE w   == AllWays(ways)[<<"run", a>>]
           way == Way(a, w)
           r   == ResultOf(a, AllWays(ways), reads)
<1>1. /\ w \in {"works"} \cup Troubles(a) /\ ScannersOf(a) = {a}
      /\ MetBy(a, ways) = {v \in {w} : v # "works"}
      /\ w # "works" => tool[a] = "works"
  BY OneWay DEF Binaries
<1>2. r = Gitleaks(snapshot, way)
  BY DEF ResultOf
<1> HIDE DEF w, r
<1>3. way \in Defects(a) /\ tool[a] \in Defects(a)
  BY <1>1 DEF Installed, Binaries, Way, Defects, Troubles
<1>4. way = tool[a] \/ (way = w /\ tool[a] = "works")
  BY <1>1 DEF Way
<1>w. w # "works" => way = w
  BY <1>1 DEF Way
<1> HIDE DEF way
<1>5. snapshot \in SnapshotType /\ snapshot.flawed \subseteq snapshot.sources
  BY DEF Installed
<1>6. /\ Tells(a, r)
      /\ r.raised => r.records[a].counted = 0 /\ r.returned[a] = {}
      /\ Validates(r.records[a])
      /\ r.records[a].status \in {"complete", "empty"} => way \in {"blind", "works"}
  BY <1>2, <1>3, <1>5, GitleaksTells
<1>7. way \in {"blind", "works"} => DidItsWork(a, MetBy(a, ways))
  <2>1. way \in {"blind", "works"} =>
            MetBy(a, ways) = {} /\ tool["gitleaks"] \in {"works", "blind"}
    BY <1>1, <1>4, <1>w DEF Troubles
  <2>2. QED BY <2>1 DEF DidItsWork
<1>8. Cardinality({}) = 0 /\ a \notin SarifScanners
  BY FS_EmptySet DEF SarifScanners
<1>9. Sound(a, ways, r)
  BY <1>1, <1>6, <1>7, <1>8 DEF Sound, Tells
<1>10. QED BY <1>9 DEF r

(* What a built-in detector leaves is sound, given the troubles met in a run. *)
LEMMA WeakRngSound ==
    ASSUME Installed, NEW a \in {"weak_rng", "weak_rng_py"},
           NEW n, NEW ways \in Ways(a, n), NEW reads,
           \A i \in InTrouble(ways) : Made(ways, reads, i)
    PROVE  Sound(a, ways, ResultOf(a, AllWays(ways), reads))
<1> DEFINE w   == AllWays(ways)[<<"run", a>>]
           r   == ResultOf(a, AllWays(ways), reads)
<1>1. /\ w \in {"works"} \cup Troubles(a) /\ ScannersOf(a) = {a}
      /\ MetBy(a, ways) = {v \in {w} : v # "works"}
  BY OneWay
<1>2. r = WeakRng(a, snapshot, w)
  BY DEF ResultOf
<1> HIDE DEF w, r
<1>3. snapshot \in SnapshotType /\ snapshot.flawed \subseteq snapshot.sources
  BY DEF Installed
<1>4. /\ Tells(a, r)
      /\ r.raised => r.records[a].counted = 0 /\ r.returned[a] = {}
      /\ Validates(r.records[a])
      /\ r.records[a].status \in {"complete", "empty"} => w # "odd"
  BY <1>2, <1>3, WeakRngTells
<1>5. w # "odd" => DidItsWork(a, MetBy(a, ways))
  BY <1>1 DEF Troubles, DidItsWork, Binaries
<1>6. Cardinality({}) = 0 /\ a \notin SarifScanners
  BY FS_EmptySet DEF SarifScanners
<1>7. Sound(a, ways, r)
  BY <1>1, <1>4, <1>5, <1>6 DEF Sound, Tells
<1>8. QED BY <1>7 DEF r

(* The invocations of the dependency adapter. *)
LEMMA ScaInvocations ==
    ASSUME NEW i \in Invocations("sca")
    PROVE  \/ \E m \in RootManifests :
                /\ snapshot.manifests[m] # "none" /\ ProgramOf(i) = "pip-audit"
                /\ i \in {<<"full", m>>, <<"direct", m>>}
           \/ \E m \in Manifests : /\ snapshot.manifests[m] # "none"
                                   /\ i = <<"osv", m>> /\ ProgramOf(i) = "osv-scanner"
           \/ i = <<"root", "osv">> /\ ProgramOf(i) = "osv-scanner"
<1>1. \/ i \in {"full", "direct"} \X {m \in RootManifests : snapshot.manifests[m] # "none"}
      \/ i \in {"osv"} \X {m \in Manifests : snapshot.manifests[m] # "none"}
      \/ i = <<"root", "osv">>
  BY DEF Invocations
<1>2. CASE i \in {"full", "direct"} \X {m \in RootManifests : snapshot.manifests[m] # "none"}
  BY <1>2 DEF ProgramOf
<1>3. CASE i \in {"osv"} \X {m \in Manifests : snapshot.manifests[m] # "none"}
  BY <1>3 DEF ProgramOf
<1>4. CASE i = <<"root", "osv">>
  BY <1>4 DEF ProgramOf
<1>5. QED BY <1>1, <1>2, <1>3, <1>4

(* What the dependency adapter leaves is sound, given the troubles met in a run. *)
LEMMA ScaSound ==
    ASSUME Installed, NEW n, NEW ways \in Ways("sca", n), NEW reads \in BOOLEAN,
           \A i \in InTrouble(ways) : Made(ways, reads, i)
    PROVE  Sound("sca", ways, ResultOf("sca", AllWays(ways), reads))
<1> DEFINE all    == AllWays(ways)
           pa     == "pip-audit"
           os     == "osv-scanner"
           absent == tool[pa] = "absent"
           first  == [m \in Manifests |-> Way(pa, all[<<"full", m>>])]
           second == [m \in Manifests |-> Way(pa, all[<<"direct", m>>])]
           root   == Way(os, all[<<"root", "osv">>])
           byName == [m \in Manifests |-> Way(os, all[<<"osv", m>>])]
           pip    == PipAudit(snapshot, absent, first, second)
           osv    == OsvScanner(snapshot, reads, root, byName)
           r      == ResultOf("sca", all, reads)
           calls  == Invocations("sca")
<1>1. r = Sca(pip, osv)
  BY DEF ResultOf
<1>2. /\ DOMAIN ways = calls /\ InTrouble(ways) = {i \in calls : ways[i] # "works"}
      /\ \A i \in calls : ways[i] \in {"works"} \cup Troubles("sca")
      /\ \A i \in InTrouble(ways) : ways[i] \in Troubles("sca")
  BY WaysAre
<1>3. /\ <<"root", "osv">> \in calls
      /\ \A m \in RootManifests : snapshot.manifests[m] # "none" =>
            <<"full", m>> \in calls /\ <<"direct", m>> \in calls
      /\ \A m \in Manifests : snapshot.manifests[m] # "none" => <<"osv", m>> \in calls
  BY DEF Invocations
<1>4. /\ \A i \in calls : all[i] = ways[i]
      /\ \A i \in {"full", "direct", "osv"} \X Manifests :
            all[i] \in {"works"} \cup Troubles("sca") /\ (i \notin calls => all[i] = "works")
  BY <1>2, AllWaysAre
<1>5. Troubles("sca") = {"dies", "refuses", "silent", "garbled", "odd"}
  BY DEF Troubles
<1>6. /\ snapshot \in SnapshotType
      /\ tool[pa] \in Answered \cup {"absent"} /\ tool[os] \in Answered \cup {"absent"}
  BY <1>5 DEF Installed, Binaries, Defects, Answered
<1> HIDE DEF all, calls
<1>7. \A w \in {"works"} \cup Troubles("sca") :
        /\ ~absent => Way(pa, w) \in Answered
        /\ Way(os, w) \in Answered \cup {"absent"}
  BY <1>5, <1>6 DEF Way, Answered
<1>8. ~absent => \A m \in Manifests : first[m] \in Answered /\ second[m] \in Answered
  BY <1>4, <1>7
<1>9. root \in Answered \cup {"absent"}
  BY <1>2, <1>3, <1>4, <1>7
<1>10. absent \in BOOLEAN
  OBVIOUS
<1> HIDE DEF first, second, root, byName, absent, r
<1>11. /\ Tells(pa, pip) /\ Validates(pip.records[pa])
       /\ pip.raised => pip.records[pa].counted = 0
       /\ pip.records[pa].status \in {"complete", "empty"} =>
                /\ \A m \in RootManifests : snapshot.manifests[m] # "none" =>
                    \/ first[m] = "blind"
                    \/ first[m] = "works" /\ ~Unresolvable(snapshot.manifests[m])
                /\ ~absent /\ \E m \in RootManifests : snapshot.manifests[m] # "none"
  BY <1>6, <1>8, <1>10, PipTells
<1>12. /\ Tells(os, osv) /\ Validates(osv.records[os])
       /\ osv.raised => /\ osv.records[os].counted = 0
                        /\ \/ root = "odd"
                           \/ /\ NoSource(snapshot, reads)
                              /\ \E m \in Manifests : /\ snapshot.manifests[m] # "none"
                                                      /\ byName[m] = "odd"
       /\ osv.records[os].status \in {"complete", "empty"} =>
                root \in {"works", "blind"} /\ ~NoSource(snapshot, reads)
  BY <1>6, <1>9, OsvTells
<1> HIDE DEF pip, osv
<1>13. pip.records[pa].status \in {"complete", "empty"} => MetBy(pa, ways) = {}
  <2> SUFFICES ASSUME pip.records[pa].status \in {"complete", "empty"},
                      NEW i \in InTrouble(ways), ProgramOf(i) = pa
               PROVE  FALSE
    BY DEF MetBy
  <2>1. PICK m \in RootManifests :
            snapshot.manifests[m] # "none" /\ i \in {<<"full", m>>, <<"direct", m>>}
    BY <1>2, ScaInvocations DEF calls
  <2>2. /\ m \in Manifests /\ tool[pa] = "works"
        /\ i = <<"direct", m>> => \/ ways[<<"full", m>>] = "refuses"
                                  \/ Unresolvable(snapshot.manifests[m])
    BY <2>1, ScannersAssumption DEF Made, Binaries
  <2>3. first[m] = ways[<<"full", m>>] /\ ways[<<"full", m>>] \in {"works"} \cup Troubles("sca")
    BY <1>2, <1>3, <1>4, <2>1, <2>2 DEF first, Way
  <2>4. first[m] = "works" /\ ~Unresolvable(snapshot.manifests[m])
    BY <1>5, <1>11, <2>1, <2>3
  <2>5. i # <<"full", m>>
    BY <1>2, <2>3, <2>4
  <2>6. QED BY <2>1, <2>2, <2>3, <2>4, <2>5
<1>14. osv.records[os].status \in {"complete", "empty"} => MetBy(os, ways) = {}
  <2> SUFFICES ASSUME osv.records[os].status \in {"complete", "empty"},
                      NEW i \in InTrouble(ways), ProgramOf(i) = os
               PROVE  FALSE
    BY DEF MetBy
  <2>1. i = <<"root", "osv">> \/ \E m \in Manifests : i = <<"osv", m>>
    BY <1>2, ScaInvocations DEF calls
  <2>2. tool[os] = "works" /\ (i[1] = "osv" => NoSource(snapshot, reads))
    BY DEF Made, Binaries
  <2>3. i = <<"root", "osv">>
    BY <1>12, <2>1, <2>2
  <2>4. root = ways[i] /\ ways[i] \in Troubles("sca")
    BY <1>2, <1>3, <1>4, <2>2, <2>3 DEF root, Way
  <2>5. QED BY <1>5, <1>12, <2>4
<1>15. osv.raised => "odd" \in {tool[os]} \cup MetBy(os, ways)
  <2> SUFFICES ASSUME osv.raised, tool[os] # "odd" PROVE "odd" \in MetBy(os, ways)
    OBVIOUS
  <2>1. PICK i \in calls : i \in {<<"root", "osv">>} \cup ({"osv"} \X Manifests) /\ ways[i] = "odd"
    <3>1. CASE root = "odd"
      BY <1>3, <1>4, <3>1 DEF root, Way
    <3>2. CASE \E m \in Manifests : snapshot.manifests[m] # "none" /\ byName[m] = "odd"
      BY <1>3, <1>4, <3>2 DEF byName, Way
    <3>3. QED BY <1>12, <3>1, <3>2
  <2>2. i \in InTrouble(ways) /\ ProgramOf(i) = os
    BY <1>2, <2>1 DEF ProgramOf
  <2>3. QED BY <2>1, <2>2 DEF MetBy
<1>16. ScannersOf("sca") = {pa, os}
  BY DEF ScannersOf
<1>17. /\ r \in ResultType(ScannersOf("sca"))
       /\ \A x \in ScannersOf("sca") :
            /\ Validates(r.records[x])
            /\ r.records[x].status \in {"complete", "empty"} =>
                    r.records[x].counted = Cardinality(r.said[x])
       /\ r.records[pa] = pip.records[pa]
       /\ ~pip.raised => r.records[os] = osv.records[os]
       /\ pip.raised => r.records[os].status = "failed"
       /\ r.raised => \E x \in ScannersOf("sca") : r.records[x].status \in {"failed", "partial"}
       /\ ~r.raised /\ r.records[pa].status \notin {"failed", "partial"} =>
            r.said[pa] = r.returned[pa]
       /\ r.records[os].counted = Cardinality(r.returned[os])
       /\ r.records[pa].counted = Cardinality(r.returned[pa]) \/ osv.raised
  BY <1>1, <1>11, <1>12, ScaTells
<1>p. pip.records[pa].status \in {"complete", "empty"} => tool[pa] \in {"works", "blind"}
  <2> SUFFICES ASSUME pip.records[pa].status \in {"complete", "empty"}
               PROVE  tool[pa] \in {"works", "blind"}
    OBVIOUS
  <2>1. PICK m \in RootManifests : snapshot.manifests[m] # "none"
    BY <1>11
  <2>2. first[m] \in {"works", "blind"} /\ m \in Manifests
    BY <1>11, <2>1, ScannersAssumption
  <2>3. QED BY <2>2 DEF first, Way
<1>o. osv.records[os].status \in {"complete", "empty"} => tool[os] \in {"works", "blind"}
  BY <1>12 DEF root, Way
<1>18. \A x \in ScannersOf("sca") :
            r.records[x].status \in {"complete", "empty"} => DidItsWork(x, MetBy(x, ways))
  <2>1. r.records[pa].status \in {"complete", "empty"} => DidItsWork(pa, MetBy(pa, ways))
    BY <1>13, <1>p, <1>17 DEF DidItsWork
  <2>2. r.records[os].status \in {"complete", "empty"} => DidItsWork(os, MetBy(os, ways))
    BY <1>14, <1>o, <1>17 DEF DidItsWork
  <2>3. QED BY <1>16, <2>1, <2>2
<1>19. Sound("sca", ways, r)
  BY <1>15, <1>16, <1>17, <1>18 DEF Sound, SarifScanners
<1>20. QED BY <1>19 DEF r, all

(* The scanners that each adapter runs. *)
LEMMA AdaptersAre ==
    /\ ToSet(Adapters) = {"semgrep", "semgrep-supplemental", "sca", "gitleaks", "weak_rng",
                          "weak_rng_py"}
    /\ \A a \in ToSet(Adapters) : \E i \in 1 .. 6 : Adapters[i] = a
    /\ \A i \in 1 .. 6 : Adapters[i] \in ToSet(Adapters)
<1>1. \A i \in 1 .. 6 : i = 1 \/ i = 2 \/ i = 3 \/ i = 4 \/ i = 5 \/ i = 6
  OBVIOUS
<1>2. ToSet(Adapters) = {Adapters[i] : i \in 1 .. 6}
  BY TheAdapters DEF ToSet
<1>3. QED BY <1>1, <1>2, TheAdapters

(* What any adapter leaves is sound, given the troubles met in a run. *)
LEMMA AdapterSound ==
    ASSUME Installed, NEW a \in ToSet(Adapters), NEW n, NEW ways \in Ways(a, n),
           NEW reads \in BOOLEAN, \A i \in InTrouble(ways) : Made(ways, reads, i)
    PROVE  Sound(a, ways, ResultOf(a, AllWays(ways), reads))
<1>1. CASE a \in {"semgrep", "semgrep-supplemental"}
  BY <1>1, SemgrepSound
<1>2. CASE a = "gitleaks"
  BY <1>2, GitleaksSound
<1>3. CASE a \in {"weak_rng", "weak_rng_py"}
  BY <1>3, WeakRngSound
<1>4. CASE a = "sca"
  BY <1>4, ScaSound
<1>5. QED BY <1>1, <1>2, <1>3, <1>4, AdaptersAre

(* Adapters run in turn and meet finitely many troubles. *)
LEMMA FewTroubles ==
    ASSUME NEW a \in ToSet(Adapters), NEW n, NEW ways \in Ways(a, n)
    PROVE  Cardinality(InTrouble(ways)) \in Nat
<1>1. InTrouble(ways) \subseteq Invocations(a)
  BY WaysAre
<1>2. IsFiniteSet(Invocations(a))
  <2>1. CASE a # "sca"
    <3>1. Invocations(a) = {<<"run", a>>}
      BY <2>1 DEF Invocations
    <3>2. QED BY <3>1, FS_Singleton
  <2>2. CASE a = "sca"
    <3> DEFINE F == {"full", "direct"}
               O == {"osv"}
               R == {m \in RootManifests : snapshot.manifests[m] # "none"}
               M == {m \in Manifests : snapshot.manifests[m] # "none"}
               L == {<<"root", "osv">>}
    <3>1. IsFiniteSet(R) /\ IsFiniteSet(M)
      <4>1. R \subseteq Manifests /\ M \subseteq Manifests
        BY ScannersAssumption
      <4>2. QED BY <4>1, PlacesOf, FS_Subset
    <3>2. IsFiniteSet(F) /\ IsFiniteSet(O) /\ IsFiniteSet(L)
      <4>1. F = {"full"} \cup {"direct"}
        OBVIOUS
      <4>2. IsFiniteSet({"full"} \cup {"direct"})
        BY FS_Singleton, FS_AddElement
      <4>3. QED BY <4>1, <4>2, FS_Singleton
    <3>3. Invocations(a) = ((F \X R) \cup (O \X M)) \cup L
      BY <2>2 DEF Invocations
    <3> HIDE DEF F, O, R, M, L
    <3>4. IsFiniteSet(F \X R) /\ IsFiniteSet(O \X M)
      BY <3>1, <3>2, FS_Product
    <3>5. IsFiniteSet((F \X R) \cup (O \X M))
      BY <3>4, FS_Union
    <3>6. IsFiniteSet(((F \X R) \cup (O \X M)) \cup L)
      BY <3>2, <3>5, FS_Union
    <3>7. QED BY <3>3, <3>6
  <2>3. QED BY <2>1, <2>2
<1>3. IsFiniteSet(InTrouble(ways))
  BY <1>1, <1>2, FS_Subset
<1>4. QED BY <1>3, FS_CardinalityType

-----------------------------------------------------------------------------
(* The invariant of the scanners *)

(* What was left stays so, as long as it is not touched. *)
LEMMA LeftStays ==
    ASSUME NEW a, LeftSomehow(a), UNCHANGED env,
           \A x \in ScannersOf(a) : /\ evidence'[x] = evidence[x] /\ collected'[x] = collected[x]
                                    /\ printed'[x] = printed[x] /\ met'[x] = met[x]
    PROVE  LeftSomehow(a)'
<1>1. PICK ways \in Ways(a, MaxHitches), reads \in BOOLEAN : LeftBy(a, ways, reads)
  BY DEF LeftSomehow
<1>2. snapshot' = snapshot /\ tool' = tool /\ ruleset' = ruleset
  BY DEF env
<1>3. Ways(a, MaxHitches)' = Ways(a, MaxHitches)
  BY <1>2 DEF Ways, Invocations
<1>4. ResultOf(a, AllWays(ways), reads)' = ResultOf(a, AllWays(ways), reads)
  BY <1>2 DEF ResultOf, Way
<1>5. \A i : Made(ways, reads, i)' = Made(ways, reads, i)
  BY <1>2 DEF Made
<1>6. LeftBy(a, ways, reads)'
  BY <1>1, <1>4, <1>5 DEF LeftBy
<1>7. QED BY <1>3, <1>6 DEF LeftSomehow

(* Nor does it end a detection later, or write a file, what has not ended it when
   the files were collected. *)
LEMMA SunkStays ==
    ASSUME SunkFollows, UNCHANGED <<tool, enabled, artifact>>, phase' # "sunk",
           Scanned' => Scanned /\ phase # "sunk" /\ UNCHANGED evidence
    PROVE  SunkFollows'
<1>1. MissingFiles' = MissingFiles
  BY DEF MissingFiles
<1>2. Scanned' => MissingFiles = {} /\ \A x \in Scanners : Validates(evidence'[x])
  BY DEF SunkFollows
<1>3. QED BY <1>1, <1>2 DEF SunkFollows

(* The invariant holds to begin with. *)
LEMMA ScannersInitInv ==
    ASSUME ScannersInit PROVE ScannersInv
<1>1. PICK i \in Installations : tool = i.tool /\ ruleset = i.ruleset /\ enabled = i.enabled
  BY DEF ScannersInit
<1>2. i \in [tool : [Binaries -> UNION {Defects(b) : b \in Binaries}], ruleset : BOOLEAN,
             enabled : BOOLEAN]
  BY InstallationsAssumption
<1>3. i = [tool |-> tool, ruleset |-> ruleset, enabled |-> enabled]
  BY <1>1, <1>2
<1>4. NoRecords \in [Scanners -> ExecutionType]
  BY DEF NoRecords, ExecutionType, Execution
<1>5. ScannersTypeOK
  BY <1>3, <1>4, TheAdapters DEF ScannersInit, ScannersTypeOK, None
<1>6. /\ phase = "idle" /\ row = {} /\ ~Recorded
  BY DEF ScannersInit, Recorded
<1>7. ~Scanned /\ ~Skipped /\ \A a : ~HasRun(a)
  BY <1>6 DEF Scanned, Skipped, HasRun
<1>8. Placed /\ ArtifactFollows /\ StoreFollows
  BY <1>6, <1>7 DEF Placed, ArtifactFollows, StoreFollows
<1>9. SunkFollows
  <2>1. MissingFiles = SarifScanners
    BY DEF MissingFiles, ScannersInit
  <2>2. QED BY <1>6, <1>7, <2>1 DEF SunkFollows
<1>10. QED BY <1>5, <1>7, <1>8, <1>9 DEF ScannersInv

(* Starting the stage keeps the invariant. *)
LEMMA StartDetectKeeps ==
    ASSUME ScannersInv, StartDetect PROVE ScannersInv'
<1>1. ScannersTypeOK /\ Installed
  BY InstalledFollows DEF ScannersInv
<1>2. NoRecords \in [Scanners -> ExecutionType]
  BY DEF NoRecords, ExecutionType, Execution
<1>3. ScannersTypeOK'
  BY <1>1, <1>2, TheAdapters DEF ScannersTypeOK, StartDetect, env, None
<1>4. /\ phase' = (IF enabled THEN "scan" ELSE "disabled") /\ enabled' = enabled
      /\ row' = {} /\ at' = 0 /\ collected' = None /\ printed' = None
  BY DEF StartDetect, env
<1>5. ~Scanned' /\ ~Skipped' /\ ~Recorded'
  BY <1>4 DEF Scanned, Skipped, Recorded
<1>6. \A a : ~HasRun(a)'
  BY <1>4, <1>5 DEF HasRun
<1>7. Placed'
  BY <1>4, <1>5 DEF Placed, None
<1>8. ArtifactFollows' /\ StoreFollows'
  BY <1>4, <1>5, <1>6 DEF ArtifactFollows, StoreFollows
<1>9. SunkFollows'
  <2>1. SunkFollows /\ UNCHANGED <<tool, enabled, artifact>> /\ phase' # "sunk"
    BY <1>4 DEF ScannersInv, StartDetect, env
  <2>2. QED BY <1>5, <2>1, SunkStays
<1>10. QED BY <1>3, <1>6, <1>7, <1>8, <1>9 DEF ScannersInv

(* Skipping the scanners keeps the invariant. *)
LEMMA SkipScannersKeeps ==
    ASSUME ScannersInv, SkipScanners PROVE ScannersInv'
<1>1. ScannersTypeOK /\ Installed /\ Placed
  BY InstalledFollows DEF ScannersInv
<1>2. [x \in Scanners |-> Execution("disabled", FALSE, 0, 0)] \in [Scanners -> ExecutionType]
  BY DEF ExecutionType, Execution
<1>3. ScannersTypeOK'
  BY <1>1, <1>2 DEF ScannersTypeOK, SkipScanners, env
<1>4. /\ phase' = "plan" /\ ~enabled /\ enabled' = enabled /\ row' = {}
      /\ collected' = None /\ printed' = None /\ tool["semgrep"] # "unwritable" /\ tool' = tool
  BY <1>1 DEF SkipScanners, env, Placed
<1>5. ~Scanned' /\ ~Recorded'
  BY <1>4 DEF Scanned, Recorded
<1>6. \A a : ~HasRun(a)'
  BY <1>4, <1>5 DEF HasRun
<1>7. Placed'
  <2>1. artifact'["semgrep"] = [status |-> "disabled", found |-> {}]
    BY <1>1 DEF SkipScanners, ScannersTypeOK, SarifScanners
  <2>2. QED BY <1>4, <2>1 DEF Placed, None, SkipScanners
<1>8. ArtifactFollows' /\ StoreFollows' /\ SunkFollows'
  BY <1>4, <1>5, <1>6 DEF ArtifactFollows, StoreFollows, SunkFollows
<1>9. QED BY <1>3, <1>6, <1>7, <1>8 DEF ScannersInv

(* A file that cannot be written keeps the invariant. *)
LEMMA SkipFailsKeeps ==
    ASSUME ScannersInv, SkipFails PROVE ScannersInv'
<1>1. ScannersTypeOK /\ Placed /\ SunkFollows
  BY DEF ScannersInv
<1>2. /\ phase = "disabled" /\ phase' = "sunk" /\ ~enabled /\ row = {} /\ hitches' \in Nat
      /\ met' = [met EXCEPT !["semgrep"] = {"unwritable"}]
      /\ UNCHANGED <<env, at, evidence, collected, artifact, store, row, planned, printed,
                     runs, deaths>>
  BY <1>1 DEF SkipFails, Placed, ScannersTypeOK
<1>3. ScannersTypeOK'
  BY <1>1, <1>2 DEF ScannersTypeOK, env
<1>4. ~Scanned' /\ ~Skipped' /\ ~Recorded'
  BY <1>2 DEF Scanned, Skipped, Recorded, env
<1>5. \A a : ~HasRun(a)'
  BY <1>2, <1>4 DEF HasRun
<1>6. Placed' /\ ArtifactFollows' /\ StoreFollows'
  BY <1>2, <1>4, <1>5 DEF Placed, ArtifactFollows, StoreFollows
<1>7. SunkFollows'
  <2>1. MissingFiles' = MissingFiles /\ tool' = tool
    BY <1>2 DEF MissingFiles, env
  <2>2. "unwritable" \in met'["semgrep"]
    BY <1>1, <1>2, TheScanners DEF ScannersTypeOK
  <2>3. Unwritable'
    BY <2>2 DEF Unwritable
  <2>4. QED BY <1>1, <1>4, <2>1, <2>3 DEF SunkFollows
<1>8. QED BY <1>3, <1>5, <1>6, <1>7 DEF ScannersInv

(* Running the next adapter keeps the invariant. *)
LEMMA ScanNextKeeps ==
    ASSUME ScannersInv, ScanNext PROVE ScannersInv'
<1>1. ScannersTypeOK /\ Installed /\ Placed
  BY InstalledFollows DEF ScannersInv
<1>0. PICK a : a = Adapters[at + 1]
  OBVIOUS
<1>2. PICK ways \in Ways(a, MaxHitches - hitches), reads \in BOOLEAN :
        /\ \A i \in InTrouble(ways) : Made(ways, reads, i)
        /\ Run(a, ResultOf(a, AllWays(ways), reads))
        /\ met' = [x \in Scanners |-> IF x \in ScannersOf(a) THEN MetBy(x, ways) ELSE met[x]]
        /\ hitches' = hitches + Cardinality(InTrouble(ways))
  BY <1>0 DEF ScanNext
<1>3. /\ phase = "scan" /\ phase' = "scan" /\ at \in 0 .. 5 /\ at' = at + 1 /\ at + 1 \in 1 .. 6
      /\ UNCHANGED <<env, store, row, planned, runs, deaths>>
  BY <1>1, TheAdapters DEF ScanNext, ScannersTypeOK
<1>4. a \in ToSet(Adapters) /\ ScannersOf(a) \subseteq Scanners
  BY <1>0, <1>3, AdaptersAre, ScannerHasAdapter
<1>r. PICK r : r = ResultOf(a, AllWays(ways), reads)
  OBVIOUS
<1>5. Sound(a, ways, r)
  BY <1>1, <1>2, <1>4, <1>r, AdapterSound
<1>6. LeftBy(a, ways, reads)' <=>
        \A x \in ScannersOf(a) : /\ evidence'[x] = r.records[x] /\ collected'[x] = r.returned[x]
                                 /\ printed'[x] = r.said[x] /\ met'[x] = MetBy(x, ways)
  <2>1. snapshot' = snapshot /\ tool' = tool /\ ruleset' = ruleset
    BY <1>3 DEF env
  <2>2. ResultOf(a, AllWays(ways), reads)' = r
    BY <1>r, <2>1 DEF ResultOf, Way
  <2>3. \A i \in InTrouble(ways) : Made(ways, reads, i)'
    BY <1>2, <2>1 DEF Made
  <2>4. QED BY <2>2, <2>3 DEF LeftBy
<1>7. /\ evidence' = Over(r.records, evidence) /\ collected' = Over(r.returned, collected)
      /\ printed' = Over(r.said, printed)
      /\ IF a \in SarifScanners THEN WriteArtifact(a, r) ELSE UNCHANGED artifact
  BY <1>2, <1>r DEF Run
<1>8. /\ DOMAIN r.records = ScannersOf(a) /\ r.records \in [ScannersOf(a) -> ExecutionType]
      /\ DOMAIN r.returned = ScannersOf(a) /\ r.returned \in [ScannersOf(a) -> SUBSET CandidateType]
      /\ DOMAIN r.said = ScannersOf(a) /\ r.said \in [ScannersOf(a) -> SUBSET CandidateType]
  BY <1>5 DEF Sound, ResultType
<1>9. /\ evidence \in [Scanners -> ExecutionType]
      /\ collected \in [Scanners -> SUBSET CandidateType]
      /\ printed \in [Scanners -> SUBSET CandidateType]
      /\ DOMAIN artifact = SarifScanners
      /\ \A x \in SarifScanners : artifact[x].found \subseteq CandidateType
  BY <1>1 DEF ScannersTypeOK
<1>10. /\ evidence' \in [Scanners -> ExecutionType]
       /\ collected' \in [Scanners -> SUBSET CandidateType]
       /\ printed' \in [Scanners -> SUBSET CandidateType]
  BY <1>4, <1>7, <1>8, <1>9 DEF Over
<1>11. \A x \in ScannersOf(a) : /\ evidence'[x] = r.records[x] /\ collected'[x] = r.returned[x]
                                /\ printed'[x] = r.said[x] /\ met'[x] = MetBy(x, ways)
  <2>1. \A x \in ScannersOf(a) : met'[x] = MetBy(x, ways)
    BY <1>2, <1>4
  <2>2. QED BY <1>7, <1>8, <2>1 DEF Over
<1>12. \A x \in Scanners \ ScannersOf(a) :
            /\ evidence'[x] = evidence[x] /\ collected'[x] = collected[x]
            /\ printed'[x] = printed[x] /\ met'[x] = met[x]
  <2>1. \A x \in Scanners \ ScannersOf(a) : met'[x] = met[x]
    BY <1>2
  <2>2. QED BY <1>7, <1>8, <1>9, <2>1 DEF Over
<1>13. a \in SarifScanners =>
         artifact' = IF r.raised THEN artifact
                     ELSE [artifact EXCEPT ![a] = [status |-> evidence'[a].status,
                                                   found |-> collected'[a]]]
  BY <1>7, <1>11 DEF WriteArtifact, ScannersOf, SarifScanners
<1>14. /\ DOMAIN artifact' = SarifScanners
       /\ \A x \in SarifScanners : artifact'[x].found \subseteq CandidateType
  <2>1. CASE a \in SarifScanners /\ ~r.raised
    <3>1. a \in Scanners
      BY <2>1, TheScanners DEF SarifScanners
    <3>2. QED BY <1>9, <1>10, <1>13, <2>1, <3>1
  <2>2. CASE ~(a \in SarifScanners /\ ~r.raised)
    BY <1>7, <1>9, <1>13, <2>2
  <2>3. QED BY <2>1, <2>2
<1>15. ScannersTypeOK'
  <2>1. hitches' \in Nat
    BY <1>1, <1>2, <1>4, FewTroubles DEF ScannersTypeOK
  <2>2. DOMAIN met' = Scanners
    BY <1>2
  <2>3. at' \in 0 .. Len(Adapters)
    BY <1>3, TheAdapters
  <2>4. QED BY <1>1, <1>3, <1>10, <1>14, <2>1, <2>2, <2>3 DEF ScannersTypeOK, env
<1>16. enabled /\ enabled' = enabled /\ row = {} /\ row' = {}
  BY <1>1, <1>3 DEF Placed, env
<1>17. ~Scanned' /\ ~Skipped' /\ ~Scanned
  BY <1>3, <1>16 DEF Scanned, Skipped, Recorded
<1>18. ASSUME NEW b \in ToSet(Adapters), HasRun(b)', b # a
       PROVE  /\ HasRun(b) /\ \A x \in ScannersOf(b) : x \in Scanners \ ScannersOf(a)
  <2>1. PICK i \in 1 .. at + 1 : Adapters[i] = b
    BY <1>3, <1>17, <1>18 DEF HasRun
  <2>2. i # at + 1
    BY <1>0, <1>18, <2>1
  <2>3. i \in 1 .. at /\ i \in 1 .. 6
    BY <1>3, <2>1, <2>2
  <2>4. HasRun(b)
    BY <1>3, <2>1, <2>3 DEF HasRun
  <2>5. \A x \in ScannersOf(b) : x \in Scanners /\ x \notin ScannersOf(a)
    BY <1>0, <1>3, <2>1, <2>2, <2>3, ScannerHasAdapter
  <2>6. QED BY <2>4, <2>5
<1>19. ASSUME NEW b \in ToSet(Adapters), HasRun(b)' PROVE LeftSomehow(b)'
  <2>1. CASE b = a
    <3>1. LeftBy(a, ways, reads)'
      BY <1>6, <1>11
    <3>2. Ways(a, MaxHitches)' = Ways(a, MaxHitches)
      BY <1>3 DEF Ways, Invocations, env
    <3>3. ways \in Ways(a, MaxHitches)
      <4>1. MaxHitches - hitches <= MaxHitches /\ MaxHitches \in Int /\ MaxHitches - hitches \in Int
        BY <1>1, ScannersAssumption DEF ScannersTypeOK
      <4>2. QED BY <1>2, <4>1, MoreWays
    <3>4. QED BY <2>1, <3>1, <3>2, <3>3 DEF LeftSomehow
  <2>2. CASE b # a
    <3>1. HasRun(b) /\ \A x \in ScannersOf(b) : x \in Scanners \ ScannersOf(a)
      BY <1>18, <1>19, <2>2
    <3>2. LeftSomehow(b)
      BY <3>1 DEF ScannersInv
    <3>3. QED BY <1>3, <1>12, <3>1, <3>2, LeftStays
  <2>3. QED BY <2>1, <2>2
<1>20. Placed'
  BY <1>3, <1>16, <1>17 DEF Placed
<1>21. ArtifactFollows'
  <2> SUFFICES ASSUME HasRun("semgrep")', evidence'["semgrep"].status # "failed"
               PROVE  artifact'["semgrep"] = [status |-> evidence'["semgrep"].status,
                                              found |-> collected'["semgrep"]]
    BY DEF ArtifactFollows
  <2>1. CASE a = "semgrep"
    <3>1. ~r.raised /\ a \in SarifScanners
      BY <1>5, <1>11, <2>1 DEF Sound, ScannersOf, SarifScanners
    <3>2. QED BY <1>9, <1>13, <2>1, <3>1
  <2>2. CASE a # "semgrep"
    <3>1. "semgrep" \in ToSet(Adapters) /\ "semgrep" \in ScannersOf("semgrep")
      BY AdaptersAre DEF ScannersOf
    <3>2. HasRun("semgrep") /\ "semgrep" \in Scanners \ ScannersOf(a)
      BY <1>18, <2>2, <3>1
    <3>3. /\ evidence'["semgrep"] = evidence["semgrep"]
          /\ collected'["semgrep"] = collected["semgrep"]
      BY <1>12, <3>2
    <3>s. artifact'["semgrep"] = artifact["semgrep"]
      <4>1. CASE a \in SarifScanners /\ ~r.raised
        BY <1>9, <1>13, <2>2, <4>1 DEF SarifScanners
      <4>2. CASE ~(a \in SarifScanners /\ ~r.raised)
        BY <1>7, <1>13, <4>2
      <4>3. QED BY <4>1, <4>2
    <3>4. ArtifactFollows
      BY DEF ScannersInv
    <3>5. QED BY <3>2, <3>3, <3>s, <3>4 DEF ArtifactFollows
  <2>3. QED BY <2>1, <2>2
<1>22. StoreFollows'
  BY <1>3, <1>17 DEF StoreFollows
<1>23. SunkFollows'
  <2>1. tool["semgrep"] = "unwritable" => artifact' = artifact
    BY <1>5, <1>7, <1>13 DEF Sound
  <2>2. tool["semgrep"] = "unwritable" => MissingFiles' = SarifScanners
    BY <2>1 DEF ScannersInv, SunkFollows, MissingFiles
  <2>3. tool' = tool
    BY <1>3 DEF env
  <2>4. QED BY <1>3, <1>17, <2>2, <2>3 DEF SunkFollows
<1>24. QED BY <1>15, <1>19, <1>20, <1>21, <1>22, <1>23 DEF ScannersInv

(* Collecting what an adapter returned keeps the invariant. *)
LEMMA CollectKeeps ==
    ASSUME ScannersInv, Collect PROVE ScannersInv'
<1>1. ScannersTypeOK /\ Placed /\ SunkFollows
  BY DEF ScannersInv
<1>2. /\ phase = "scan" /\ at = 6 /\ at' = 0 /\ row = {} /\ enabled
      /\ phase' \in {"persist", "sunk"}
      /\ UNCHANGED <<env, evidence, collected, store, row, planned, printed, met,
                     hitches, runs, deaths>>
  BY <1>1, TheAdapters DEF Collect, Placed
<1>l. PICK left \in SUBSET MissingFiles :
        /\ left # {} => Unwritable
        /\ tool["semgrep"] = "unwritable" => left = MissingFiles
        /\ artifact' = [x \in SarifScanners |->
                            IF x \in MissingFiles \ left
                            THEN [status |-> evidence[x].status, found |-> {}] ELSE artifact[x]]
        /\ phase' = IF left = {} /\ \A x \in Scanners : Validates(evidence[x]) THEN "persist"
                    ELSE "sunk"
  BY DEF Collect
<1>m. /\ MissingFiles' = left
      /\ DOMAIN artifact' = SarifScanners
      /\ \A x \in SarifScanners : artifact'[x].found \subseteq CandidateType
      /\ \A x \in SarifScanners : artifact[x].status # "none" => artifact'[x] = artifact[x]
  <2>1. \A x \in SarifScanners : evidence[x].status # "none"
    BY <1>1, TheScanners DEF ScannersTypeOK, ExecutionType, SarifScanners
  <2>2. \A x \in SarifScanners :
            /\ x \in MissingFiles \ left =>
                    artifact'[x].status = evidence[x].status /\ artifact'[x].found = {}
            /\ x \notin MissingFiles \ left => artifact'[x] = artifact[x]
    BY <1>l
  <2>3. \A x \in SarifScanners : artifact'[x].status = "none" <=> x \in left
    BY <2>1, <2>2 DEF MissingFiles
  <2>4. MissingFiles' = left
    BY <2>3 DEF MissingFiles
  <2>5. DOMAIN artifact' = SarifScanners
    BY <1>l
  <2>6. \A x \in SarifScanners : artifact'[x].found \subseteq CandidateType
    BY <1>1, <2>2 DEF ScannersTypeOK
  <2>7. QED BY <2>2, <2>4, <2>5, <2>6 DEF MissingFiles
<1>3. ScannersTypeOK'
  BY <1>1, <1>2, <1>m, TheAdapters DEF ScannersTypeOK, env
<1>4. \A a \in ToSet(Adapters) : HasRun(a)
  BY <1>2, AdaptersAre DEF HasRun
<1>5. Scanned' /\ ~Skipped'
  BY <1>2 DEF Scanned, Skipped, env
<1>6. \A a \in ToSet(Adapters) : LeftSomehow(a)'
  BY <1>2, <1>4, LeftStays DEF ScannersInv
<1>7. Placed'
  BY <1>1, <1>2, <1>5 DEF Placed, env
<1>8. ArtifactFollows'
  <2>1. HasRun("semgrep")
    BY <1>4, AdaptersAre
  <2>2. ArtifactFollows
    BY DEF ScannersInv
  <2>3. "semgrep" \in SarifScanners /\ evidence["semgrep"].status # "none"
    BY <1>1, TheScanners DEF SarifScanners, ScannersTypeOK, ExecutionType
  <2>4. QED BY <1>2, <1>m, <2>1, <2>2, <2>3 DEF ArtifactFollows
<1>9. StoreFollows'
  BY <1>2, <1>5 DEF StoreFollows
<1>10. SunkFollows'
  <2>1. /\ enabled' = enabled /\ tool' = tool /\ (Unwritable' <=> Unwritable)
        /\ evidence' = evidence
    BY <1>2 DEF env, Unwritable
  <2>2. phase' = "sunk" <=> (left # {} \/ \E x \in Scanners : ~Validates(evidence[x]))
    BY <1>l
  <2>3. QED BY <1>1, <1>2, <1>l, <1>m, <2>1, <2>2 DEF SunkFollows
<1>11. QED BY <1>3, <1>6, <1>7, <1>8, <1>9, <1>10 DEF ScannersInv

(* Storing what was collected keeps the invariant. *)
LEMMA PersistNextKeeps ==
    ASSUME ScannersInv, PersistNext PROVE ScannersInv'
<1>1. ScannersTypeOK /\ Placed /\ ArtifactFollows /\ StoreFollows
  BY DEF ScannersInv
<1>2. /\ phase = "persist" /\ at \in 0 .. 5 /\ at' = at + 1 /\ at + 1 \in 1 .. 6
      /\ row = {} /\ enabled
      /\ phase' = (IF at' = 6 THEN "plan" ELSE "persist")
      /\ store' = store \cup UNION {collected[x] : x \in ScannersOf(Adapters[at + 1])}
      /\ UNCHANGED <<env, evidence, collected, artifact, row, planned, printed, met,
                     hitches, runs, deaths>>
  BY <1>1, TheAdapters DEF PersistNext, Placed, ScannersTypeOK
<1>3. ScannersTypeOK'
  <2>1. ScannersOf(Adapters[at + 1]) \subseteq Scanners
    BY <1>2, ScannerHasAdapter
  <2>2. store' \subseteq CandidateType
    BY <1>1, <1>2, <2>1 DEF ScannersTypeOK
  <2>3. QED BY <1>1, <1>2, <2>2, TheAdapters DEF ScannersTypeOK, env
<1>4. Scanned /\ Scanned' /\ ~Skipped'
  BY <1>2 DEF Scanned, Skipped, env
<1>5. \A a \in ToSet(Adapters) : LeftSomehow(a)'
  BY <1>2, <1>4, LeftStays DEF ScannersInv, HasRun
<1>6. Placed'
  BY <1>1, <1>2, <1>4 DEF Placed, env
<1>7. ArtifactFollows'
  BY <1>1, <1>2, <1>4 DEF ArtifactFollows, HasRun
<1>8. \A i \in 1 .. at' : \A x \in ScannersOf(Adapters[i]) : collected'[x] \subseteq store'
  <2> SUFFICES ASSUME NEW i \in 1 .. at + 1, NEW x \in ScannersOf(Adapters[i])
               PROVE  collected[x] \subseteq store'
    BY <1>2
  <2>1. CASE i = at + 1
    BY <1>2, <2>1
  <2>2. CASE i # at + 1
    <3>1. i \in 1 .. at
      BY <1>2, <2>2
    <3>2. QED BY <1>1, <1>2, <3>1 DEF StoreFollows
  <2>3. QED BY <2>1, <2>2
<1>9. phase' = "plan" => \A x \in Scanners : collected'[x] \subseteq store'
  BY <1>2, <1>8, ScannerHasAdapter
<1>10. StoreFollows'
  BY <1>2, <1>8, <1>9 DEF StoreFollows
<1>11. SunkFollows'
  <2>1. SunkFollows /\ UNCHANGED <<tool, enabled, artifact, evidence>> /\ phase' # "sunk"
    BY <1>2 DEF ScannersInv, env
  <2>2. QED BY <1>2, <1>4, <2>1, SunkStays
<1>12. QED BY <1>3, <1>5, <1>6, <1>7, <1>10, <1>11 DEF ScannersInv

(* Planning the regions keeps the invariant. *)
LEMMA PlanRegionsKeeps ==
    ASSUME ScannersInv, PlanRegions PROVE ScannersInv'
<1>1. ScannersTypeOK /\ Placed /\ ArtifactFollows /\ StoreFollows
  BY DEF ScannersInv
<1>2. /\ phase = "plan" /\ phase' = "model" /\ row = {}
      /\ UNCHANGED <<env, at, evidence, collected, artifact, store, row, printed, met,
                     hitches, runs, deaths>>
  BY <1>1 DEF PlanRegions, Placed
<1>3. ScannersTypeOK'
  BY <1>1, <1>2 DEF ScannersTypeOK, env
<1>4. /\ Scanned = enabled /\ Scanned' = enabled /\ Skipped = ~enabled /\ Skipped' = ~enabled
      /\ enabled \in BOOLEAN
  <2>1. Installed
    BY <1>1, InstalledFollows
  <2>2. QED BY <1>2, <2>1 DEF Scanned, Skipped, env, Installed
<1>5. \A a : HasRun(a) = enabled /\ HasRun(a)' = enabled
  BY <1>2, <1>4 DEF HasRun
<1>6. ASSUME NEW a \in ToSet(Adapters), HasRun(a)' PROVE LeftSomehow(a)'
  <2>1. LeftSomehow(a)
    BY <1>5, <1>6 DEF ScannersInv
  <2>2. QED BY <1>2, <2>1, LeftStays
<1>7. Placed'
  BY <1>1, <1>2, <1>4 DEF Placed, env
<1>8. ArtifactFollows'
  BY <1>1, <1>2, <1>5 DEF ArtifactFollows
<1>9. StoreFollows'
  BY <1>1, <1>2, <1>4 DEF StoreFollows
<1>10. SunkFollows'
  <2>1. SunkFollows /\ UNCHANGED <<tool, enabled, artifact, evidence>> /\ phase' # "sunk"
    BY <1>2 DEF ScannersInv, env
  <2>2. QED BY <1>2, <1>4, <2>1, SunkStays
<1>11. QED BY <1>3, <1>6, <1>7, <1>8, <1>9, <1>10 DEF ScannersInv

(* Recording the stage keeps the invariant. *)
LEMMA RecordStageKeeps ==
    ASSUME ScannersInv, RecordStage PROVE ScannersInv'
<1>1. ScannersTypeOK /\ Placed /\ ArtifactFollows /\ StoreFollows /\ Installed
  BY InstalledFollows DEF ScannersInv
<1> DEFINE r == [checked |-> enabled, missing |-> {b \in Binaries : tool[b] = "absent"},
                 evidence |-> evidence]
<1>2. /\ phase = "model" /\ phase' = "idle" /\ row = {} /\ row' = {r}
      /\ UNCHANGED <<env, at, evidence, collected, artifact, store, planned, printed, met,
                     hitches, runs, deaths>>
  BY <1>1 DEF RecordStage, Placed
<1>3. ScannersTypeOK'
  <2>1. r \in [checked : BOOLEAN, missing : SUBSET Binaries, evidence : [Scanners -> ExecutionType]]
    BY <1>1 DEF ScannersTypeOK, Installed
  <2> HIDE DEF r
  <2>2. QED BY <1>1, <1>2, <2>1 DEF ScannersTypeOK, env
<1>4. /\ Scanned = enabled /\ Scanned' = enabled /\ Skipped = ~enabled /\ Skipped' = ~enabled
  <2> HIDE DEF r
  <2>1. QED BY <1>1, <1>2 DEF Scanned, Skipped, Recorded, env, Installed
<1>5. \A a : HasRun(a) = enabled /\ HasRun(a)' = enabled
  BY <1>1, <1>2, <1>4 DEF HasRun, Installed
<1>6. ASSUME NEW a \in ToSet(Adapters), HasRun(a)' PROVE LeftSomehow(a)'
  <2>1. LeftSomehow(a)
    BY <1>5, <1>6 DEF ScannersInv
  <2>2. QED BY <1>2, <2>1, LeftStays
<1>7. Placed'
  <2>1. \A k \in row' :
            k = [checked |-> enabled', missing |-> {b \in Binaries : tool'[b] = "absent"},
                 evidence |-> evidence']
    BY <1>2 DEF env
  <2> HIDE DEF r
  <2>2. QED BY <1>1, <1>2, <1>4, <2>1 DEF Placed, env
<1>8. ArtifactFollows'
  BY <1>1, <1>2, <1>5 DEF ArtifactFollows
<1>9. StoreFollows'
  BY <1>1, <1>2, <1>4 DEF StoreFollows
<1>10. SunkFollows'
  <2>1. SunkFollows /\ UNCHANGED <<tool, enabled, artifact, evidence>> /\ phase' # "sunk"
    BY <1>2 DEF ScannersInv, env
  <2>2. QED BY <1>2, <1>4, <2>1, SunkStays
<1>11. QED BY <1>3, <1>6, <1>7, <1>8, <1>9, <1>10 DEF ScannersInv

(* Giving up keeps the invariant. *)
LEMMA GiveUpKeeps ==
    ASSUME ScannersInv, phase # "idle", GiveUp, deaths' \in Nat PROVE ScannersInv'
<1>1. ScannersTypeOK /\ Placed /\ Installed
  BY InstalledFollows DEF ScannersInv
<1>2. NoRecords \in [Scanners -> ExecutionType]
  BY DEF NoRecords, ExecutionType, Execution
<1>3. ScannersTypeOK'
  BY <1>1, <1>2, TheAdapters DEF ScannersTypeOK, GiveUp, env, None
<1>4. phase' = "idle" /\ row' = {}
  BY <1>1 DEF Placed, GiveUp
<1>5. ~Scanned' /\ ~Skipped' /\ ~Recorded'
  BY <1>4 DEF Scanned, Skipped, Recorded
<1>6. \A a : ~HasRun(a)'
  BY <1>4, <1>5 DEF HasRun
<1>7. Placed' /\ ArtifactFollows' /\ StoreFollows'
  BY <1>4, <1>5, <1>6 DEF Placed, ArtifactFollows, StoreFollows
<1>8. SunkFollows'
  <2>1. SunkFollows /\ UNCHANGED <<tool, enabled, artifact>> /\ phase' # "sunk"
    BY <1>4 DEF ScannersInv, GiveUp, env
  <2>2. QED BY <1>5, <2>1, SunkStays
<1>9. QED BY <1>3, <1>6, <1>7, <1>8 DEF ScannersInv

(* A step of anything else keeps the invariant. *)
LEMMA StutterKeepsScanners ==
    ASSUME ScannersInv, UNCHANGED scannersVars PROVE ScannersInv'
<1>1. ScannersTypeOK /\ Placed /\ ArtifactFollows /\ SunkFollows /\ StoreFollows
  BY DEF ScannersInv
<1>2. UNCHANGED <<env, phase, at, evidence, collected, artifact, store, row, printed, met,
                  hitches, runs, deaths>>
  BY DEF scannersVars
<1>3. ScannersTypeOK' /\ Placed'
  BY <1>1, <1>2 DEF ScannersTypeOK, Placed, Skipped, Recorded, env
<1>4. \A a : HasRun(a)' <=> HasRun(a)
  BY <1>2 DEF HasRun, Scanned, Recorded, env
<1>5. ArtifactFollows' /\ StoreFollows'
  BY <1>1, <1>2, <1>4 DEF ArtifactFollows, StoreFollows, Scanned, Recorded, env
<1>6. ASSUME NEW a \in ToSet(Adapters), HasRun(a)' PROVE LeftSomehow(a)'
  <2>1. LeftSomehow(a)
    BY <1>4, <1>6 DEF ScannersInv
  <2>2. QED BY <1>2, <2>1, LeftStays
<1>7. SunkFollows'
  <2>1. /\ MissingFiles' = MissingFiles /\ (Unwritable' <=> Unwritable)
        /\ (Scanned' <=> Scanned)
    BY <1>2 DEF MissingFiles, Unwritable, Scanned, Recorded, env
  <2>2. QED BY <1>1, <1>2, <2>1 DEF SunkFollows, env
<1>8. QED BY <1>3, <1>5, <1>6, <1>7 DEF ScannersInv

(* Every step keeps the invariant. *)
LEMMA ScannersStepKeeps ==
    ASSUME ScannersInv, [ScannersNext]_scannersVars PROVE ScannersInv'
<1>1. CASE StartDetect
  BY <1>1, StartDetectKeeps
<1>2. CASE SkipScanners \/ SkipFails
  BY <1>2, SkipScannersKeeps, SkipFailsKeeps
<1>3. CASE ScanNext
  BY <1>3, ScanNextKeeps
<1>4. CASE Collect
  BY <1>4, CollectKeeps
<1>5. CASE PersistNext
  BY <1>5, PersistNextKeeps
<1>6. CASE PlanRegions
  BY <1>6, PlanRegionsKeeps
<1>7. CASE RecordStage
  BY <1>7, RecordStageKeeps
<1>8. CASE Raise \/ Die
  <2>1. ScannersTypeOK
    BY DEF ScannersInv
  <2>2. phase # "idle" /\ GiveUp /\ deaths' \in Nat
    BY <1>8, <2>1 DEF Raise, Die, ScannersTypeOK
  <2>3. QED BY <2>2, GiveUpKeeps
<1>9. CASE UNCHANGED scannersVars
  BY <1>9, StutterKeepsScanners
<1>10. QED BY <1>1, <1>2, <1>3, <1>4, <1>5, <1>6, <1>7, <1>8, <1>9 DEF ScannersNext

-----------------------------------------------------------------------------
(* Every step of the scanners keeps the invariant: what an adapter left is known
   as a whole, from the ways that its invocations went. *)
THEOREM ScannersInvariant == ScannersSpec => []ScannersInv
<1>1. ScannersInit => ScannersInv
  BY ScannersInitInv
<1>2. ScannersInv /\ [ScannersNext]_scannersVars => ScannersInv'
  BY ScannersStepKeeps
<1>3. QED BY <1>1, <1>2, PTL DEF ScannersSpec

(* The variables of the scanners always hold what their types say. *)
THEOREM ScannersTyped == ScannersSpec => []ScannersTypeOK
<1>1. ScannersInv => ScannersTypeOK
  BY DEF ScannersInv
<1>2. QED BY <1>1, ScannersInvariant, PTL

(* What is known of a scanner whose adapter has run. *)
LEMMA ScannerSound ==
    ASSUME ScannersInv, NEW a \in ToSet(Adapters), HasRun(a)
    PROVE  /\ \A x \in ScannersOf(a) :
              LET e == evidence[x] IN
              /\ \/ Validates(e)
                 \/ /\ x \in SarifScanners
                    /\ "silent" \in {tool["semgrep"]} \cup met[x]
              /\ Validates(e) /\ e.status \in {"complete", "empty"} =>
                    e.counted = Cardinality(printed[x]) /\ (WentWell(x) \/ CutShort(x))
              /\ \/ e.counted = Cardinality(collected[x])
                 \/ x = "pip-audit" /\ "odd" \in {tool["osv-scanner"]} \cup met["osv-scanner"]
                 \/ /\ x \in SarifScanners
                    /\ "unwritable" \in {tool["semgrep"]} \cup met[x]
           /\ (\A x \in ScannersOf(a) : evidence[x].status \notin {"failed", "partial"}) =>
                    \A x \in ScannersOf(a) \ {"osv-scanner"} : printed[x] = collected[x]
<1>1. LeftSomehow(a) /\ Installed
  BY InstalledFollows DEF ScannersInv
<1>2. PICK ways \in Ways(a, MaxHitches), reads \in BOOLEAN : LeftBy(a, ways, reads)
  BY <1>1 DEF LeftSomehow
<1>3. PICK r : r = ResultOf(a, AllWays(ways), reads)
  OBVIOUS
<1>4. /\ \A i \in InTrouble(ways) : Made(ways, reads, i)
      /\ \A x \in ScannersOf(a) : /\ evidence[x] = r.records[x] /\ collected[x] = r.returned[x]
                                  /\ printed[x] = r.said[x] /\ met[x] = MetBy(x, ways)
  BY <1>2, <1>3 DEF LeftBy
<1>5. Sound(a, ways, r)
  BY <1>1, <1>3, <1>4, AdapterSound
<1>6. "pip-audit" \in ScannersOf(a) => "osv-scanner" \in ScannersOf(a)
  BY AdaptersAre DEF ScannersOf
<1>7. \A x \in ScannersOf(a) : DidItsWork(x, MetBy(x, ways)) => WentWell(x) \/ CutShort(x)
  BY <1>4, WorkDone
<1>8. QED BY <1>4, <1>5, <1>6, <1>7 DEF Sound

(* The detection goes on after whatever the programs print: all records that the
   adapters build are accepted, but for those of a Semgrep that prints nothing.
   What ends it besides is a SARIF file that can neither be written nor is there
   from an earlier run. *)
THEOREM DetectionGoesOn == ScannersSpec => []DetectionSurvives
<1>1. ASSUME ScannersInv PROVE DetectionSurvives
  <2> SUFFICES ASSUME phase = "sunk", ~(Unwritable /\ (enabled => MissingFiles # {}))
               PROVE  /\ enabled
                      /\ "silent" \in {tool["semgrep"]} \cup met["semgrep"]
                                                        \cup met["semgrep-supplemental"]
    BY DEF DetectionSurvives
  <2>s. SunkFollows
    BY <1>1 DEF ScannersInv
  <2>1. enabled /\ Scanned
    BY <2>s DEF SunkFollows, Scanned
  <2>2. PICK x \in Scanners : ~Validates(evidence[x])
    BY <2>s, <2>1 DEF SunkFollows
  <2>3. PICK i \in 1 .. 6 : x \in ScannersOf(Adapters[i])
    BY ScannerHasAdapter
  <2>4. PICK a \in ToSet(Adapters) : a = Adapters[i]
    BY AdaptersAre
  <2>5. HasRun(a)
    BY <2>1 DEF HasRun
  <2>6. x \in SarifScanners /\ "silent" \in {tool["semgrep"]} \cup met[x]
    BY <1>1, <2>2, <2>3, <2>4, <2>5, ScannerSound
  <2>7. QED BY <2>1, <2>6 DEF SarifScanners
<1>2. QED BY <1>1, ScannersInvariant, PTL

(* What a detection that the memo calls complete heard of is in the store. *)
THEOREM CompleteMeansStored == ScannersSpec => []ReportedIsStored
<1>1. ASSUME ScannersInv PROVE ReportedIsStored
  <2> SUFFICES ASSUME Recorded, NEW r \in row, CoverageText(r) = "complete",
                      NEW x \in Scanners \ {"osv-scanner"}
               PROVE  printed[x] \subseteq store
    BY DEF ReportedIsStored
  <2>1. /\ Placed /\ StoreFollows /\ phase = "idle"
        /\ r = [checked |-> enabled, missing |-> {b \in Binaries : tool[b] = "absent"},
                evidence |-> evidence]
    BY <1>1 DEF ScannersInv, Placed, Recorded
  <2>2. r.checked /\ \A y \in Scanners : r.evidence[y].status \notin {"failed", "partial"}
    BY DEF CoverageText
  <2>3. enabled /\ \A y \in Scanners : evidence[y].status \notin {"failed", "partial"}
    BY <2>1, <2>2
  <2>4. Scanned /\ collected[x] \subseteq store
    BY <2>1, <2>3 DEF Scanned, StoreFollows
  <2>5. PICK i \in 1 .. 6 : x \in ScannersOf(Adapters[i])
    BY ScannerHasAdapter
  <2>6. PICK a \in ToSet(Adapters) : a = Adapters[i] /\ ScannersOf(a) \subseteq Scanners
    BY AdaptersAre, ScannerHasAdapter
  <2>7. HasRun(a)
    BY <2>4 DEF HasRun
  <2>8. printed[x] = collected[x]
    BY <1>1, <2>3, <2>5, <2>6, <2>7, ScannerSound
  <2>9. QED BY <2>4, <2>8
<1>2. QED BY <1>1, ScannersInvariant, PTL

(* The records that the stage row keeps say what happened: what claims coverage
   counts what was printed, and nothing went wrong, unless Semgrep was cut short. *)
THEOREM RecordsAreHonest == ScannersSpec => []EvidenceIsHonest
<1>1. ASSUME ScannersInv PROVE EvidenceIsHonest
  <2> SUFFICES ASSUME Recorded, NEW r \in row
               PROVE  /\ ArtifactIsOfThisRun(r)
                      /\ \A x \in Scanners :
                          LET e == r.evidence[x]
                              raised == \/ /\ x = "pip-audit"
                                           /\ "odd" \in {tool["osv-scanner"]}
                                                        \cup met["osv-scanner"]
                                        \/ x \in SarifScanners /\ "unwritable" \in met[x]
                          IN  /\ e.status \in {"complete", "empty"} =>
                                    /\ e.counted = Cardinality(printed[x])
                                    /\ WentWell(x) \/ CutShort(x)
                              /\ e.counted = Cardinality(collected[x]) \/ raised
    BY DEF EvidenceIsHonest
  <2>1. /\ Placed /\ SunkFollows /\ ArtifactFollows /\ phase = "idle" /\ enabled \in BOOLEAN
        /\ r.evidence = evidence
    <3>1. /\ ScannersTypeOK /\ Placed /\ SunkFollows /\ ArtifactFollows
          /\ Installed /\ phase = "idle"
      BY <1>1, InstalledFollows DEF ScannersInv, Recorded
    <3>2. r = [checked |-> enabled, missing |-> {b \in Binaries : tool[b] = "absent"},
               evidence |-> evidence]
      BY <3>1 DEF Placed
    <3>3. QED BY <3>1, <3>2 DEF Installed
  <2>2. CASE ~enabled
    <3>1. Skipped
      BY <2>2 DEF Skipped
    <3>2. /\ evidence = [x \in Scanners |-> Execution("disabled", FALSE, 0, 0)]
          /\ artifact["semgrep"] = [status |-> "disabled", found |-> {}] /\ collected = None
      BY <2>1, <3>1 DEF Placed
    <3>3. \A x \in Scanners : /\ evidence[x].status = "disabled" /\ evidence[x].counted = 0
                              /\ collected[x] = {}
      BY <3>2 DEF Execution, None
    <3>4. "semgrep" \in Scanners /\ Cardinality({}) = 0
      BY TheScanners, FS_EmptySet
    <3>5. ArtifactIsOfThisRun(r)
      BY <2>1, <3>2, <3>3, <3>4 DEF ArtifactIsOfThisRun
    <3>6. QED BY <2>1, <3>3, <3>4, <3>5
  <2>3. CASE enabled
    <3>1. /\ Scanned /\ \A y \in Scanners : Validates(evidence[y])
          /\ tool["semgrep"] # "unwritable"
      <4>1. Scanned /\ phase # "sunk"
        BY <2>1, <2>3 DEF Scanned
      <4>2. MissingFiles = {} /\ \A y \in Scanners : Validates(evidence[y])
        BY <2>1, <4>1 DEF SunkFollows
      <4>3. QED BY <2>1, <4>1, <4>2 DEF SunkFollows, SarifScanners
    <3>2. \A a : HasRun(a)
      BY <3>1 DEF HasRun
    <3>3. ArtifactIsOfThisRun(r)
      BY <2>1, <3>2 DEF ArtifactIsOfThisRun, ArtifactFollows
    <3>4. ASSUME NEW x \in Scanners
          PROVE  /\ evidence[x].status \in {"complete", "empty"} =>
                        /\ evidence[x].counted = Cardinality(printed[x])
                        /\ WentWell(x) \/ CutShort(x)
                 /\ \/ evidence[x].counted = Cardinality(collected[x])
                    \/ x = "pip-audit" /\ "odd" \in {tool["osv-scanner"]} \cup met["osv-scanner"]
                    \/ x \in SarifScanners /\ "unwritable" \in met[x]
      <4>1. PICK i \in 1 .. 6 : x \in ScannersOf(Adapters[i])
        BY ScannerHasAdapter
      <4>2. PICK a \in ToSet(Adapters) : a = Adapters[i]
        BY AdaptersAre
      <4>3. QED BY <1>1, <3>1, <3>2, <4>1, <4>2, ScannerSound
    <3>5. QED BY <2>1, <3>3, <3>4
  <2>4. QED BY <2>1, <2>2, <2>3
<1>2. QED BY <1>1, ScannersInvariant, PTL

-----------------------------------------------------------------------------
(* What a passed canary is worth *)

(* A positive control is passed by nothing but findings. *)
LEMMA NotPassed ==
    ASSUME NEW x
    PROVE  /\ \A st, n : ~PositiveProbe(Plain(x, st, n).records[x])
           /\ \A valid, c, n, f : ~PositiveProbe(Lost(x, valid, c, n, f).records[x])
           /\ \A n : ~PositiveProbe(Told(x, {}, n).records[x])
<1>1. Cardinality({}) = 0
  BY FS_EmptySet
<1>2. ASSUME NEW st, NEW n PROVE ~PositiveProbe(Plain(x, st, n).records[x])
  <2>1. Plain(x, st, n).records[x] = Execution(st, FALSE, 0, n)
    BY DEF Plain, One, Result
  <2>2. QED BY <2>1 DEF PositiveProbe, Execution
<1>3. ASSUME NEW valid, NEW c, NEW n, NEW f
      PROVE  ~PositiveProbe(Lost(x, valid, c, n, f).records[x])
  <2>1. Lost(x, valid, c, n, f).records[x] = Execution("failed", valid, c, n)
    BY DEF Lost, One, Result
  <2>2. QED BY <2>1 DEF PositiveProbe, Execution
<1>4. ASSUME NEW n PROVE ~PositiveProbe(Told(x, {}, n).records[x])
  <2>1. Told(x, {}, n).records[x] = Execution(Clean({}), TRUE, Cardinality({}), n)
    BY DEF Told, One, Result
  <2>2. QED BY <1>1, <2>1 DEF PositiveProbe, Execution
<1>5. QED BY <1>2, <1>3, <1>4

(* Semgrep finds its control only when it works. *)
LEMMA SemgrepPassed ==
    ASSUME NEW x \in {"semgrep", "semgrep-supplemental"}, NEW s, NEW way \in Defects("semgrep"),
           PositiveProbe(Semgrep(x, s, way, TRUE).records[x])
    PROVE  way = "works"
<1> DEFINE scope == SemgrepScope(x, s)
           found == Found(x, "flaw", scope \cap s.flawed)
           n     == Cardinality(scope)
           r     == Semgrep(x, s, way, TRUE)
<1>1. way \in {"works", "absent", "blind", "dies", "refuses", "cut", "silent", "garbled",
               "odd", "unwritable"}
  BY DEF Defects, Troubles
<1>2. ASSUME way # "works"
      PROVE  \/ \E st \in {"unavailable", "not-applicable", "failed", "empty"} : r = Plain(x, st, 0)
             \/ r = Lost(x, FALSE, 0, 0, {}) \/ r = Lost(x, FALSE, 0, n, found)
             \/ r = Lost(x, TRUE, Cardinality(found), n, found)
             \/ r = Told(x, {}, n)
  <2>1. CASE way = "absent" \/ (scope = {} /\ (x = "semgrep-supplemental" \/ way # "silent"))
    BY <2>1 DEF Semgrep
  <2>2. CASE ~(way = "absent" \/ (scope = {} /\ (x = "semgrep-supplemental" \/ way # "silent")))
    <3> HIDE DEF scope, found, n
    <3>1. CASE way \in {"dies", "refuses", "garbled", "silent"}
      BY <2>2, <3>1 DEF Semgrep, scope
    <3>2. CASE way \in {"odd", "unwritable"}
      BY <2>2, <3>2 DEF Semgrep, scope, found, n
    <3>3. CASE way \in {"blind", "cut"}
      BY <2>2, <3>3 DEF Semgrep, scope, n
    <3>4. QED BY <1>1, <1>2, <2>2, <3>1, <3>2, <3>3
  <2>3. QED BY <2>1, <2>2
<1> HIDE DEF r, scope, found, n
<1>3. PositiveProbe(r.records[x])
  BY DEF r
<1>4. QED BY <1>2, <1>3, NotPassed

(* Gitleaks finds its control only when it works. *)
LEMMA GitleaksPassed ==
    ASSUME NEW s, NEW way \in Defects("gitleaks"),
           PositiveProbe(Gitleaks(s, way).records["gitleaks"])
    PROVE  way = "works"
<1> DEFINE x == "gitleaks"
           found == Found(x, "flaw", s.flawed)
           r == Gitleaks(s, way)
<1>1. way \in {"works", "absent", "blind", "dies", "refuses", "silent", "garbled", "odd"}
  BY DEF Defects, Troubles
<1>2. ASSUME way # "works"
      PROVE  \/ r = Plain(x, "unavailable", 0) \/ r = Plain(x, "failed", 1)
             \/ r = Lost(x, FALSE, 0, 1, found) \/ r = Told(x, {}, 1)
  BY <1>1, <1>2 DEF Gitleaks
<1> HIDE DEF r, found
<1>3. PositiveProbe(r.records[x])
  BY DEF r
<1>4. QED BY <1>2, <1>3, NotPassed

(* Where the program works and nothing else goes wrong, what there is to see is
   counted. *)
LEMMA SemgrepCovers ==
    ASSUME NEW x \in {"semgrep", "semgrep-supplemental"},
           NEW s \in SnapshotType, s.flawed \subseteq s.sources,
           x = "semgrep" => s.sources # {}
    PROVE  LET e == Semgrep(x, s, "works", TRUE).records[x] IN
           /\ e.status \in {"complete", "empty", "not-applicable"}
           /\ e.counted = Cardinality(SemgrepScope(x, s) \cap s.flawed)
<1> DEFINE scope == SemgrepScope(x, s)
           files == scope \cap s.flawed
           found == Found(x, "flaw", files)
           n     == Cardinality(scope)
           r     == Semgrep(x, s, "works", TRUE)
<1>1. files \subseteq s.sources
  OBVIOUS
<1>2. IsFiniteSet(files)
  BY <1>1, FilesOf
<1>3. Cardinality(found) = Cardinality(files) /\ Cardinality({}) = 0
  BY <1>2, FoundCounts, FS_EmptySet
<1>4. CASE scope = {}
  <2>1. r = Plain(x, "not-applicable", 0) /\ files = {}
    BY <1>4 DEF Semgrep, SemgrepScope
  <2> HIDE DEF r, files
  <2>2. r.records[x] = Execution("not-applicable", FALSE, 0, 0)
    BY <2>1 DEF Plain, One, Result
  <2>3. r.records[x].status = "not-applicable" /\ r.records[x].counted = Cardinality(files)
    BY <1>3, <2>1, <2>2 DEF Execution
  <2>4. QED BY <2>3 DEF r, files
<1>5. CASE scope # {}
  <2>1. r = Told(x, found, n)
    BY <1>5 DEF Semgrep
  <2> HIDE DEF r, found, n, files
  <2>2. r.records[x] = Execution(Clean(found), TRUE, Cardinality(found), n)
    BY <2>1 DEF Told, One, Result
  <2>3. /\ r.records[x].status \in {"complete", "empty"}
        /\ r.records[x].counted = Cardinality(files)
    BY <1>3, <2>2 DEF Execution, Clean
  <2>4. QED BY <2>3 DEF r, files
<1>6. QED BY <1>4, <1>5

(* Gitleaks that works covers every snapshot and counts what is there. *)
LEMMA GitleaksCovers ==
    ASSUME NEW s \in SnapshotType, s.flawed \subseteq s.sources
    PROVE  LET e == Gitleaks(s, "works").records["gitleaks"] IN
           e.status \in {"complete", "empty"} /\ e.counted = Cardinality(s.flawed)
<1> DEFINE x == "gitleaks"
           found == Found(x, "flaw", s.flawed)
           r == Gitleaks(s, "works")
<1>1. IsFiniteSet(s.flawed)
  BY FilesOf
<1>2. Cardinality(found) = Cardinality(s.flawed)
  BY <1>1, FoundCounts
<1>3. r = Told(x, found, 1)
  BY DEF Gitleaks
<1> HIDE DEF r, found
<1>4. r.records[x] = Execution(Clean(found), TRUE, Cardinality(found), 1)
  BY <1>3 DEF Told, One, Result
<1>5. QED BY <1>2, <1>4 DEF Execution, Clean, r

(* A built-in detector that works covers the files it applies to. *)
LEMMA WeakRngCovers ==
    ASSUME NEW x \in {"weak_rng", "weak_rng_py"},
           NEW s \in SnapshotType, s.flawed \subseteq s.sources
    PROVE  LET e == WeakRng(x, s, "works").records[x] IN
           /\ e.status \in {"complete", "empty", "not-applicable"}
           /\ e.counted = Cardinality((WeakRngTargets(x, s) \cap s.flawed) \ TestSources)
<1> DEFINE targets == WeakRngTargets(x, s)
           files == (targets \cap s.flawed) \ TestSources
           found == Found(x, "flaw", files)
           n == Cardinality(targets)
           r == WeakRng(x, s, "works")
<1>1. files \subseteq s.sources
  OBVIOUS
<1>2. IsFiniteSet(files)
  BY <1>1, FilesOf
<1>3. Cardinality(found) = Cardinality(files) /\ Cardinality({}) = 0
  BY <1>2, FoundCounts, FS_EmptySet
<1>4. CASE targets = {}
  <2>1. r = Plain(x, "not-applicable", 0) /\ files = {}
    BY <1>4 DEF WeakRng
  <2> HIDE DEF r, files
  <2>2. r.records[x] = Execution("not-applicable", FALSE, 0, 0)
    BY <2>1 DEF Plain, One, Result
  <2>3. r.records[x].status = "not-applicable" /\ r.records[x].counted = Cardinality(files)
    BY <1>3, <2>1, <2>2 DEF Execution
  <2>4. QED BY <2>3 DEF r, files
<1>5. CASE targets # {}
  <2>1. r = Told(x, found, n)
    BY <1>5 DEF WeakRng, WeakRngFound
  <2> HIDE DEF r, found, n, files
  <2>2. r.records[x] = Execution(Clean(found), TRUE, Cardinality(found), n)
    BY <2>1 DEF Told, One, Result
  <2>3. /\ r.records[x].status \in {"complete", "empty"}
        /\ r.records[x].counted = Cardinality(files)
    BY <1>3, <2>2 DEF Execution, Clean
  <2>4. QED BY <2>3 DEF r, files
<1>6. QED BY <1>4, <1>5

(* pip-audit finds its control only when it works. *)
LEMMA PipPassed ==
    ASSUME NEW s, NEW w \in Answered \cup {"absent"}, NEW absent \in BOOLEAN,
           absent = (w = "absent"),
           PositiveProbe(PipAudit(s, absent, Everywhere(w), Everywhere(w)).records["pip-audit"])
    PROVE  w = "works"
<1> DEFINE x == "pip-audit"
           way == Everywhere(w)
           roots    == {i \in Present(s) : ManifestOrder[i] \in RootManifests}
           one(m)   == PipOne(s.manifests[m], m, way[m], way[m])
           raises   == {i \in roots : one(ManifestOrder[i]).kind = "raised"}
           audited  == {i \in roots : \A j \in raises : i < j}
           outcomes == [i \in audited |-> one(ManifestOrder[i])]
           found    == UNION {outcomes[i].found : i \in audited}
           bad      == {i \in audited : outcomes[i].kind \in {"failed", "partial"}}
           valid    == \E i \in bad : outcomes[i].kind = "partial"
           n        == Cardinality(roots)
           status   == PipStatus(outcomes, found)
           e == IF raises = {}
                THEN Execution(status, bad = {} \/ valid, Cardinality(found), n)
                ELSE Execution(IF bad = {} THEN "failed" ELSE status, valid, 0, n)
           r == PipAudit(s, absent, way, way)
<1> SUFFICES ASSUME w # "works" PROVE ~PositiveProbe(r.records[x])
  OBVIOUS
<1>1. CASE absent \/ roots = {}
  <2>1. r = Plain(x, "unavailable", 0) \/ r = Plain(x, "not-applicable", 0)
    BY <1>1 DEF PipAudit
  <2> HIDE DEF r
  <2>2. QED BY <2>1, NotPassed
<1>2. CASE ~absent /\ roots # {}
  <2>1. r = One(x, e, found, found, raises # {})
    BY <1>2 DEF PipAudit
  <2>2. w \in {"blind", "dies", "refuses", "silent", "garbled", "odd"}
    BY <1>2 DEF Answered
  <2>3. ASSUME NEW content, NEW m PROVE PipOne(content, m, w, w).found = {}
    <3>1. CASE w = "refuses"
      <4>1. CASE ExactPins(content)
        BY <3>1, <4>1 DEF PipOne
      <4>2. CASE ~ExactPins(content)
        BY <3>1, <4>2 DEF PipOne
      <4>3. QED BY <4>1, <4>2
    <3>2. CASE w # "refuses"
      BY <2>2, <3>2 DEF PipOne
    <3>3. QED BY <3>1, <3>2
  <2>4. \A i \in audited : outcomes[i].found = {}
    <3> SUFFICES ASSUME NEW i \in audited PROVE one(ManifestOrder[i]).found = {}
      OBVIOUS
    <3>1. ManifestOrder[i] \in Manifests
      BY PlacesOf DEF Present
    <3>2. way[ManifestOrder[i]] = w
      BY <3>1 DEF Everywhere
    <3>3. QED BY <2>3, <3>2
  <2> HIDE DEF outcomes, audited
  <2>5. found = {}
    BY <2>4
  <2>6. Cardinality(found) = 0
    BY <2>5, FS_EmptySet
  <2> HIDE DEF found, status, bad, valid, n, raises
  <2>7. e.counted = 0
    BY <2>6 DEF Execution
  <2> HIDE DEF e, r
  <2>8. r.records[x] = e
    BY <2>1 DEF One, Result
  <2>9. QED BY <2>7, <2>8 DEF PositiveProbe
<1>3. QED BY <1>1, <1>2

(* pip-audit raises only for a program that answers what is no audit. *)
LEMMA PipRaises ==
    ASSUME NEW s \in SnapshotType, NEW absent \in BOOLEAN, NEW first, NEW second,
           ~absent => \A m \in Manifests : /\ first[m] \in Answered \ {"odd"}
                                           /\ second[m] \in Answered \ {"odd"}
    PROVE  PipAudit(s, absent, first, second).raised = FALSE
<1> DEFINE x == "pip-audit"
           roots    == {i \in Present(s) : ManifestOrder[i] \in RootManifests}
           one(m)   == PipOne(s.manifests[m], m, first[m], second[m])
           raises   == {i \in roots : one(ManifestOrder[i]).kind = "raised"}
           r        == PipAudit(s, absent, first, second)
<1>1. CASE absent \/ roots = {}
  <2>1. r = Plain(x, "unavailable", 0) \/ r = Plain(x, "not-applicable", 0)
    BY <1>1 DEF PipAudit
  <2> HIDE DEF r
  <2>2. \A st : r = Plain(x, st, 0) => r.raised = FALSE
    BY DEF Plain, One, Result
  <2>3. r.raised = FALSE
    BY <2>1, <2>2
  <2>4. QED BY <2>3 DEF r
<1>2. CASE ~absent /\ roots # {}
  <2>1. \E e, found : r = One(x, e, found, found, raises # {})
    BY <1>2 DEF PipAudit
  <2>2. raises = {}
    <3> SUFFICES ASSUME NEW i \in roots PROVE one(ManifestOrder[i]).kind # "raised"
      OBVIOUS
    <3> DEFINE m == ManifestOrder[i]
    <3>1. m \in Manifests
      BY PlacesOf DEF Present
    <3>2. first[m] \in Answered \ {"odd"} /\ second[m] \in Answered \ {"odd"}
      BY <1>2, <3>1
    <3> HIDE DEF m
    <3>3. PipOne(s.manifests[m], m, first[m], second[m]).kind # "raised"
      <4>1. CASE first[m] \in {"dies", "silent", "garbled", "blind"}
        BY <4>1 DEF PipOne
      <4>2. CASE first[m] = "works" /\ ~Unresolvable(s.manifests[m])
        BY <4>2 DEF PipOne
      <4>3. CASE /\ first[m] = "refuses" \/ (first[m] = "works" /\ Unresolvable(s.manifests[m]))
                 /\ ~ExactPins(s.manifests[m])
        BY <4>3 DEF PipOne
      <4>4. CASE /\ first[m] = "refuses" \/ (first[m] = "works" /\ Unresolvable(s.manifests[m]))
                 /\ ExactPins(s.manifests[m])
        BY <3>2, <4>4 DEF PipOne
      <4>5. QED BY <3>2, <4>1, <4>2, <4>3, <4>4 DEF Answered
    <3>4. QED BY <3>3 DEF m
  <2> HIDE DEF r, raises
  <2>3. PICK e, found : r = One(x, e, found, found, raises # {})
    BY <2>1
  <2>4. r.raised = (raises # {})
    BY <2>3 DEF One, Result
  <2>5. r.raised = FALSE
    BY <2>2, <2>4
  <2>6. QED BY <2>5 DEF r
<1>3. QED BY <1>1, <1>2

(* pip-audit that works covers manifests whose ranges can be resolved. *)
LEMMA PipCovers ==
    ASSUME NEW s \in SnapshotType, NEW first, NEW second,
           \A m \in Manifests : first[m] = "works" /\ second[m] = "works",
           \A m \in RootManifests : s.manifests[m] # "private ranges"
    PROVE  PipAudit(s, FALSE, first, second).records["pip-audit"].status \in
                {"complete", "empty", "partial", "not-applicable"}
<1> DEFINE x == "pip-audit"
           roots    == {i \in Present(s) : ManifestOrder[i] \in RootManifests}
           one(m)   == PipOne(s.manifests[m], m, first[m], second[m])
           raises   == {i \in roots : one(ManifestOrder[i]).kind = "raised"}
           audited  == {i \in roots : \A j \in raises : i < j}
           outcomes == [i \in audited |-> one(ManifestOrder[i])]
           found    == UNION {outcomes[i].found : i \in audited}
           bad      == {i \in audited : outcomes[i].kind \in {"failed", "partial"}}
           valid    == \E i \in bad : outcomes[i].kind = "partial"
           n        == Cardinality(roots)
           status   == PipStatus(outcomes, found)
           e == IF raises = {}
                THEN Execution(status, bad = {} \/ valid, Cardinality(found), n)
                ELSE Execution(IF bad = {} THEN "failed" ELSE status, valid, 0, n)
           r == PipAudit(s, FALSE, first, second)
<1>1. CASE roots = {}
  <2>1. r = Plain(x, "not-applicable", 0)
    BY <1>1 DEF PipAudit
  <2> HIDE DEF r
  <2>2. r.records[x].status = "not-applicable"
    BY <2>1 DEF Plain, One, Result, Execution
  <2>3. QED BY <2>2 DEF r
<1>2. CASE roots # {}
  <2>1. r = One(x, e, found, found, raises # {})
    BY <1>2 DEF PipAudit
  <2>2. \A i \in roots : one(ManifestOrder[i]).kind \in {"ok", "partial"}
    <3> SUFFICES ASSUME NEW i \in roots PROVE one(ManifestOrder[i]).kind \in {"ok", "partial"}
      OBVIOUS
    <3> DEFINE m == ManifestOrder[i]
    <3>1. m \in Manifests /\ m \in RootManifests /\ s.manifests[m] \in Contents
      BY PlacesOf DEF Present, SnapshotType
    <3>2. first[m] = "works" /\ second[m] = "works" /\ s.manifests[m] # "private ranges"
      BY <3>1
    <3> HIDE DEF m
    <3>3. PipOne(s.manifests[m], m, first[m], second[m]).kind \in {"ok", "partial"}
      <4>1. CASE Unresolvable(s.manifests[m])
        <5>1. ExactPins(s.manifests[m])
          BY <3>2, <4>1 DEF Unresolvable, ExactPins
        <5>2. QED BY <3>2, <4>1, <5>1 DEF PipOne
      <4>2. CASE ~Unresolvable(s.manifests[m])
        BY <3>2, <4>2 DEF PipOne
      <4>3. QED BY <4>1, <4>2
    <3>4. QED BY <3>3 DEF m
  <2> HIDE DEF one
  <2>3. raises = {} /\ \A i \in audited : outcomes[i].kind \in {"ok", "partial"}
    BY <2>2
  <2>4. DOMAIN outcomes = audited /\ DOMAIN outcomes \subseteq DOMAIN ManifestOrder
    BY DEF Present
  <2> HIDE DEF roots, raises, audited, outcomes, found, bad
  <2>5. \/ status = Clean(found)
        \/ \E i \in DOMAIN outcomes : /\ outcomes[i].kind \in {"failed", "partial"}
                                     /\ status = outcomes[i].kind
    BY <2>4, PipStatusIs
  <2> HIDE DEF status, valid, n
  <2>6. status \in {"complete", "empty", "partial"}
    BY <2>3, <2>4, <2>5 DEF Clean
  <2>7. e.status = status
    BY <2>3 DEF Execution
  <2> HIDE DEF e, r
  <2>8. r.records[x] = e
    BY <2>1 DEF One, Result
  <2>9. QED BY <2>6, <2>7, <2>8 DEF r
<1>3. QED BY <1>1, <1>2

(* What the fallback of OSV-Scanner comes to. *)
LEMMA OsvByNameIs ==
    ASSUME NEW s, NEW way
    PROVE  LET explicit == {i \in Present(s) :
                                Cardinality({j \in Present(s) : j < i}) < MaxExplicit}
               one(m) == OsvOne(s.manifests[m], m, way[m])
               found  == UNION {one(ManifestOrder[i]).found : i \in explicit}
               e == OsvByName(s, way).records["osv-scanner"]
           IN  \/ e = Execution("not-applicable", FALSE, 0, 0)
               \/ e = Execution("partial", TRUE, Cardinality(found), Cardinality(explicit))
               \/ /\ e = Execution("failed", FALSE, 0, 1)
                  /\ \E i \in explicit : one(ManifestOrder[i]).kind \notin {"ok", "no source"}
<1> DEFINE x == "osv-scanner"
           explicit == {i \in Present(s) : Cardinality({j \in Present(s) : j < i}) < MaxExplicit}
           one(m)   == OsvOne(s.manifests[m], m, way[m])
           kinds    == {one(ManifestOrder[i]).kind : i \in explicit}
           found    == UNION {one(ManifestOrder[i]).found : i \in explicit}
           n        == Cardinality(explicit)
           r        == OsvByName(s, way)
           e        == r.records[x]
<1>1. r = CASE kinds = {} ->
                  One(x, Execution("not-applicable", FALSE, 0, 0), {}, found, FALSE)
            [] "raised" \in kinds -> One(x, Execution("failed", FALSE, 0, 1), {}, found, TRUE)
            [] kinds = {"ok"} ->
                  One(x, Execution("partial", TRUE, Cardinality(found), n), found, found, FALSE)
            [] {"raised", "failed"} \cap kinds = {} /\ "no source" \in kinds ->
                  One(x, Execution("not-applicable", FALSE, 0, 0), {}, found, FALSE)
            [] OTHER -> One(x, Execution("failed", FALSE, 0, 1), {}, found, FALSE)
  BY DEF OsvByName, one
<1> HIDE DEF one
<1>2. (\A i \in explicit : one(ManifestOrder[i]).kind \in {"ok", "no source"}) =>
        kinds \subseteq {"ok", "no source"}
  OBVIOUS
<1> HIDE DEF kinds, found, n, r, explicit
<1>3. CASE kinds = {} \/ kinds = {"no source"} \/ kinds = {"ok", "no source"}
  <2>1. r = One(x, Execution("not-applicable", FALSE, 0, 0), {}, found, FALSE)
    <3>1. CASE kinds = {}
      BY <1>1, <3>1
    <3>2. CASE kinds # {}
      <4>1. /\ "raised" \notin kinds /\ kinds # {"ok"}
            /\ {"raised", "failed"} \cap kinds = {} /\ "no source" \in kinds
        <5>1. "no source" \in kinds /\ \A k \in kinds : k \in {"ok", "no source"}
          BY <1>3, <3>2
        <5>2. "no source" \notin {"ok"}
          OBVIOUS
        <5>3. QED BY <5>1, <5>2
      <4>2. QED BY <1>1, <3>2, <4>1
    <3>3. QED BY <3>1, <3>2
  <2>2. e = Execution("not-applicable", FALSE, 0, 0)
    BY <2>1 DEF One, Result
  <2>3. QED BY <2>2 DEF r, explicit, one, found
<1>4. CASE kinds = {"ok"}
  <2>1. r = One(x, Execution("partial", TRUE, Cardinality(found), n), found, found, FALSE)
    BY <1>1, <1>4
  <2>2. e = Execution("partial", TRUE, Cardinality(found), n)
    BY <2>1 DEF One, Result
  <2>3. QED BY <2>2 DEF r, explicit, one, found, n
<1>5. CASE ~(kinds \subseteq {"ok", "no source"})
  <2>1. \/ r = One(x, Execution("not-applicable", FALSE, 0, 0), {}, found, FALSE)
        \/ r = One(x, Execution("failed", FALSE, 0, 1), {}, found, TRUE)
        \/ r = One(x, Execution("failed", FALSE, 0, 1), {}, found, FALSE)
    <3>1. kinds # {"ok"}
      BY <1>5
    <3>2. QED BY <1>1, <3>1
  <2>2. \/ e = Execution("not-applicable", FALSE, 0, 0)
        \/ e = Execution("failed", FALSE, 0, 1)
    <3>1. CASE r = One(x, Execution("not-applicable", FALSE, 0, 0), {}, found, FALSE)
      BY <3>1 DEF One, Result
    <3>2. CASE r = One(x, Execution("failed", FALSE, 0, 1), {}, found, TRUE)
      BY <3>2 DEF One, Result
    <3>3. CASE r = One(x, Execution("failed", FALSE, 0, 1), {}, found, FALSE)
      BY <3>3 DEF One, Result
    <3>4. QED BY <2>1, <3>1, <3>2, <3>3
  <2>3. \E i \in explicit : one(ManifestOrder[i]).kind \notin {"ok", "no source"}
    BY <1>2, <1>5
  <2>4. QED BY <2>2, <2>3 DEF r, explicit, one, found
<1>6. kinds \subseteq {"ok", "no source"} =>
        kinds = {} \/ kinds = {"no source"} \/ kinds = {"ok", "no source"} \/ kinds = {"ok"}
  OBVIOUS
<1>7. QED BY <1>3, <1>4, <1>5, <1>6

(* osv-scanner finds its control only when it works. *)
LEMMA OsvPassed ==
    ASSUME NEW s, NEW reads, NEW w \in Answered \cup {"absent"},
           PositiveProbe(OsvScanner(s, reads, w, Everywhere(w)).records["osv-scanner"])
    PROVE  w = "works"
<1> DEFINE x == "osv-scanner"
           way == Everywhere(w)
           r == OsvScanner(s, reads, w, way)
           lock == Found(x, "lock", IF s.lock = "vulnerable" THEN {"lock"} ELSE {})
           named == UNION {Direct(x, s.manifests[m], m) : m \in {k \in Packages(s) : reads}}
           found == lock \cup named
<1> SUFFICES ASSUME w # "works" PROVE ~PositiveProbe(r.records[x])
  OBVIOUS
<1>1. CASE ~(w = "blind" /\ NoSource(s, reads))
  <2>1. \/ r = Plain(x, "unavailable", 0) \/ r = Plain(x, "failed", 1)
        \/ r = Told(x, {}, 1) \/ r = Lost(x, FALSE, 0, 1, found)
    BY <1>1 DEF OsvScanner, Answered
  <2> HIDE DEF r, found
  <2>2. QED BY <2>1, NotPassed
<1>2. CASE w = "blind" /\ NoSource(s, reads)
  <2> DEFINE explicit == {i \in Present(s) :
                            Cardinality({j \in Present(s) : j < i}) < MaxExplicit}
             one(m) == OsvOne(s.manifests[m], m, way[m])
             all == UNION {one(ManifestOrder[i]).found : i \in explicit}
             e == OsvByName(s, way).records[x]
  <2>1. r = OsvByName(s, way)
    BY <1>2 DEF OsvScanner
  <2>2. \A i \in explicit : one(ManifestOrder[i]).found = {}
    <3> SUFFICES ASSUME NEW i \in explicit PROVE one(ManifestOrder[i]).found = {}
      OBVIOUS
    <3>1. ManifestOrder[i] \in Manifests
      BY PlacesOf DEF Present
    <3>2. way[ManifestOrder[i]] = "blind"
      BY <1>2, <3>1 DEF Everywhere
    <3>3. ASSUME NEW content, NEW m PROVE OsvOne(content, m, "blind").found = {}
      BY DEF OsvOne
    <3>4. QED BY <3>2, <3>3
  <2>3. all = {}
    BY <2>2
  <2>4. Cardinality(all) = 0
    BY <2>3, FS_EmptySet
  <2>5. \/ e = Execution("not-applicable", FALSE, 0, 0)
        \/ e = Execution("partial", TRUE, Cardinality(all), Cardinality(explicit))
        \/ e = Execution("failed", FALSE, 0, 1)
    BY OsvByNameIs
  <2> HIDE DEF e, all, explicit
  <2>6. e.valid = FALSE \/ e.counted = 0
    BY <2>4, <2>5 DEF Execution
  <2> HIDE DEF r
  <2>7. r.records[x] = e
    BY <2>1 DEF e
  <2>8. QED BY <2>6, <2>7 DEF PositiveProbe
<1>3. QED BY <1>1, <1>2

(* osv-scanner that works covers every snapshot. *)
LEMMA OsvCovers ==
    ASSUME NEW s \in SnapshotType, NEW reads, NEW way,
           \A m \in Manifests : way[m] = "works"
    PROVE  OsvScanner(s, reads, "works", way).records["osv-scanner"].status \in
                {"complete", "empty", "partial", "not-applicable"}
<1> DEFINE x == "osv-scanner"
           r == OsvScanner(s, reads, "works", way)
<1>1. CASE ~NoSource(s, reads)
  <2>1. \E found : r = Told(x, found, 1)
    BY <1>1 DEF OsvScanner
  <2> HIDE DEF r
  <2>2. PICK found : r = Told(x, found, 1)
    BY <2>1
  <2>3. r.records[x].status = Clean(found)
    BY <2>2 DEF Told, One, Result, Execution
  <2>4. QED BY <2>3 DEF Clean, r
<1>2. CASE NoSource(s, reads)
  <2> DEFINE explicit == {i \in Present(s) :
                            Cardinality({j \in Present(s) : j < i}) < MaxExplicit}
             one(m) == OsvOne(s.manifests[m], m, way[m])
             all == UNION {one(ManifestOrder[i]).found : i \in explicit}
             e == OsvByName(s, way).records[x]
  <2>1. r = OsvByName(s, way)
    BY <1>2 DEF OsvScanner
  <2>2. \A i \in explicit : one(ManifestOrder[i]).kind \in {"ok", "no source"}
    <3> SUFFICES ASSUME NEW i \in explicit
                 PROVE  one(ManifestOrder[i]).kind \in {"ok", "no source"}
      OBVIOUS
    <3>1. ManifestOrder[i] \in Manifests
      BY PlacesOf DEF Present
    <3>2. way[ManifestOrder[i]] = "works"
      BY <3>1
    <3>3. ASSUME NEW content, NEW m PROVE OsvOne(content, m, "works").kind \in {"ok", "no source"}
      BY DEF OsvOne
    <3>4. QED BY <3>2, <3>3
  <2>3. \/ e = Execution("not-applicable", FALSE, 0, 0)
        \/ e = Execution("partial", TRUE, Cardinality(all), Cardinality(explicit))
        \/ /\ e = Execution("failed", FALSE, 0, 1)
           /\ \E i \in explicit : one(ManifestOrder[i]).kind \notin {"ok", "no source"}
    BY OsvByNameIs
  <2> HIDE DEF e, all, explicit, one
  <2>4. \/ e = Execution("not-applicable", FALSE, 0, 0)
        \/ e = Execution("partial", TRUE, Cardinality(all), Cardinality(explicit))
    BY <2>2, <2>3
  <2>5. e.status \in {"partial", "not-applicable"}
    BY <2>4 DEF Execution
  <2>6. QED BY <2>1, <2>5 DEF e
<1>3. QED BY <1>1, <1>2

(* The dependency scanners of a run in which nothing transient goes wrong. *)
LEMMA ScaCovers ==
    ASSUME Installed, NEW n, NEW ways \in Ways("sca", n), NEW reads \in BOOLEAN,
           MetBy("pip-audit", ways) = {}, MetBy("osv-scanner", ways) = {},
           tool["pip-audit"] # "odd"
    PROVE  LET r == ResultOf("sca", AllWays(ways), reads)
               covered == {"complete", "empty", "partial", "not-applicable"}
           IN  /\ /\ tool["pip-audit"] = "works"
                  /\ \A m \in RootManifests : snapshot.manifests[m] # "private ranges"
                  => r.records["pip-audit"].status \in covered
               /\ tool["osv-scanner"] = "works" => r.records["osv-scanner"].status \in covered
<1> DEFINE all    == AllWays(ways)
           pa     == "pip-audit"
           os     == "osv-scanner"
           absent == tool[pa] = "absent"
           first  == [m \in Manifests |-> Way(pa, all[<<"full", m>>])]
           second == [m \in Manifests |-> Way(pa, all[<<"direct", m>>])]
           root   == Way(os, all[<<"root", "osv">>])
           byName == [m \in Manifests |-> Way(os, all[<<"osv", m>>])]
           pip    == PipAudit(snapshot, absent, first, second)
           osv    == OsvScanner(snapshot, reads, root, byName)
           r      == ResultOf("sca", all, reads)
           covered == {"complete", "empty", "partial", "not-applicable"}
<1>1. r = Sca(pip, osv)
  BY DEF ResultOf
<1>2. \A i \in Invocations("sca") : ways[i] = "works"
  <2> SUFFICES ASSUME NEW i \in Invocations("sca"), ways[i] # "works" PROVE FALSE
    OBVIOUS
  <2>1. i \in InTrouble(ways)
    BY WaysAre
  <2>2. ProgramOf(i) \in {pa, os}
    BY ScaInvocations
  <2>3. ways[i] \in MetBy(ProgramOf(i), ways)
    BY <2>1, <2>2 DEF MetBy
  <2>4. QED BY <2>2, <2>3
<1>3. /\ all[<<"root", "osv">>] = "works"
      /\ \A i \in {"full", "direct", "osv"} \X Manifests : all[i] = "works"
  <2>1. DOMAIN ways = Invocations("sca") /\ <<"root", "osv">> \in Invocations("sca")
    BY WaysAre DEF Invocations
  <2>2. QED BY <1>2, <2>1, AllWaysAre
<1> HIDE DEF all
<1>4. /\ \A m \in Manifests : first[m] = tool[pa] /\ second[m] = tool[pa]
      /\ root = tool[os] /\ \A m \in Manifests : byName[m] = tool[os]
  BY <1>3 DEF Way
<1>5. /\ snapshot \in SnapshotType /\ absent \in BOOLEAN
      /\ tool[pa] \in Answered \cup {"absent"} /\ tool[os] \in Answered \cup {"absent"}
  BY DEF Installed, Binaries, Defects, Troubles, Answered
<1>6. ~absent => \A m \in Manifests : /\ first[m] \in Answered \ {"odd"}
                                      /\ second[m] \in Answered \ {"odd"}
  BY <1>4, <1>5
<1>7. tool[pa] = "works" =>
            absent = FALSE /\ \A m \in Manifests : first[m] = "works" /\ second[m] = "works"
  BY <1>4
<1>8. root \in Answered \cup {"absent"}
  BY <1>4, <1>5
<1> HIDE DEF absent, first, second, root, byName, r
<1>9. Tells(pa, pip)
  BY <1>5, <1>6, PipTells
<1>10. pip.raised = FALSE
  BY <1>5, <1>6, PipRaises
<1>11. Tells(os, osv)
  BY <1>5, <1>8, OsvTells
<1>12. /\ tool[pa] = "works"
       /\ \A m \in RootManifests : snapshot.manifests[m] # "private ranges"
       => pip.records[pa].status \in covered
  <2> SUFFICES ASSUME tool[pa] = "works",
                      \A m \in RootManifests : snapshot.manifests[m] # "private ranges"
               PROVE  pip.records[pa].status \in covered
    OBVIOUS
  <2>1. pip = PipAudit(snapshot, FALSE, first, second)
    BY <1>7
  <2>2. PipAudit(snapshot, FALSE, first, second).records[pa].status \in covered
    BY <1>5, <1>7, PipCovers
  <2>3. QED BY <2>1, <2>2
<1>13. tool[os] = "works" => osv.records[os].status \in covered
  <2> SUFFICES ASSUME tool[os] = "works" PROVE osv.records[os].status \in covered
    OBVIOUS
  <2>1. root = "works" /\ \A m \in Manifests : byName[m] = "works"
    BY <1>4
  <2>2. OsvScanner(snapshot, reads, "works", byName).records[os].status \in covered
    BY <1>5, <2>1, OsvCovers
  <2>3. QED BY <2>1, <2>2
<1> HIDE DEF pip, osv
<1>14. r.records[pa] = pip.records[pa] /\ r.records[os] = osv.records[os]
  <2>1. r.records = Over(pip.records, osv.records)
    BY <1>1, <1>10 DEF Sca, Result
  <2>2. DOMAIN pip.records = {pa} /\ DOMAIN osv.records = {os}
    BY <1>9, <1>11 DEF Tells, ResultType
  <2>3. QED BY <2>1, <2>2 DEF Over
<1>15. /\ /\ tool[pa] = "works"
          /\ \A m \in RootManifests : snapshot.manifests[m] # "private ranges"
          => r.records[pa].status \in covered
       /\ tool[os] = "works" => r.records[os].status \in covered
  BY <1>12, <1>13, <1>14
<1>16. QED BY <1>15 DEF r, all

(* A scanner whose canaries pass covers any snapshot it applies to, and reports
   what it can see there, unless something transient goes wrong. *)
THEOREM CanaryIsWorth == ScannersSpec => []CanaryPredicts
<1>1. ASSUME ScannersInv PROVE CanaryPredicts
  <2> DEFINE sca == ScannersOf("sca")
             quiet(x) == IF x \in sca THEN \A y \in sca : met[y] = {} /\ tool[y] # "odd"
                         ELSE met[x] = {}
             beyond(x) == \/ x = "semgrep" /\ (~ruleset \/ snapshot.sources = {})
                          \/ /\ x = "pip-audit"
                             /\ \E m \in RootManifests : snapshot.manifests[m] = "private ranges"
             visible(x) ==
                CASE x \in {"semgrep", "gitleaks"} -> snapshot.flawed
                  [] x = "semgrep-supplemental" -> SemgrepScope(x, snapshot) \cap snapshot.flawed
                  [] x \in {"weak_rng", "weak_rng_py"} ->
                        (WeakRngTargets(x, snapshot) \cap snapshot.flawed) \ TestSources
                  [] x \in sca -> {}
  <2> SUFFICES ASSUME Recorded, NEW r \in row, NEW x \in Passed, r.checked, quiet(x), ~beyond(x)
               PROVE  /\ r.evidence[x].status \in {"complete", "empty", "partial",
                                                   "not-applicable"}
                      /\ r.evidence[x].counted >= Cardinality(visible(x))
    BY DEF CanaryPredicts
  <2> HIDE DEF sca, quiet, beyond, visible
  <2>0. sca = {"pip-audit", "osv-scanner"}
    BY DEF sca, ScannersOf
  <2>1. /\ Placed /\ Installed /\ phase = "idle" /\ evidence \in [Scanners -> ExecutionType]
        /\ enabled /\ r.evidence = evidence
    <3>1. Placed /\ Installed /\ phase = "idle" /\ evidence \in [Scanners -> ExecutionType]
      BY <1>1, InstalledFollows DEF ScannersInv, Recorded, ScannersTypeOK
    <3>2. r = [checked |-> enabled, missing |-> {b \in Binaries : tool[b] = "absent"},
               evidence |-> evidence]
      BY <3>1 DEF Placed
    <3>3. QED BY <3>1, <3>2
  <2>2. \A a \in ToSet(Adapters) : LeftSomehow(a)
    BY <1>1, <2>1 DEF ScannersInv, HasRun, Scanned
  <2>3. x \in Scanners
    BY DEF Passed
  <2>4. PICK k \in BOOLEAN : PositiveProbe(OnControl(x, Control(x, TRUE), k).records[x])
    BY DEF Passed
  <2>5. /\ snapshot \in SnapshotType /\ snapshot.flawed \subseteq snapshot.sources
        /\ \A b \in Binaries : tool[b] \in Defects(b)
    BY <2>1 DEF Installed
  <2>6. PICK a \in ToSet(Adapters) : x \in ScannersOf(a)
    BY <2>3, ScannerHasAdapter, AdaptersAre
  <2>7. PICK ways \in Ways(a, MaxHitches), reads \in BOOLEAN : LeftBy(a, ways, reads)
    BY <2>2 DEF LeftSomehow
  <2> DEFINE e == ResultOf(a, AllWays(ways), reads).records[x]
  <2>8. /\ evidence[x] = e /\ \A i \in InTrouble(ways) : Made(ways, reads, i)
        /\ \A y \in ScannersOf(a) : met[y] = MetBy(y, ways)
    BY <2>6, <2>7 DEF LeftBy
  <2> SUFFICES /\ e.status \in {"complete", "empty", "partial", "not-applicable"}
               /\ e.counted >= Cardinality(visible(x))
    BY <2>1, <2>8
  <2>9. e \in ExecutionType
    BY <2>1, <2>3, <2>8
  <2>10. ASSUME a # "sca"
         PROVE  x = a /\ AllWays(ways)[<<"run", a>>] = "works"
    <3>1. x = a /\ x \notin sca
      BY <2>6, <2>10, AdaptersAre DEF ScannersOf, sca
    <3>2. MetBy(a, ways) = {}
      BY <2>8, <3>1, <2>6 DEF quiet
    <3>3. MetBy(a, ways) = {v \in {AllWays(ways)[<<"run", a>>]} : v # "works"}
      BY <2>8, <2>10, AdaptersAre, OneWay
    <3>4. QED BY <3>1, <3>2, <3>3
  <2>11. CASE a \in {"semgrep", "semgrep-supplemental"}
    <3>w. tool["semgrep"] # "unwritable"
      <4>1. SunkFollows /\ Scanned /\ phase # "sunk"
        BY <1>1, <2>1 DEF ScannersInv, Scanned
      <4>2. QED BY <4>1 DEF SunkFollows, SarifScanners
    <3>1. PositiveProbe(Semgrep(x, Control(x, TRUE), tool["semgrep"], TRUE).records[x])
      BY <2>4, <2>10, <2>11, <3>w DEF OnControl, SarifScanners
    <3>2. tool["semgrep"] = "works"
      BY <2>5, <2>10, <2>11, <3>1, SemgrepPassed DEF Binaries
    <3>3. x = "semgrep" => ruleset = TRUE /\ snapshot.sources # {}
      BY <2>1 DEF Installed, beyond
    <3>4. e = Semgrep(x, snapshot, "works", TRUE).records[x]
      BY <2>10, <2>11, <3>2, <3>3 DEF ResultOf, Way
    <3>5. e.status \in {"complete", "empty", "not-applicable"}
          /\ e.counted = Cardinality(SemgrepScope(x, snapshot) \cap snapshot.flawed)
      <4>1. /\ Semgrep(x, snapshot, "works", TRUE).records[x].status \in
                    {"complete", "empty", "not-applicable"}
            /\ Semgrep(x, snapshot, "works", TRUE).records[x].counted =
                    Cardinality(SemgrepScope(x, snapshot) \cap snapshot.flawed)
        <5>1. x \in {"semgrep", "semgrep-supplemental"}
          BY <2>10, <2>11
        <5>2. QED BY ONLY <2>5, <3>3, <5>1, SemgrepCovers
      <4>2. QED BY ONLY <3>4, <4>1
    <3>6. visible(x) = SemgrepScope(x, snapshot) \cap snapshot.flawed
      <4>1. CASE x = "semgrep"
        <5>1. visible(x) = snapshot.flawed
          <6>1. x \notin {"weak_rng", "weak_rng_py"} /\ x # "semgrep-supplemental"
            BY <4>1
          <6>2. QED BY <2>0, <4>1, <6>1 DEF visible
        <5>2. SemgrepScope(x, snapshot) \cap snapshot.flawed = snapshot.flawed
          BY <2>5, <4>1 DEF SemgrepScope
        <5>3. QED BY <5>1, <5>2
      <4>2. CASE x = "semgrep-supplemental"
        <5>1. x \notin {"semgrep", "gitleaks"}
          BY <4>2
        <5>2. QED BY <2>0, <4>2, <5>1 DEF visible
      <4>3. QED BY <2>10, <2>11, <4>1, <4>2
    <3> HIDE DEF e
    <3>7. e.counted = Cardinality(visible(x)) /\ e.counted \in Nat
      BY <2>9, <3>5, <3>6 DEF ExecutionType
    <3>8. e.counted >= Cardinality(visible(x))
      BY ONLY <3>7
    <3>9. QED BY <3>5, <3>8
  <2>12. CASE a = "gitleaks"
    <3>1. PositiveProbe(Gitleaks(Control(x, TRUE), tool["gitleaks"]).records["gitleaks"])
      BY <2>4, <2>10, <2>12 DEF OnControl, SarifScanners
    <3>2. tool["gitleaks"] = "works"
      BY <2>5, <3>1, GitleaksPassed DEF Binaries
    <3>3. e = Gitleaks(snapshot, "works").records["gitleaks"]
      BY <2>10, <2>12, <3>2 DEF ResultOf, Way
    <3>4. e.status \in {"complete", "empty"} /\ e.counted = Cardinality(snapshot.flawed)
      BY <2>5, <3>3, GitleaksCovers
    <3>5. visible(x) = snapshot.flawed
      BY <2>0, <2>10, <2>12 DEF visible
    <3> HIDE DEF e
    <3>6. e.counted = Cardinality(visible(x)) /\ e.counted \in Nat
      BY <2>9, <3>4, <3>5 DEF ExecutionType
    <3>7. e.counted >= Cardinality(visible(x))
      BY ONLY <3>6
    <3>8. QED BY <3>4, <3>7
  <2>13. CASE a \in {"weak_rng", "weak_rng_py"}
    <3>1. e = WeakRng(x, snapshot, "works").records[x]
      BY <2>10, <2>13 DEF ResultOf
    <3>2. /\ e.status \in {"complete", "empty", "not-applicable"}
          /\ e.counted = Cardinality((WeakRngTargets(x, snapshot) \cap snapshot.flawed)
                                     \ TestSources)
      BY <2>5, <2>10, <2>13, <3>1, WeakRngCovers
    <3>3. visible(x) = (WeakRngTargets(x, snapshot) \cap snapshot.flawed) \ TestSources
      <4>1. x \notin {"semgrep", "gitleaks"} /\ x # "semgrep-supplemental"
        BY <2>10, <2>13
      <4>2. QED BY <2>0, <2>10, <2>13, <4>1 DEF visible
    <3> HIDE DEF e
    <3>4. e.counted = Cardinality(visible(x)) /\ e.counted \in Nat
      BY <2>9, <3>2, <3>3 DEF ExecutionType
    <3>5. e.counted >= Cardinality(visible(x))
      BY ONLY <3>4
    <3>6. QED BY <3>2, <3>5
  <2>14. CASE a = "sca"
    <3>1. sca = {"pip-audit", "osv-scanner"} /\ x \in sca
      BY <2>0, <2>6, <2>14 DEF sca
    <3>2. /\ MetBy("pip-audit", ways) = {} /\ MetBy("osv-scanner", ways) = {}
          /\ tool["pip-audit"] # "odd"
      BY <2>8, <2>14, <3>1 DEF quiet, ScannersOf
    <3>3. /\ tool["pip-audit"] \in Answered \cup {"absent"}
          /\ tool["osv-scanner"] \in Answered \cup {"absent"}
      BY <2>5 DEF Binaries, Defects, Troubles, Answered
    <3>4. tool[x] = "works"
      <4>1. CASE x = "pip-audit"
        <5> DEFINE absent == tool[x] = "absent"
        <5>1. PositiveProbe(PipAudit(Control(x, TRUE), absent, Everywhere(tool[x]),
                                     Everywhere(tool[x])).records["pip-audit"])
          BY <2>4, <4>1 DEF OnControl, SarifScanners
        <5>2. absent \in BOOLEAN /\ absent = (tool[x] = "absent")
          OBVIOUS
        <5> HIDE DEF absent
        <5>3. QED BY <3>3, <4>1, <5>1, <5>2, PipPassed
      <4>2. CASE x = "osv-scanner"
        <5>1. PositiveProbe(OsvScanner(Control(x, TRUE), k, tool[x],
                                       Everywhere(tool[x])).records["osv-scanner"])
          BY <2>4, <4>2 DEF OnControl, SarifScanners
        <5>2. QED BY <3>3, <4>2, <5>1, OsvPassed
      <4>3. QED BY <3>1, <4>1, <4>2
    <3>5. e.status \in {"complete", "empty", "partial", "not-applicable"}
      BY <2>1, <2>14, <3>1, <3>2, <3>4, ScaCovers DEF beyond
    <3>6. visible(x) = {}
      <4>1. /\ x \notin {"semgrep", "gitleaks"} /\ x # "semgrep-supplemental"
            /\ x \notin {"weak_rng", "weak_rng_py"}
        BY <3>1
      <4>2. QED BY <3>1, <4>1 DEF visible
    <3>7. Cardinality({}) = 0
      BY FS_EmptySet
    <3> HIDE DEF e
    <3>8. e.counted \in Nat /\ Cardinality(visible(x)) = 0
      BY <2>9, <3>6, <3>7 DEF ExecutionType
    <3>9. e.counted >= Cardinality(visible(x))
      BY ONLY <3>8
    <3>10. QED BY <3>5, <3>9
  <2>15. QED BY <2>6, <2>11, <2>12, <2>13, <2>14, AdaptersAre
<1>2. QED BY <1>1, ScannersInvariant, PTL

-----------------------------------------------------------------------------

(* The plan of regions: sequences that list a set, each element once. *)

Listing(s, S) == s \in Seq(S) /\ IsInjective(s) /\ ToSet(s) = S

(* before is a strict order of S, and compares any two of it. *)
Orders(before, S) ==
    /\ \A f \in S : <<f, f>> \notin before
    /\ \A f, g \in S : f # g => <<f, g>> \in before \/ <<g, f>> \in before
    /\ \A f, g, h \in S : <<f, g>> \in before /\ <<g, h>> \in before => <<f, h>> \in before

(* A listing is as long as its set is large. *)
LEMMA ListingIs ==
    ASSUME NEW s, NEW S, Listing(s, S)
    PROVE  /\ Len(s) \in Nat /\ DOMAIN s = 1 .. Len(s) /\ s \in [1 .. Len(s) -> S]
           /\ IsFiniteSet(S) /\ Cardinality(S) = Len(s)
<1>1. Len(s) \in Nat /\ DOMAIN s = 1 .. Len(s) /\ s \in [1 .. Len(s) -> S]
  BY LenProperties DEF Listing
<1>2. s \in Injection(1 .. Len(s), S) /\ s \in Surjection(1 .. Len(s), S)
  BY <1>1 DEF Listing, Injection, Surjection, ToSet
<1>3. IsFiniteSet(1 .. Len(s)) /\ Cardinality(1 .. Len(s)) = Len(s)
  BY <1>1, FS_Interval
<1>4. QED BY <1>1, <1>2, <1>3, FS_Surjection

(* What is listed on its own. *)
LEMMA ListsItself ==
    ASSUME NEW s, NEW n \in Nat, NEW S, s \in [1 .. n -> S], IsInjective(s)
    PROVE  Listing(s, ToSet(s)) /\ Len(s) = n /\ ToSet(s) \subseteq S
<1>1. s \in [1 .. n -> ToSet(s)]
  BY DEF ToSet
<1>2. s \in Seq(ToSet(s)) /\ Len(s) = n
  BY <1>1
<1>3. QED BY <1>2 DEF Listing, ToSet

(* How many of a set come before one of it. *)
Before(f, S, before) == Cardinality({g \in S : <<g, f>> \in before})

(* That number gives each of a finite set a place of its own. *)
Placing(S, before) ==
    /\ Cardinality(S) \in Nat
    /\ \A f \in S : /\ Before(f, S, before) \in Nat
                    /\ Before(f, S, before) + 1 \in 1 .. Cardinality(S)
    /\ \A f, g \in S : <<f, g>> \in before => Before(f, S, before) < Before(g, S, before)
    /\ \A i \in 1 .. Cardinality(S) : \E f \in S : Before(f, S, before) = i - 1

LEMMA EachHasPlace ==
    ASSUME NEW S, IsFiniteSet(S), NEW before, Orders(before, S)
    PROVE  Placing(S, before)
<1> DEFINE n == Cardinality(S)
<1>1. n \in Nat
  BY FS_CardinalityType
<1>2. ASSUME NEW f \in S
      PROVE  /\ Before(f, S, before) \in Nat /\ Before(f, S, before) < n
             /\ IsFiniteSet({g \in S : <<g, f>> \in before})
  <2> DEFINE T == {g \in S : <<g, f>> \in before}
  <2>1. T \in SUBSET S /\ f \notin T
    BY DEF Orders
  <2>2. Before(f, S, before) = Cardinality(T)
    BY DEF Before
  <2> HIDE DEF T
  <2>3. IsFiniteSet(T) /\ Cardinality(T) \in Nat /\ Cardinality(T) <= n /\ Cardinality(T) # n
    BY <2>1, FS_Subset, FS_CardinalityType
  <2>4. QED BY <1>1, <2>2, <2>3 DEF T
<1>3. ASSUME NEW f \in S, NEW g \in S, <<f, g>> \in before
      PROVE  Before(f, S, before) < Before(g, S, before)
  <2> DEFINE T == {h \in S : <<h, f>> \in before}
             U == {h \in S : <<h, g>> \in before}
  <2>1. T \in SUBSET U /\ f \in U /\ f \notin T
    BY <1>3 DEF Orders
  <2>2. Before(f, S, before) = Cardinality(T) /\ Before(g, S, before) = Cardinality(U)
    BY DEF Before
  <2>3. IsFiniteSet(U)
    BY <1>2
  <2> HIDE DEF T, U
  <2>4. /\ Cardinality(T) \in Nat /\ Cardinality(U) \in Nat
        /\ Cardinality(T) <= Cardinality(U) /\ Cardinality(T) # Cardinality(U)
    BY <2>1, <2>3, FS_Subset, FS_CardinalityType
  <2>5. QED BY <2>2, <2>4
<1> DEFINE places == [f \in S |-> Before(f, S, before) + 1]
<1>4. \A f \in S : Before(f, S, before) \in Nat /\ Before(f, S, before) + 1 \in 1 .. n
  <2> SUFFICES ASSUME NEW f \in S
               PROVE  Before(f, S, before) \in Nat /\ Before(f, S, before) + 1 \in 1 .. n
    OBVIOUS
  <2>1. Before(f, S, before) \in Nat /\ Before(f, S, before) < n
    BY <1>2
  <2>2. QED BY <1>1, <2>1
<1>5. places \in Injection(S, 1 .. n)
  <2>1. \A f, g \in S : f # g => places[f] # places[g]
    <3> SUFFICES ASSUME NEW f \in S, NEW g \in S, f # g PROVE places[f] # places[g]
      OBVIOUS
    <3>1. \/ Before(f, S, before) < Before(g, S, before)
          \/ Before(g, S, before) < Before(f, S, before)
      BY <1>3 DEF Orders
    <3>2. Before(f, S, before) \in Nat /\ Before(g, S, before) \in Nat
      BY <1>4
    <3>3. QED BY <3>1, <3>2
  <2>2. places \in [S -> 1 .. n]
    BY <1>4
  <2> HIDE DEF places
  <2>3. QED BY <2>1, <2>2 DEF Injection, IsInjective
<1>6. IsFiniteSet(1 .. n) /\ Cardinality(1 .. n) = n
  BY <1>1, FS_Interval
<1>7. places \in Surjection(S, 1 .. n)
  <2> HIDE DEF places
  <2>1. QED BY <1>5, <1>6, FS_Injection
<1>8. \A i \in 1 .. n : \E f \in S : Before(f, S, before) = i - 1
  <2> SUFFICES ASSUME NEW i \in 1 .. n PROVE \E f \in S : Before(f, S, before) = i - 1
    OBVIOUS
  <2>1. \E f \in S : places[f] = i
    <3> HIDE DEF places
    <3>1. QED BY <1>7 DEF Surjection
  <2>2. PICK f \in S : places[f] = i
    BY <2>1
  <2>3. Before(f, S, before) + 1 = i /\ Before(f, S, before) \in Nat
    BY <1>4, <2>2
  <2>4. Before(f, S, before) = i - 1
    BY <2>3
  <2>5. QED BY <2>4
<1>9. QED BY <1>1, <1>3, <1>4, <1>8 DEF Placing

(* What sorted() makes of a set. *)
LEMMA ArrangedIs ==
    ASSUME NEW S, IsFiniteSet(S), NEW before, Orders(before, S)
    PROVE  /\ Listing(Arranged(S, before), S)
           /\ \A i, j \in 1 .. Cardinality(S) :
                i < j => <<Arranged(S, before)[i], Arranged(S, before)[j]>> \in before
<1> DEFINE s == Arranged(S, before)
           n == Cardinality(S)
<1>0. Placing(S, before)
  BY EachHasPlace
<1>1. /\ n \in Nat
      /\ \A f \in S : Before(f, S, before) \in Nat /\ Before(f, S, before) + 1 \in 1 .. n
      /\ \A f, g \in S : <<f, g>> \in before => Before(f, S, before) < Before(g, S, before)
      /\ \A i \in 1 .. n : \E f \in S : Before(f, S, before) = i - 1
  BY <1>0 DEF Placing
<1>2. s = [i \in 1 .. n |-> CHOOSE f \in S : Before(f, S, before) = i - 1]
  BY DEF Arranged, Before
<1> HIDE DEF s, n
<1>3. \A i \in 1 .. n : s[i] \in S /\ Before(s[i], S, before) = i - 1
  BY <1>1, <1>2
<1>4. s \in [1 .. n -> S]
  BY <1>2, <1>3
<1>5. IsInjective(s)
  <2> SUFFICES ASSUME NEW i \in 1 .. n, NEW j \in 1 .. n, s[i] = s[j] PROVE i = j
    BY <1>4 DEF IsInjective
  <2>1. i - 1 = j - 1
    BY <1>3
  <2>2. QED BY <1>1, <2>1
<1>6. S \subseteq ToSet(s)
  <2> SUFFICES ASSUME NEW f \in S PROVE f \in ToSet(s)
    OBVIOUS
  <2>1. PICK i : i = Before(f, S, before) + 1
    OBVIOUS
  <2>2. i \in 1 .. n /\ Before(f, S, before) = i - 1
    BY <1>1, <2>1
  <2>3. s[i] \in S /\ Before(s[i], S, before) = Before(f, S, before)
    BY <1>3, <2>2
  <2>4. ~(<<s[i], f>> \in before) /\ ~(<<f, s[i]>> \in before)
    <3>1. Before(f, S, before) \in Nat
      BY <1>1
    <3>2. QED BY <1>1, <2>3, <3>1
  <2>5. s[i] = f
    BY <2>3, <2>4 DEF Orders
  <2>6. QED BY <1>4, <2>2, <2>5 DEF ToSet
<1>7. Listing(s, S)
  <2>1. Listing(s, ToSet(s)) /\ ToSet(s) \subseteq S
    BY <1>1, <1>4, <1>5, ListsItself
  <2>2. ToSet(s) = S
    BY <1>6, <2>1
  <2>3. QED BY <2>1, <2>2
<1>8. \A i, j \in 1 .. n : i < j => <<s[i], s[j]>> \in before
  <2> SUFFICES ASSUME NEW i \in 1 .. n, NEW j \in 1 .. n, i < j
               PROVE  <<s[i], s[j]>> \in before
    OBVIOUS
  <2>1. /\ s[i] \in S /\ Before(s[i], S, before) = i - 1
        /\ s[j] \in S /\ Before(s[j], S, before) = j - 1
    BY <1>3
  <2>2. s[i] # s[j]
    BY <1>1, <2>1
  <2>3. ~(<<s[j], s[i]>> \in before)
    <3> SUFFICES ASSUME <<s[j], s[i]>> \in before PROVE FALSE
      OBVIOUS
    <3>1. j - 1 < i - 1
      BY <1>1, <2>1
    <3>2. QED BY <1>1, <3>1
  <2>4. QED BY <2>1, <2>2, <2>3 DEF Orders
<1>9. QED BY <1>7, <1>8 DEF s, n

(* The lesser of two numbers *)
LEMMA AtMostIs ==
    ASSUME NEW m \in Nat, NEW n \in Nat
    PROVE  /\ AtMost(m, n) \in Nat /\ AtMost(m, n) <= m /\ AtMost(m, n) <= n
           /\ AtMost(m, n) \in {m, n}
           /\ m <= n => AtMost(m, n) = m
           /\ n <= m => AtMost(m, n) = n
BY DEF AtMost

(* The first of a sequence *)
LEMMA TakeIs ==
    ASSUME NEW S, NEW s \in Seq(S), NEW n \in Nat
    PROVE  /\ Take(s, n) \in Seq(S)
           /\ Len(Take(s, n)) = AtMost(n, Len(s)) /\ AtMost(n, Len(s)) \in Nat
           /\ AtMost(n, Len(s)) <= n /\ AtMost(n, Len(s)) <= Len(s)
           /\ \A i \in 1 .. AtMost(n, Len(s)) : Take(s, n)[i] = s[i]
<1> DEFINE m == AtMost(n, Len(s))
<1>1. Len(s) \in Nat /\ \A i \in 1 .. Len(s) : s[i] \in S
  BY LenProperties, ElementOfSeq
<1>2. m \in Nat /\ m <= n /\ m <= Len(s)
  BY <1>1 DEF AtMost
<1>3. Take(s, n) = SubSeq(s, 1, m)
  BY DEF Take
<1> HIDE DEF m
<1>4. \A i \in 1 .. m : s[i] \in S
  BY <1>1, <1>2
<1> DEFINE one == 1
<1>5. one \in Int /\ m \in Int /\ \A i \in one .. m : s[i] \in S
  BY <1>2, <1>4
<1> HIDE DEF one
<1>6. /\ SubSeq(s, one, m) \in Seq(S)
      /\ Len(SubSeq(s, one, m)) = IF one <= m THEN m - one + 1 ELSE 0
      /\ \A i \in 1 .. m - one + 1 : SubSeq(s, one, m)[i] = s[one + i - 1]
  BY <1>5, SubSeqProperties
<1>7. Take(s, n) = SubSeq(s, one, m)
  BY <1>3 DEF one
<1>8. Len(Take(s, n)) = m
  BY <1>2, <1>6, <1>7 DEF one
<1>9. \A i \in 1 .. m : Take(s, n)[i] = s[i]
  <2> SUFFICES ASSUME NEW i \in 1 .. m PROVE Take(s, n)[i] = s[i]
    OBVIOUS
  <2>1. i \in 1 .. m - one + 1 /\ one + i - 1 = i
    BY <1>2 DEF one
  <2>2. QED BY <1>6, <1>7, <2>1
<1>10. QED BY <1>2, <1>6, <1>7, <1>8, <1>9 DEF m

(* The first of a listing are a listing. *)
LEMMA TakeLists ==
    ASSUME NEW S, NEW s, Listing(s, S), NEW n \in Nat
    PROVE  /\ Listing(Take(s, n), ToSet(Take(s, n)))
           /\ ToSet(Take(s, n)) \subseteq S
           /\ Len(s) <= n => ToSet(Take(s, n)) = S
<1> DEFINE t == Take(s, n)
           m == AtMost(n, Len(s))
<1>1. /\ Len(s) \in Nat /\ DOMAIN s = 1 .. Len(s) /\ s \in Seq(S)
      /\ \A i \in 1 .. Len(s) : s[i] \in S
  BY ListingIs DEF Listing
<1>2. /\ t \in Seq(S) /\ Len(t) = m /\ m \in Nat /\ m <= Len(s)
      /\ \A i \in 1 .. m : t[i] = s[i]
  BY <1>1, TakeIs
<1>3. Len(s) <= n => m = Len(s)
  <2>1. \A k \in Nat : k <= n => ~(n < k)
    OBVIOUS
  <2>2. QED BY <1>1, <2>1 DEF AtMost
<1> HIDE DEF t, m
<1>4. DOMAIN t = 1 .. m /\ t \in [1 .. m -> S]
  BY <1>2, LenProperties
<1>5. IsInjective(t)
  BY <1>1, <1>2, <1>4 DEF IsInjective, Listing
<1>6. Listing(t, ToSet(t)) /\ ToSet(t) \subseteq S
  BY <1>2, <1>4, <1>5, ListsItself
<1>7. m = Len(s) => ToSet(t) = S
  BY <1>1, <1>2, <1>4 DEF ToSet, Listing
<1>8. QED BY <1>3, <1>6, <1>7 DEF t

(* Two listings without a common element, one after the other. *)
LEMMA ConcatLists ==
    ASSUME NEW S, NEW T, S \cap T = {}, NEW s, NEW t, Listing(s, S), Listing(t, T)
    PROVE  Listing(s \o t, S \cup T) /\ Len(s \o t) = Len(s) + Len(t)
<1>1. /\ Len(s) \in Nat /\ DOMAIN s = 1 .. Len(s) /\ \A i \in 1 .. Len(s) : s[i] \in S
      /\ Len(t) \in Nat /\ DOMAIN t = 1 .. Len(t) /\ \A i \in 1 .. Len(t) : t[i] \in T
  <2>1. Len(s) \in Nat /\ DOMAIN s = 1 .. Len(s) /\ s \in [1 .. Len(s) -> S]
    BY ListingIs
  <2>2. Len(t) \in Nat /\ DOMAIN t = 1 .. Len(t) /\ t \in [1 .. Len(t) -> T]
    BY ListingIs
  <2>3. QED BY <2>1, <2>2
<1>2. s \in Seq(S \cup T) /\ t \in Seq(S \cup T)
  BY DEF Listing
<1>3. /\ s \o t \in Seq(S \cup T)
      /\ Len(s \o t) = Len(s) + Len(t)
      /\ \A i \in 1 .. Len(s) + Len(t) :
            (s \o t)[i] = IF i <= Len(s) THEN s[i] ELSE t[i - Len(s)]
  BY <1>2, ConcatProperties
<1>4. PICK u, m, n : u = s \o t /\ m = Len(s) /\ n = Len(t)
  OBVIOUS
<1>5. /\ m \in Nat /\ n \in Nat /\ DOMAIN u = 1 .. m + n /\ u \in Seq(S \cup T)
      /\ \A i \in 1 .. m : u[i] = s[i]
      /\ \A j \in 1 .. n : m + j \in 1 .. m + n /\ u[m + j] = t[j]
      /\ \A i \in 1 .. m + n : i <= m \/ i - m \in 1 .. n
  <2>1. m \in Nat /\ n \in Nat /\ u \in Seq(S \cup T) /\ Len(u) = m + n
    BY <1>1, <1>3, <1>4
  <2>2. DOMAIN u = 1 .. m + n
    BY <2>1
  <2>3. \A i \in 1 .. m + n : u[i] = IF i <= m THEN s[i] ELSE t[i - m]
    BY <1>3, <1>4
  <2>4. QED BY <2>1, <2>2, <2>3
<1>6. IsInjective(u)
  <2> SUFFICES ASSUME NEW i \in 1 .. m + n, NEW j \in 1 .. m + n, u[i] = u[j] PROVE i = j
    BY <1>5 DEF IsInjective
  <2>1. \A k \in 1 .. m + n : k <= m => k \in 1 .. m /\ u[k] = s[k] /\ u[k] \in S
    BY <1>1, <1>4, <1>5
  <2>2. \A k \in 1 .. m + n : ~(k <= m) => k - m \in 1 .. n /\ u[k] = t[k - m] /\ u[k] \in T
    <3> SUFFICES ASSUME NEW k \in 1 .. m + n, ~(k <= m)
                 PROVE  k - m \in 1 .. n /\ u[k] = t[k - m] /\ u[k] \in T
      OBVIOUS
    <3>1. k - m \in 1 .. n /\ m + (k - m) = k
      BY <1>5
    <3>2. u[k] = t[k - m]
      BY <1>5, <3>1
    <3>3. QED BY <1>1, <1>4, <3>1, <3>2
  <2>3. CASE i <= m /\ j <= m
    BY <1>1, <1>4, <2>1, <2>3 DEF Listing, IsInjective
  <2>4. CASE ~(i <= m) /\ ~(j <= m)
    <3>1. i - m = j - m
      BY <1>1, <1>4, <2>2, <2>4 DEF Listing, IsInjective
    <3>2. QED BY <1>5, <3>1
  <2>5. CASE (i <= m /\ ~(j <= m)) \/ (~(i <= m) /\ j <= m)
    BY <2>1, <2>2, <2>5
  <2>6. QED BY <2>3, <2>4, <2>5
<1>7. ToSet(u) = S \cup T
  <2>1. ToSet(u) \subseteq S \cup T
    BY <1>5 DEF ToSet
  <2>2. \A x \in S : x \in ToSet(u)
    <3> SUFFICES ASSUME NEW x \in S PROVE x \in ToSet(u)
      OBVIOUS
    <3>1. PICK i \in 1 .. m : s[i] = x
      BY <1>1, <1>4 DEF Listing, ToSet
    <3>2. QED BY <1>5, <3>1 DEF ToSet
  <2>3. \A x \in T : x \in ToSet(u)
    <3> SUFFICES ASSUME NEW x \in T PROVE x \in ToSet(u)
      OBVIOUS
    <3>1. PICK j \in 1 .. n : t[j] = x
      BY <1>1, <1>4 DEF Listing, ToSet
    <3>2. QED BY <1>5, <3>1 DEF ToSet
  <2>4. QED BY <2>1, <2>2, <2>3
<1>8. QED BY <1>3, <1>4, <1>5, <1>6, <1>7 DEF Listing

(* Numbers in increasing order: there is one way to list them. *)
Increasing(h) == \A i, j \in DOMAIN h : i < j => h[i] < h[j]

LEMMA OneOrder ==
    ASSUME NEW K \in SUBSET Nat, NEW g, NEW h, Listing(g, K), Listing(h, K),
           Increasing(g), Increasing(h)
    PROVE  g = h
<1>1. /\ Len(g) \in Nat /\ DOMAIN g = 1 .. Len(g) /\ g \in [1 .. Len(g) -> K]
      /\ Cardinality(K) = Len(g)
  BY ListingIs
<1>2. DOMAIN h = 1 .. Len(h) /\ h \in [1 .. Len(h) -> K] /\ Cardinality(K) = Len(h)
  BY ListingIs
<1>3. PICK n \in Nat : g \in [1 .. n -> K] /\ h \in [1 .. n -> K]
  BY <1>1, <1>2
<1> DEFINE Differ == {i \in 1 .. n : g[i] # h[i]}
<1>4. Differ = {}
  <2> SUFFICES ASSUME Differ # {} PROVE FALSE
    OBVIOUS
  <2> DEFINE R == OpToRel(<, Nat)
  <2>1. /\ \A x, y \in Nat : x < y => <<x, y>> \in R
        /\ IsWellFoundedOn(R, Nat)
    BY NatLessThanWellFounded DEF OpToRel
  <2> HIDE DEF R
  <2>2. Differ \subseteq Nat
    BY <1>3
  <2>3. PICK k \in Differ : \A i \in Differ : <<i, k>> \notin R
    <3> HIDE DEF Differ
    <3>1. IsWellFoundedOn(R, Nat) /\ Differ # {} /\ Differ \subseteq Nat
      BY <2>1, <2>2
    <3>2. QED BY ONLY <3>1, WFMin
  <2>4. k \in 1 .. n /\ g[k] # h[k] /\ g[k] \in Nat /\ h[k] \in Nat
    BY <1>3
  <2>5. \A i \in 1 .. n : i < k => g[i] = h[i]
    BY <2>1, <2>2, <2>3
  <2>6. PICK i \in 1 .. n : h[i] = g[k]
    BY <1>3, <2>4 DEF Listing, ToSet
  <2>7. PICK j \in 1 .. n : g[j] = h[k]
    BY <1>3, <2>4 DEF Listing, ToSet
  <2>8. \A a, b \in 1 .. n : (a < b => g[a] < g[b]) /\ (a < b => h[a] < h[b])
    BY <1>3 DEF Increasing
  <2>9. \A a \in 1 .. n : g[a] \in Nat /\ h[a] \in Nat
    BY <1>3
  <2>10. ~(i < k)
    <3> SUFFICES ASSUME i < k PROVE FALSE
      OBVIOUS
    <3>1. g[i] = g[k] /\ g[i] < g[k]
      BY <2>4, <2>5, <2>6, <2>8
    <3>2. QED BY <2>4, <3>1
  <2>11. ~(j < k)
    <3> SUFFICES ASSUME j < k PROVE FALSE
      OBVIOUS
    <3>1. h[j] = h[k] /\ h[j] < h[k]
      BY <2>4, <2>5, <2>7, <2>8
    <3>2. QED BY <2>4, <3>1
  <2>12. i # k /\ j # k
    BY <2>4, <2>6, <2>7
  <2>13. k < i /\ k < j
    BY <2>4, <2>10, <2>11, <2>12
  <2>14. h[k] < g[k] /\ g[k] < h[k]
    BY <2>4, <2>6, <2>7, <2>8, <2>13
  <2>15. QED BY <2>4, <2>14
<1>5. QED BY <1>3, <1>4

(* The places of s that the elements of w have, in their order. *)
Picks(h, s, X, w) ==
    /\ Listing(h, {i \in DOMAIN s : s[i] \notin X}) /\ Increasing(h)
    /\ w = [k \in 1 .. Len(h) |-> s[h[k]]]

(* What is left of a sequence is in its order. *)
LEMMA WithoutPicks ==
    ASSUME NEW S, NEW s \in Seq(S), NEW X
    PROVE  \E h : Picks(h, s, X, Without(s, X))
<1> DEFINE kept == {i \in DOMAIN s : s[i] \notin X}
           before == {p \in kept \X kept : p[1] < p[2]}
           h == Arranged(kept, before)
<1>1. Len(s) \in Nat /\ DOMAIN s = 1 .. Len(s)
  BY LenProperties
<1>2. IsFiniteSet(kept) /\ kept \subseteq Nat
  <2>1. IsFiniteSet(1 .. Len(s))
    BY <1>1, FS_Interval
  <2>2. kept \in SUBSET (1 .. Len(s))
    BY <1>1
  <2>3. kept \subseteq Nat
    BY <1>1
  <2> HIDE DEF kept
  <2>4. IsFiniteSet(kept)
    BY <2>1, <2>2, FS_Subset
  <2>5. QED BY <2>3, <2>4
<1>3. Without(s, X) = [k \in 1 .. Cardinality(kept) |-> s[h[k]]]
  BY DEF Without
<1> HIDE DEF kept
<1>4. Orders(before, kept)
  <2>1. \A i, j \in kept : <<i, j>> \in before <=> i < j
    OBVIOUS
  <2> HIDE DEF before
  <2>2. QED BY <1>2, <2>1 DEF Orders
<1>5. /\ Listing(h, kept)
      /\ \A i, j \in 1 .. Cardinality(kept) : i < j => <<h[i], h[j]>> \in before
  <2> HIDE DEF before
  <2>1. QED BY <1>2, <1>4, ArrangedIs
<1>6. \A i, j \in 1 .. Cardinality(kept) : i < j => h[i] < h[j]
  <2> HIDE DEF h
  <2>1. QED BY <1>5
<1> HIDE DEF h, before
<1>7. DOMAIN h = 1 .. Len(h) /\ Cardinality(kept) = Len(h)
  BY <1>5, ListingIs
<1>8. Picks(h, s, X, Without(s, X))
  BY <1>3, <1>5, <1>6, <1>7 DEF Picks, Increasing, kept
<1>9. QED BY <1>8

(* What is left of a listing is a listing of what is left. *)
LEMMA WithoutLists ==
    ASSUME NEW S, NEW s, Listing(s, S), NEW X
    PROVE  Listing(Without(s, X), S \ X)
<1>1. s \in Seq(S) /\ DOMAIN s = 1 .. Len(s) /\ s \in [1 .. Len(s) -> S]
  BY ListingIs DEF Listing
<1>2. PICK h : Picks(h, s, X, Without(s, X))
  BY <1>1, WithoutPicks
<1> DEFINE w == Without(s, X)
           kept == {i \in DOMAIN s : s[i] \notin X}
<1>3. Listing(h, kept) /\ w = [k \in 1 .. Len(h) |-> s[h[k]]]
  BY <1>2 DEF Picks
<1> HIDE DEF w, kept
<1>4. Len(h) \in Nat /\ DOMAIN h = 1 .. Len(h) /\ h \in [1 .. Len(h) -> kept]
  BY <1>3, ListingIs
<1>5. \A i \in kept : i \in DOMAIN s /\ s[i] \in S \ X
  BY <1>1 DEF kept
<1>6. w \in [1 .. Len(h) -> S \ X]
  BY <1>3, <1>4, <1>5
<1>7. IsInjective(w)
  BY <1>3, <1>4, <1>5, <1>6 DEF IsInjective, Listing
<1>8. ToSet(w) = S \ X
  <2>1. ToSet(w) \subseteq S \ X
    BY <1>6 DEF ToSet
  <2>2. ASSUME NEW x \in S \ X PROVE x \in ToSet(w)
    <3>1. PICK i \in DOMAIN s : s[i] = x
      BY DEF Listing, ToSet
    <3>2. i \in kept
      BY <3>1 DEF kept
    <3>3. PICK k \in 1 .. Len(h) : h[k] = i
      BY <1>3, <1>4, <3>2 DEF Listing, ToSet
    <3>4. w[k] = x
      BY <1>3, <3>1, <3>3
    <3>5. QED BY <1>6, <3>4 DEF ToSet
  <2>3. QED BY <2>1, <2>2
<1>9. Listing(w, ToSet(w))
  BY <1>4, <1>6, <1>7, ListsItself
<1>10. QED BY <1>8, <1>9 DEF w

(* What comes after the first of a sequence *)
LEMMA AfterIs ==
    ASSUME NEW S, NEW w \in Seq(S), NEW k \in Nat
    PROVE  /\ SubSeq(w, k + 1, Len(w)) = [i \in 1 .. Len(w) - k |-> w[k + i]]
           /\ SubSeq(w, k + 1, Len(w)) \in Seq(S)
           /\ k <= Len(w) => Len(SubSeq(w, k + 1, Len(w))) = Len(w) - k
<1>1. PICK a, n : a = k + 1 /\ n = Len(w)
  OBVIOUS
<1>2. a \in Int /\ n \in Nat /\ n \in Int
  BY <1>1, LenProperties
<1>3. \A i \in a .. n : w[i] \in S
  <2>1. \A i \in 1 .. n : w[i] \in S
    BY <1>1, ElementOfSeq
  <2>2. QED BY <1>1, <1>2, <2>1
<1>4. /\ SubSeq(w, a, n) \in Seq(S)
      /\ Len(SubSeq(w, a, n)) = IF a <= n THEN n - a + 1 ELSE 0
      /\ \A i \in 1 .. n - a + 1 : SubSeq(w, a, n)[i] = w[a + i - 1]
  BY <1>2, <1>3, SubSeqProperties
<1>5. PICK u : u = SubSeq(w, a, n)
  OBVIOUS
<1>6. Len(u) = IF k <= n THEN n - k ELSE 0
  BY <1>1, <1>2, <1>4, <1>5
<1>7. 1 .. Len(u) = 1 .. n - k
  <2>1. CASE k <= n
    BY <1>6, <2>1
  <2>2. CASE ~(k <= n)
    <3>1. Len(u) = 0 /\ n - k < 0 /\ n - k \in Int
      BY <1>2, <1>6, <2>2
    <3>2. 1 .. Len(u) = {} /\ 1 .. n - k = {}
      BY <3>1
    <3>3. QED BY <3>2
  <2>3. QED BY <2>1, <2>2
<1>8. u \in [1 .. n - k -> S]
  <2>1. u \in Seq(S)
    BY <1>4, <1>5
  <2>2. u \in [1 .. Len(u) -> S]
    BY <2>1, LenProperties
  <2>3. QED BY <1>7, <2>2
<1>9. \A i \in 1 .. n - k : u[i] = w[k + i]
  <2> SUFFICES ASSUME NEW i \in 1 .. n - k PROVE u[i] = w[k + i]
    OBVIOUS
  <2>1. i \in 1 .. n - a + 1 /\ a + i - 1 = k + i
    BY <1>1, <1>2
  <2>2. u[i] = w[a + i - 1]
    BY <1>4, <1>5, <2>1
  <2>3. QED BY <2>1, <2>2
<1>10. u = [i \in 1 .. n - k |-> w[k + i]]
  BY <1>8, <1>9
<1>11. k <= n => Len(u) = n - k
  BY <1>6
<1>12. QED BY <1>1, <1>4, <1>5, <1>10, <1>11

(* Leaving out the first of what is left leaves what comes after them. *)
LEMMA WithoutMore ==
    ASSUME NEW S, NEW s, Listing(s, S), NEW X, NEW k \in Nat, k <= Len(Without(s, X))
    PROVE  Without(s, X \cup ToSet(Take(Without(s, X), k))) =
                SubSeq(Without(s, X), k + 1, Len(Without(s, X)))
<1> DEFINE w == Without(s, X)
           P == ToSet(Take(w, k))
           v == Without(s, X \cup P)
           kept == {i \in DOMAIN s : s[i] \notin X}
           left == {i \in DOMAIN s : s[i] \notin X \cup P}
<1>1. s \in Seq(S) /\ DOMAIN s = 1 .. Len(s) /\ s \in [1 .. Len(s) -> S] /\ Len(s) \in Nat
  BY ListingIs DEF Listing
<1>2. /\ \E h : Picks(h, s, X, w)
      /\ \E g : Picks(g, s, X \cup P, v)
  <2>1. \A Y : \E h : Picks(h, s, Y, Without(s, Y))
    BY <1>1, WithoutPicks
  <2>2. QED BY <2>1
<1>3. PICK h : Picks(h, s, X, w)
  BY <1>2
<1>4. PICK g : Picks(g, s, X \cup P, v)
  BY <1>2
<1>5. /\ Listing(h, kept) /\ Increasing(h) /\ w = [i \in 1 .. Len(h) |-> s[h[i]]]
      /\ Listing(g, left) /\ Increasing(g) /\ v = [i \in 1 .. Len(g) |-> s[g[i]]]
  BY <1>3, <1>4 DEF Picks
<1>6. Listing(w, S \ X)
  BY WithoutLists
<1>7. /\ w \in Seq(S) /\ k <= Len(w)
      /\ Len(w) \in Nat /\ DOMAIN w = 1 .. Len(w) /\ IsInjective(w)
  <2> HIDE DEF w
  <2>1. w \in Seq(S \ X) /\ Len(w) \in Nat /\ DOMAIN w = 1 .. Len(w)
    BY <1>6, ListingIs DEF Listing
  <2>2. QED BY <1>6, <2>1 DEF Listing, w
<1> HIDE DEF w, v, kept, left
<1>8. P = {w[i] : i \in 1 .. k}
  <2>1. /\ Take(w, k) \in Seq(S) /\ Len(Take(w, k)) = AtMost(k, Len(w))
        /\ \A i \in 1 .. AtMost(k, Len(w)) : Take(w, k)[i] = w[i]
    BY <1>7, TakeIs
  <2>2. AtMost(k, Len(w)) = k
    BY <1>7, AtMostIs
  <2>3. DOMAIN Take(w, k) = 1 .. k
    BY <2>1, <2>2
  <2>4. QED BY <2>1, <2>2, <2>3 DEF ToSet
<1> HIDE DEF P
<1>9. /\ Len(h) \in Nat /\ DOMAIN h = 1 .. Len(h) /\ h \in [1 .. Len(h) -> kept]
      /\ Len(g) \in Nat /\ DOMAIN g = 1 .. Len(g)
  <2>1. Len(h) \in Nat /\ DOMAIN h = 1 .. Len(h) /\ h \in [1 .. Len(h) -> kept]
    BY <1>5, ListingIs
  <2>2. Len(g) \in Nat /\ DOMAIN g = 1 .. Len(g)
    BY <1>5, ListingIs
  <2>3. QED BY <2>1, <2>2
<1>10. PICK n \in Nat : n = Len(h) /\ n = Len(w)
  <2>1. Len(w) = Len(h)
    BY <1>5, <1>9
  <2>2. QED BY <1>9, <2>1
<1>11. /\ w = [i \in 1 .. n |-> s[h[i]]] /\ h \in [1 .. n -> kept] /\ k <= n
       /\ \A i \in 1 .. n : w[i] = s[h[i]] /\ h[i] \in Nat /\ h[i] \in DOMAIN s
       /\ kept \subseteq DOMAIN s /\ left \subseteq DOMAIN s /\ DOMAIN s \subseteq Nat
  BY <1>1, <1>5, <1>7, <1>9, <1>10 DEF kept, left
<1> DEFINE t == [i \in 1 .. n - k |-> h[k + i]]
<1>12. \A i \in 1 .. n - k : k + i \in 1 .. n /\ t[i] = h[k + i]
  BY <1>11
<1>13. \A i \in 1 .. n : h[i] \in left <=> k < i
  <2> SUFFICES ASSUME NEW i \in 1 .. n PROVE h[i] \in left <=> k < i
    OBVIOUS
  <2>1. h[i] \in kept /\ h[i] \in DOMAIN s /\ w[i] = s[h[i]]
    BY <1>11
  <2>2. h[i] \in left <=> w[i] \notin P
    BY <2>1 DEF left, kept
  <2>3. w[i] \in P <=> i <= k
    <3>1. i <= k => w[i] \in P
      BY <1>8
    <3>2. ASSUME w[i] \in P PROVE i <= k
      <4>1. PICK j \in 1 .. k : w[j] = w[i]
        BY <1>8, <3>2
      <4>2. j \in 1 .. n
        BY <1>11
      <4>3. j = i
        BY <1>7, <1>10, <4>1, <4>2 DEF IsInjective
      <4>4. QED BY <4>3
    <3>3. QED BY <3>1, <3>2
  <2>4. QED BY <2>2, <2>3
<1>14. t \in [1 .. n - k -> left]
  BY <1>12, <1>13
<1>15. n - k \in Nat
  BY <1>11
<1>16. IsInjective(t) /\ Increasing(t)
  <2>1. ASSUME NEW i \in 1 .. n - k, NEW j \in 1 .. n - k
        PROVE  (t[i] = t[j] => i = j) /\ (i < j => t[i] < t[j])
    <3>1. k + i \in 1 .. n /\ k + j \in 1 .. n /\ t[i] = h[k + i] /\ t[j] = h[k + j]
      BY <1>12
    <3>2. h[k + i] = h[k + j] => k + i = k + j
      BY <1>5, <1>9, <1>10, <3>1 DEF Listing, IsInjective
    <3>3. k + i < k + j => h[k + i] < h[k + j]
      BY <1>5, <1>9, <1>10, <3>1 DEF Increasing
    <3>4. QED BY <3>1, <3>2, <3>3
  <2>2. DOMAIN t = 1 .. n - k
    OBVIOUS
  <2> HIDE DEF t
  <2>3. QED BY <2>1, <2>2 DEF IsInjective, Increasing
<1>17. ToSet(t) = left
  <2>1. ASSUME NEW x \in left PROVE x \in ToSet(t)
    <3>1. x \in kept
      BY DEF left, kept
    <3>2. PICK i \in 1 .. n : h[i] = x
      BY <1>5, <1>9, <1>10, <3>1 DEF Listing, ToSet
    <3>3. k < i
      BY <1>13, <3>2
    <3>4. i - k \in 1 .. n - k /\ k + (i - k) = i
      BY <3>3
    <3>5. t[i - k] = x
      BY <1>12, <3>2, <3>4
    <3>6. QED BY <1>14, <3>4, <3>5 DEF ToSet
  <2>2. ToSet(t) \subseteq left
    BY <1>14 DEF ToSet
  <2>3. QED BY <2>1, <2>2
<1>18. Listing(t, left) /\ Len(t) = n - k
  <2> HIDE DEF t
  <2>1. Listing(t, ToSet(t)) /\ Len(t) = n - k
    BY <1>14, <1>15, <1>16, ListsItself
  <2>2. QED BY <1>17, <2>1
<1>19. g = t
  <2>1. left \in SUBSET Nat
    BY <1>11
  <2> HIDE DEF t
  <2>2. QED BY <1>5, <1>16, <1>18, <2>1, OneOrder
<1>20. v = [i \in 1 .. n - k |-> w[k + i]]
  <2>1. v = [i \in 1 .. n - k |-> s[g[i]]]
    BY <1>5, <1>18, <1>19
  <2>2. \A i \in 1 .. n - k : s[g[i]] = w[k + i]
    BY <1>11, <1>12, <1>19
  <2>3. QED BY <2>1, <2>2
<1>21. SubSeq(w, k + 1, n) = [i \in 1 .. n - k |-> w[k + i]]
  BY <1>7, <1>10, AfterIs
<1>22. QED BY <1>10, <1>20, <1>21 DEF w, v, P

(* One file of each directory in turn is each file once. *)
LEMMA DiverseLists ==
    ASSUME NEW S \in SUBSET Sources
    PROVE  Listing(DiverseOrder(S), S)
<1>1. /\ IsFiniteSet(S) /\ Directory \in [Sources -> Nat]
      /\ Digest \in [Sources -> Nat] /\ IsInjective(Digest)
  BY PlanningAssumption, FS_Subset
<1> DEFINE earlier(f) == {g \in S : /\ Directory[g] = Directory[f]
                                    /\ Digest[g] < Digest[f]}
           d == [f \in S |-> Cardinality(earlier(f))]
           before == {p \in S \X S : \/ d[p[1]] < d[p[2]]
                                     \/ /\ d[p[1]] = d[p[2]]
                                        /\ Directory[p[1]] < Directory[p[2]]}
<1>2. DiverseOrder(S) = Arranged(S, before)
  <2>1. before = {p \in S \X S :
                    \/ Cardinality(earlier(p[1])) < Cardinality(earlier(p[2]))
                    \/ /\ Cardinality(earlier(p[1])) = Cardinality(earlier(p[2]))
                       /\ Directory[p[1]] < Directory[p[2]]}
    <3>1. \A p \in S \X S : /\ d[p[1]] = Cardinality(earlier(p[1]))
                            /\ d[p[2]] = Cardinality(earlier(p[2]))
      OBVIOUS
    <3> HIDE DEF d, earlier
    <3>2. QED BY <3>1
  <2>2. QED BY <2>1 DEF DiverseOrder
<1>3. ASSUME NEW f \in S PROVE IsFiniteSet(earlier(f)) /\ d[f] \in Nat
  <2>1. earlier(f) \in SUBSET S /\ d[f] = Cardinality(earlier(f))
    OBVIOUS
  <2> HIDE DEF earlier, d
  <2>2. QED BY <1>1, <2>1, FS_Subset, FS_CardinalityType
<1>4. ASSUME NEW f \in S, NEW g \in S, Directory[f] = Directory[g], Digest[f] < Digest[g]
      PROVE  d[f] < d[g]
  <2>1. earlier(f) \in SUBSET earlier(g) /\ f \in earlier(g) /\ f \notin earlier(f)
    BY <1>1, <1>4
  <2>2. d[f] = Cardinality(earlier(f)) /\ d[g] = Cardinality(earlier(g))
    OBVIOUS
  <2>3. IsFiniteSet(earlier(g)) /\ d[f] \in Nat /\ d[g] \in Nat
    BY <1>3
  <2> HIDE DEF earlier, d
  <2>4. d[f] <= d[g] /\ d[f] # d[g]
    BY <2>1, <2>2, <2>3, FS_Subset
  <2>5. QED BY <2>3, <2>4
<1>5. \A f, g \in S : f # g => \/ d[f] # d[g] \/ Directory[f] # Directory[g]
  <2> SUFFICES ASSUME NEW f \in S, NEW g \in S, f # g, Directory[f] = Directory[g]
               PROVE  d[f] # d[g]
    OBVIOUS
  <2>1. Digest[f] \in Nat /\ Digest[g] \in Nat /\ Digest[f] # Digest[g]
    BY <1>1 DEF IsInjective
  <2>2. Digest[f] < Digest[g] \/ Digest[g] < Digest[f]
    BY <2>1
  <2>3. d[f] < d[g] \/ d[g] < d[f]
    BY <1>4, <2>2
  <2>4. d[f] \in Nat /\ d[g] \in Nat
    BY <1>3
  <2> HIDE DEF d
  <2>5. QED BY <2>3, <2>4
<1>6. \A f \in S : d[f] \in Nat /\ Directory[f] \in Nat
  BY <1>1, <1>3
<1>7. \A f, g \in S : <<f, g>> \in before <=>
            d[f] < d[g] \/ (d[f] = d[g] /\ Directory[f] < Directory[g])
  <2> HIDE DEF d
  <2>1. QED OBVIOUS
<1> HIDE DEF d, before
<1>8. Orders(before, S)
  <2>1. \A f \in S : <<f, f>> \notin before
    BY <1>6, <1>7
  <2>2. \A f, g \in S : f # g => <<f, g>> \in before \/ <<g, f>> \in before
    BY <1>5, <1>6, <1>7
  <2>3. \A f, g, h \in S : <<f, g>> \in before /\ <<g, h>> \in before => <<f, h>> \in before
    BY <1>6, <1>7
  <2>4. QED BY <2>1, <2>2, <2>3 DEF Orders
<1>9. QED BY <1>1, <1>2, <1>8, ArrangedIs

(* What is pointed at directly is listed once. *)
LEMMA DirectLists ==
    ASSUME NEW files \in SUBSET Sources, NEW reported
    PROVE  Listing(DirectOrder(files, reported), files \cap (reported \cup Mapped))
<1> DEFINE S == files \cap (reported \cup Mapped)
           before == {p \in S \X S : \/ p[1] \in reported /\ p[2] \notin reported
                                     \/ /\ p[1] \in reported <=> p[2] \in reported
                                        /\ Name[p[1]] < Name[p[2]]}
<1>1. DirectOrder(files, reported) = Arranged(S, before)
  BY DEF DirectOrder
<1>2. /\ S \in SUBSET Sources /\ IsFiniteSet(Sources)
      /\ Name \in [Sources -> Nat] /\ IsInjective(Name)
  BY PlanningAssumption
<1>3. \A f, g \in S : <<f, g>> \in before <=>
            \/ f \in reported /\ g \notin reported
            \/ (f \in reported <=> g \in reported) /\ Name[f] < Name[g]
  OBVIOUS
<1> HIDE DEF S, before
<1>4. IsFiniteSet(S)
  BY <1>2, FS_Subset
<1>5. \A f \in S : Name[f] \in Nat
  BY <1>2
<1>6. \A f, g \in S : Name[f] = Name[g] => f = g
  BY <1>2 DEF IsInjective
<1>7. Orders(before, S)
  <2>1. \A f \in S : <<f, f>> \notin before
    BY <1>3, <1>5
  <2>2. \A f, g \in S : f # g => <<f, g>> \in before \/ <<g, f>> \in before
    BY <1>3, <1>5, <1>6
  <2>3. \A f, g, h \in S : <<f, g>> \in before /\ <<g, h>> \in before => <<f, h>> \in before
    BY <1>3, <1>5
  <2>4. QED BY <2>1, <2>2, <2>3 DEF Orders
<1>8. Listing(Arranged(S, before), S)
  BY <1>4, <1>7, ArrangedIs
<1>9. QED BY <1>1, <1>8 DEF S

(* The order of the sample has each file of the snapshot once. *)
LEMMA SampleLists ==
    ASSUME NEW files \in SUBSET Sources
    PROVE  Listing(SampleOrder(files), files)
<1> DEFINE A == files \ TestSources
           B == files \cap TestSources
<1>1. A \in SUBSET Sources /\ B \in SUBSET Sources /\ A \cap B = {} /\ A \cup B = files
  OBVIOUS
<1>2. SampleOrder(files) = DiverseOrder(A) \o DiverseOrder(B)
  BY DEF SampleOrder
<1> HIDE DEF A, B
<1>3. Listing(DiverseOrder(A), A) /\ Listing(DiverseOrder(B), B)
  BY <1>1, DiverseLists
<1>4. Listing(DiverseOrder(A) \o DiverseOrder(B), A \cup B)
  BY <1>1, <1>3, ConcatLists
<1>5. QED BY <1>1, <1>2, <1>4

(* How the regions are shared out *)
LEMMA SlotsAre ==
    ASSUME NEW files \in SUBSET Sources
    PROVE  /\ EvidenceSlots \in Nat /\ EvidenceSlots <= MaxRegions /\ MaxRegions \in Nat
           /\ SampleSlots = MaxRegions - EvidenceSlots /\ SampleSlots \in Nat
           /\ NeighborSlots(files) \in Nat /\ NeighborSlots(files) <= EvidenceSlots
           /\ Listing(Near(files), ToSet(Neighbors) \cap files)
<1>1. MaxRegions \in Nat /\ ReservedSample \in Nat /\ ReservedNeighbors \in Nat
  BY PlanningAssumption
<1>2. SampleSlots \in Nat /\ SampleSlots <= MaxRegions
  BY <1>1, AtMostIs DEF SampleSlots
<1>3. EvidenceSlots = MaxRegions - SampleSlots
  BY DEF EvidenceSlots
<1>4. /\ EvidenceSlots \in Nat /\ EvidenceSlots <= MaxRegions
      /\ SampleSlots = MaxRegions - EvidenceSlots
  BY <1>1, <1>2, <1>3
<1>5. Listing(Neighbors, ToSet(Neighbors)) /\ ToSet(Neighbors) \subseteq Sources
  <2>1. /\ Neighbors \in [1 .. Len(Neighbors) -> Sources] /\ Len(Neighbors) \in Nat
        /\ IsInjective(Neighbors)
    BY PlanningAssumption, LenProperties
  <2>2. QED BY <2>1, ListsItself
<1>6. Listing(Near(files), ToSet(Neighbors) \cap files)
  <2>1. Listing(Near(files), ToSet(Neighbors) \ (Sources \ files))
    BY <1>5, WithoutLists DEF Near
  <2>2. ToSet(Neighbors) \ (Sources \ files) = ToSet(Neighbors) \cap files
    BY <1>5
  <2>3. QED BY <2>1, <2>2
<1>7. Len(Near(files)) \in Nat
  BY <1>6, ListingIs
<1>8. PICK m : m = AtMost(EvidenceSlots, Len(Near(files)))
  OBVIOUS
<1>9. m \in Nat /\ m <= EvidenceSlots
  BY <1>4, <1>7, <1>8, AtMostIs
<1>10. NeighborSlots(files) = AtMost(ReservedNeighbors, m)
  BY <1>8 DEF NeighborSlots
<1>11. NeighborSlots(files) \in Nat /\ NeighborSlots(files) <= m
  BY <1>1, <1>9, <1>10, AtMostIs
<1>12. NeighborSlots(files) <= EvidenceSlots
  BY <1>4, <1>9, <1>11
<1>13. QED BY <1>1, <1>2, <1>4, <1>6, <1>11, <1>12

(* The regions of a plan that are put there by evidence, and what becomes of the
   plan after them. *)
Evidenced(files, reported, ev, V) ==
    /\ Listing(ev, V)
    /\ V \subseteq files /\ V \subseteq reported \cup Mapped \cup ToSet(Neighbors)
    /\ Len(ev) <= EvidenceSlots
    /\ (files \cap (reported \cup Mapped)) \ V # {} => Len(ev) = EvidenceSlots
    /\ PlannedRegions(files, reported) =
            ev \o Take(Without(SampleOrder(files), V), MaxRegions - Len(ev))

LEMMA EvidenceComesFirst ==
    ASSUME NEW files \in SUBSET Sources, NEW reported
    PROVE  \E ev, V : Evidenced(files, reported, ev, V)
<1> DEFINE direct == DirectOrder(files, reported)
           E      == EvidenceSlots
           N      == NeighborSlots(files)
           D      == files \cap (reported \cup Mapped)
           first  == Take(direct, E - N)
           others == Without(Near(files), ToSet(first))
           near   == Take(others, N)
           rest   == Without(direct, ToSet(first \o near))
           second == Take(rest, E - Len(first \o near))
           ev     == first \o near \o second
           V      == ToSet(ev)
<1>1. PlannedRegions(files, reported) =
            ev \o Take(Without(SampleOrder(files), V), MaxRegions - Len(ev))
  BY DEF PlannedRegions
<1>2. /\ E \in Nat /\ N \in Nat /\ E - N \in Nat
      /\ Listing(Near(files), ToSet(Neighbors) \cap files)
  <2>1. /\ EvidenceSlots \in Nat /\ NeighborSlots(files) \in Nat
        /\ NeighborSlots(files) <= EvidenceSlots
        /\ Listing(Near(files), ToSet(Neighbors) \cap files)
    BY SlotsAre
  <2>2. EvidenceSlots - NeighborSlots(files) \in Nat
    BY <2>1
  <2>3. QED BY <2>1, <2>2
<1>3. Listing(direct, D)
  BY DirectLists
<1> HIDE DEF direct, E, N, D
<1>4. /\ Listing(first, ToSet(first)) /\ ToSet(first) \subseteq D
      /\ Len(first) \in Nat /\ Len(first) <= E - N
  <2>1. Listing(first, ToSet(first)) /\ ToSet(first) \subseteq D
    BY <1>2, <1>3, TakeLists
  <2>2. direct \in Seq(D) /\ Len(direct) \in Nat
    BY <1>3, ListingIs DEF Listing
  <2>3. Len(first) \in Nat /\ Len(first) <= E - N
    BY <1>2, <2>2, TakeIs
  <2>4. QED BY <2>1, <2>3
<1> HIDE DEF first
<1>5. PICK F : F = ToSet(first)
  OBVIOUS
<1>6. Listing(others, (ToSet(Neighbors) \cap files) \ F)
  BY <1>2, <1>5, WithoutLists
<1> HIDE DEF others
<1>7. /\ Listing(near, ToSet(near)) /\ ToSet(near) \subseteq (ToSet(Neighbors) \cap files) \ F
      /\ Len(near) \in Nat /\ Len(near) <= N
  <2>1. /\ Listing(near, ToSet(near))
        /\ ToSet(near) \subseteq (ToSet(Neighbors) \cap files) \ F
    BY <1>2, <1>6, TakeLists
  <2>2. others \in Seq((ToSet(Neighbors) \cap files) \ F) /\ Len(others) \in Nat
    BY <1>6, ListingIs DEF Listing
  <2>3. Len(near) \in Nat /\ Len(near) <= N
    BY <1>2, <2>2, TakeIs
  <2>4. QED BY <2>1, <2>3
<1> HIDE DEF near
<1>8. PICK G : G = ToSet(near)
  OBVIOUS
<1>9. PICK fn : fn = first \o near
  OBVIOUS
<1>10. Listing(fn, F \cup G) /\ Len(fn) = Len(first) + Len(near) /\ ToSet(fn) = F \cup G
  <2>1. F \cap G = {}
    BY <1>7, <1>8
  <2>2. Listing(fn, F \cup G) /\ Len(fn) = Len(first) + Len(near)
    BY <1>4, <1>5, <1>7, <1>8, <1>9, <2>1, ConcatLists
  <2>3. QED BY <2>2 DEF Listing
<1>11. Len(fn) \in Nat /\ Len(fn) <= E /\ E - Len(fn) \in Nat
  BY <1>2, <1>4, <1>7, <1>10
<1>12. Listing(rest, D \ (F \cup G)) /\ second = Take(rest, E - Len(fn))
  <2>1. Listing(Without(direct, F \cup G), D \ (F \cup G))
    BY <1>3, WithoutLists
  <2>2. QED BY <1>9, <1>10, <2>1
<1> HIDE DEF rest
<1>13. /\ Listing(second, ToSet(second)) /\ ToSet(second) \subseteq D \ (F \cup G)
       /\ Len(second) \in Nat /\ Len(second) <= E - Len(fn)
       /\ \/ Len(second) = E - Len(fn)
          \/ ToSet(second) = D \ (F \cup G)
  <2>1. /\ Listing(second, ToSet(second)) /\ ToSet(second) \subseteq D \ (F \cup G)
        /\ Len(rest) <= E - Len(fn) => ToSet(second) = D \ (F \cup G)
    BY <1>11, <1>12, TakeLists
  <2>2. rest \in Seq(D \ (F \cup G)) /\ Len(rest) \in Nat
    BY <1>12, ListingIs DEF Listing
  <2>3. /\ Len(second) = AtMost(E - Len(fn), Len(rest))
        /\ Len(second) \in Nat /\ Len(second) <= E - Len(fn)
    BY <1>11, <1>12, <2>2, TakeIs
  <2>4. \/ Len(rest) <= E - Len(fn)
        \/ E - Len(fn) <= Len(rest) /\ Len(second) = E - Len(fn)
    <3>1. Len(rest) <= E - Len(fn) \/ E - Len(fn) <= Len(rest)
      BY <1>11, <2>2
    <3>2. QED BY <1>11, <2>2, <2>3, <3>1, AtMostIs
  <2>5. QED BY <2>1, <2>3, <2>4
<1> HIDE DEF second
<1>14. PICK H : H = ToSet(second)
  OBVIOUS
<1>15. Listing(ev, F \cup G \cup H) /\ Len(ev) = Len(fn) + Len(second)
  <2>1. (F \cup G) \cap H = {}
    BY <1>13, <1>14
  <2>2. Listing(fn \o second, (F \cup G) \cup H) /\ Len(fn \o second) = Len(fn) + Len(second)
    BY <1>10, <1>13, <1>14, <2>1, ConcatLists
  <2>3. QED BY <1>9, <2>2
<1>16. V = F \cup G \cup H
  BY <1>15 DEF Listing
<1> HIDE DEF ev, V
<1>17. Len(ev) <= E /\ (H = D \ (F \cup G) \/ Len(ev) = E)
  BY <1>2, <1>11, <1>13, <1>14, <1>15
<1>18. V \subseteq files /\ V \subseteq reported \cup Mapped \cup ToSet(Neighbors)
  BY <1>4, <1>5, <1>7, <1>8, <1>13, <1>14, <1>16 DEF D
<1>19. D \ V # {} => Len(ev) = E
  BY <1>16, <1>17
<1>20. Listing(ev, V)
  BY <1>15, <1>16
<1>21. Evidenced(files, reported, ev, V)
  BY <1>1, <1>17, <1>18, <1>19, <1>20 DEF Evidenced, D, E
<1>22. QED BY <1>21

(* A plan that has the regions that evidence puts there, then the sample, has
   each once and as many as it may.  What comes after the first n is taken from
   the sample alone, as if only those n had been chosen. *)
Planned(ev, s, V, m) == ev \o Take(Without(s, V), m - Len(ev))

PlanOf(p, ev, r, V, m, S) ==
    /\ Listing(p, ToSet(p)) /\ V \subseteq ToSet(p)
    /\ Listing(r, S \ V)
    /\ Len(p) = Len(ev) + AtMost(m - Len(ev), Len(r))
    /\ Len(p) = AtMost(m, Cardinality(S))
    /\ \A i \in 1 .. Len(ev) : p[i] = ev[i]
    /\ \A i \in 1 .. AtMost(m - Len(ev), Len(r)) : p[Len(ev) + i] = r[i]

LEMMA PlannedLists ==
    ASSUME NEW S, NEW s, Listing(s, S), NEW V \in SUBSET S, NEW ev, Listing(ev, V),
           NEW m \in Nat, Len(ev) <= m
    PROVE  PlanOf(Planned(ev, s, V, m), ev, Without(s, V), V, m, S)
<1> DEFINE p == Planned(ev, s, V, m)
           r == Without(s, V)
           t == Take(r, m - Len(ev))
<1>1. Listing(r, S \ V)
  BY WithoutLists
<1>2. p = ev \o t
  BY DEF Planned
<1> HIDE DEF r, p
<1>3. Len(ev) \in Nat /\ m - Len(ev) \in Nat /\ Len(r) \in Nat
  <2>1. Len(ev) \in Nat
    BY ListingIs
  <2>2. Len(r) \in Nat
    BY <1>1, ListingIs
  <2>3. QED BY <2>1, <2>2
<1>4. Cardinality(S) = Len(ev) + Len(r)
  <2>1. V \cap (S \ V) = {} /\ V \cup (S \ V) = S
    OBVIOUS
  <2>2. Listing(ev \o r, V \cup (S \ V)) /\ Len(ev \o r) = Len(ev) + Len(r)
    BY <1>1, <2>1, ConcatLists
  <2>3. Listing(ev \o r, S)
    BY <2>1, <2>2
  <2>4. Cardinality(S) = Len(ev \o r)
    BY <2>3, ListingIs
  <2>5. QED BY <2>2, <2>4
<1>5. /\ Listing(t, ToSet(t)) /\ ToSet(t) \subseteq S \ V
      /\ Len(t) = AtMost(m - Len(ev), Len(r)) /\ Len(t) \in Nat
      /\ \A i \in 1 .. Len(t) : t[i] = r[i]
  <2>1. Listing(t, ToSet(t)) /\ ToSet(t) \subseteq S \ V
    BY <1>1, <1>3, TakeLists
  <2>2. r \in Seq(S \ V)
    BY <1>1 DEF Listing
  <2>3. /\ Len(t) = AtMost(m - Len(ev), Len(r)) /\ AtMost(m - Len(ev), Len(r)) \in Nat
        /\ \A i \in 1 .. AtMost(m - Len(ev), Len(r)) : t[i] = r[i]
    BY <1>3, <2>2, TakeIs
  <2>4. QED BY <2>1, <2>3
<1> HIDE DEF t
<1>6. PICK T : T = ToSet(t)
  OBVIOUS
<1>7. Listing(p, V \cup T) /\ Len(p) = Len(ev) + Len(t) /\ ToSet(p) = V \cup T
  <2>1. V \cap T = {}
    BY <1>5, <1>6
  <2>2. Listing(t, T)
    BY <1>5, <1>6
  <2>3. Listing(ev \o t, V \cup T) /\ Len(ev \o t) = Len(ev) + Len(t)
    BY <2>1, <2>2, ConcatLists
  <2>4. Listing(p, V \cup T) /\ Len(p) = Len(ev) + Len(t)
    BY <1>2, <2>3
  <2>5. QED BY <2>4 DEF Listing
<1>8. /\ \A i \in 1 .. Len(ev) : p[i] = ev[i]
      /\ \A i \in 1 .. Len(t) : p[Len(ev) + i] = t[i]
  <2>1. ev \in Seq(S) /\ t \in Seq(S)
    <3>1. ev \in [1 .. Len(ev) -> V]
      BY ListingIs
    <3>2. t \in [1 .. Len(t) -> T]
      BY <1>5, <1>6, ListingIs
    <3>3. V \subseteq S /\ T \subseteq S
      BY <1>5, <1>6
    <3>4. ev \in [1 .. Len(ev) -> S] /\ t \in [1 .. Len(t) -> S]
      BY <3>1, <3>2, <3>3
    <3>5. QED BY <1>3, <1>5, <3>4
  <2>2. \A i \in 1 .. Len(ev) + Len(t) :
            (ev \o t)[i] = IF i <= Len(ev) THEN ev[i] ELSE t[i - Len(ev)]
    BY <2>1
  <2>3. \A i \in 1 .. Len(ev) : p[i] = ev[i]
    BY <1>2, <1>3, <1>5, <2>2
  <2>4. ASSUME NEW i \in 1 .. Len(t) PROVE p[Len(ev) + i] = t[i]
    <3>1. Len(ev) + i \in 1 .. Len(ev) + Len(t) /\ ~(Len(ev) + i <= Len(ev))
          /\ (Len(ev) + i) - Len(ev) = i
      BY <1>3, <1>5
    <3>2. QED BY <1>2, <2>2, <3>1
  <2>5. QED BY <2>3, <2>4
<1>9. Len(p) = AtMost(m, Cardinality(S))
  <2>1. Len(ev) + AtMost(m - Len(ev), Len(r)) = AtMost(m, Len(ev) + Len(r))
    BY <1>3 DEF AtMost
  <2>2. QED BY <1>4, <1>5, <1>7, <2>1
<1>10. /\ Listing(p, ToSet(p)) /\ V \subseteq ToSet(p)
       /\ Len(p) = Len(ev) + AtMost(m - Len(ev), Len(r))
  BY <1>5, <1>7
<1>11. \A i \in 1 .. AtMost(m - Len(ev), Len(r)) : p[Len(ev) + i] = r[i]
  BY <1>5, <1>8
<1>12. PlanOf(p, ev, r, V, m, S)
  BY <1>1, <1>8, <1>9, <1>10, <1>11 DEF PlanOf
<1>13. QED BY <1>12 DEF p, r

(* What n of them leave room for is taken of the others. *)
Halved(k, a, e, n, m, l) ==
    /\ k \in Nat /\ k <= l /\ a \in Nat
    /\ \/ k = l /\ a = l /\ k <= n - e
       \/ k = n - e /\ k <= l /\ k <= a /\ a - k = AtMost(m - n, l - k)

LEMMA Halves ==
    ASSUME NEW e \in Nat, NEW n \in Nat, NEW m \in Nat, NEW l \in Nat, e <= n, n <= m
    PROVE  Halved(AtMost(n - e, l), AtMost(m - e, l), e, n, m, l)
BY DEF AtMost, Halved

(* The sample after the first n regions of p depends on those n alone. *)
OnItsOwn(p, s, n, m) ==
    SubSeq(p, n + 1, Len(p)) = Take(Without(s, ToSet(Take(p, n))), m - n)

LEMMA SampleOnItsOwn ==
    ASSUME NEW S, NEW s, Listing(s, S), NEW V \in SUBSET S, NEW ev, Listing(ev, V),
           NEW m \in Nat, NEW n \in Nat, n <= m, Len(ev) <= n
    PROVE  OnItsOwn(Planned(ev, s, V, m), s, n, m)
<1> DEFINE p == Planned(ev, s, V, m)
           r == Without(s, V)
           k == AtMost(n - Len(ev), Len(r))
           t == Take(r, k)
           q == Take(p, n)
           u == Without(s, ToSet(q))
<1>1. /\ Listing(p, ToSet(p)) /\ Listing(r, S \ V)
      /\ Len(p) = Len(ev) + AtMost(m - Len(ev), Len(r))
      /\ \A i \in 1 .. Len(ev) : p[i] = ev[i]
      /\ \A i \in 1 .. AtMost(m - Len(ev), Len(r)) : p[Len(ev) + i] = r[i]
  <2>1. Len(ev) \in Nat
    BY ListingIs
  <2>2. Len(ev) <= m
    BY <2>1
  <2>3. PlanOf(p, ev, r, V, m, S)
    BY <2>2, PlannedLists
  <2>4. QED BY <2>3 DEF PlanOf
<1> HIDE DEF p, r
<1>2. Len(ev) \in Nat /\ Len(p) \in Nat /\ Len(r) \in Nat
  <2>1. Len(ev) \in Nat
    BY ListingIs
  <2>2. Len(p) \in Nat /\ Len(r) \in Nat
    BY <1>1, ListingIs
  <2>3. QED BY <2>1, <2>2
<1>3. n - Len(ev) \in Nat /\ m - n \in Nat /\ m - Len(ev) \in Nat
  BY <1>2
<1>4. PICK e : e = Len(ev)
  OBVIOUS
<1>5. PICK a : a = AtMost(m - Len(ev), Len(r))
  OBVIOUS
<1>6. /\ k \in Nat /\ k <= Len(r) /\ Len(p) = e + a /\ a \in Nat
      /\ \/ k = Len(r) /\ a = Len(r) /\ k <= n - e
         \/ k = n - e /\ k <= Len(r) /\ k <= a /\ a - k = AtMost(m - n, Len(r) - k)
  <2>1. Len(ev) <= n
    OBVIOUS
  <2>2. Halved(k, a, Len(ev), n, m, Len(r))
    BY <1>2, <1>5, <2>1, Halves
  <2>3. QED BY <1>1, <1>4, <1>5, <2>2 DEF Halved
<1> HIDE DEF k
<1>7. AtMost(n, Len(p)) = e + k
  BY <1>2, <1>4, <1>6 DEF AtMost
<1>8. q = ev \o t
  <2>1. p \in Seq(S \cup ToSet(p)) /\ r \in Seq(S) /\ ev \in Seq(S)
    <3>1. p \in [1 .. Len(p) -> ToSet(p)]
      BY <1>1, ListingIs
    <3>2. r \in [1 .. Len(r) -> S \ V]
      BY <1>1, ListingIs
    <3>3. ev \in [1 .. Len(ev) -> V]
      BY ListingIs
    <3>4. /\ p \in [1 .. Len(p) -> S \cup ToSet(p)]
          /\ r \in [1 .. Len(r) -> S] /\ ev \in [1 .. Len(ev) -> S]
      BY <3>1, <3>2, <3>3
    <3>5. QED BY <1>2, <3>4
  <2>2. /\ q \in Seq(S \cup ToSet(p)) /\ Len(q) = e + k
        /\ \A i \in 1 .. e + k : q[i] = p[i]
    <3>1. /\ Take(p, n) \in Seq(S \cup ToSet(p))
          /\ Len(Take(p, n)) = AtMost(n, Len(p))
          /\ \A i \in 1 .. AtMost(n, Len(p)) : Take(p, n)[i] = p[i]
      BY <2>1, TakeIs
    <3>2. QED BY <1>7, <3>1
  <2>3. t \in Seq(S) /\ Len(t) = k /\ \A i \in 1 .. k : t[i] = r[i]
    <3>1. /\ Take(r, k) \in Seq(S) /\ Len(Take(r, k)) = AtMost(k, Len(r))
          /\ \A i \in 1 .. AtMost(k, Len(r)) : Take(r, k)[i] = r[i]
      BY <1>6, <2>1, TakeIs
    <3>2. AtMost(k, Len(r)) = k
      BY <1>2, <1>6, AtMostIs
    <3>3. QED BY <3>1, <3>2
  <2> HIDE DEF q, t
  <2>4. /\ ev \o t \in Seq(S) /\ Len(ev \o t) = e + k
        /\ \A i \in 1 .. e + k : (ev \o t)[i] = IF i <= e THEN ev[i] ELSE t[i - e]
    <3>1. /\ ev \o t \in Seq(S) /\ Len(ev \o t) = Len(ev) + Len(t)
          /\ \A i \in 1 .. Len(ev) + Len(t) :
                (ev \o t)[i] = IF i <= Len(ev) THEN ev[i] ELSE t[i - Len(ev)]
      BY ONLY <2>1, <2>3
    <3>2. QED BY <1>4, <2>3, <3>1
  <2>5. ASSUME NEW i \in 1 .. e + k PROVE q[i] = (ev \o t)[i]
    <3>1. CASE i <= e
      <4>1. i \in 1 .. Len(ev)
        BY <1>2, <1>4, <3>1
      <4>2. p[i] = ev[i]
        BY <1>1, <4>1
      <4>3. QED BY <2>2, <2>4, <3>1, <4>2
    <3>2. CASE ~(i <= e)
      <4>1. i - e \in 1 .. k /\ e + (i - e) = i
        BY <1>2, <1>4, <1>6, <3>2
      <4>2. i - e \in 1 .. a
        BY <1>2, <1>4, <1>6, <4>1
      <4>3. p[Len(ev) + (i - e)] = r[i - e]
        BY <1>1, <1>5, <4>2
      <4>4. p[i] = t[i - e]
        BY <1>4, <2>3, <4>1, <4>3
      <4>5. QED BY <2>2, <2>4, <3>2, <4>4
    <3>3. QED BY <3>1, <3>2
  <2>6. QED
    <3>1. DOMAIN q = 1 .. e + k /\ DOMAIN (ev \o t) = 1 .. e + k
      BY <2>2, <2>4
    <3>2. q = [i \in 1 .. e + k |-> q[i]]
      BY <2>2, <3>1
    <3>3. PICK g : g = ev \o t
      OBVIOUS
    <3>4. g \in Seq(S) /\ DOMAIN g = 1 .. e + k
      BY <2>4, <3>1, <3>3
    <3>5. g = [i \in 1 .. e + k |-> g[i]]
      BY <3>4
    <3>6. \A i \in 1 .. e + k : q[i] = g[i]
      BY <2>5, <3>3
    <3>7. q = g
      BY <3>2, <3>5, <3>6
    <3>8. QED BY <3>3, <3>7
<1>9. ToSet(q) = V \cup ToSet(t)
  <2>1. Listing(t, ToSet(t)) /\ ToSet(t) \subseteq S \ V
    BY <1>1, <1>6, TakeLists
  <2> HIDE DEF t
  <2>2. PICK T : T = ToSet(t)
    OBVIOUS
  <2>3. Listing(t, T) /\ V \cap T = {}
    BY <2>1, <2>2
  <2>4. Listing(ev \o t, V \cup T)
    BY <2>3, ConcatLists
  <2>5. QED BY <1>8, <2>2, <2>4 DEF Listing
<1>10. u = SubSeq(r, k + 1, Len(r))
  <2>1. /\ k <= Len(Without(s, V)) /\ u = Without(s, V \cup ToSet(Take(Without(s, V), k)))
    BY <1>6, <1>9 DEF r
  <2>2. u = SubSeq(Without(s, V), k + 1, Len(Without(s, V)))
    BY <1>6, <2>1, WithoutMore
  <2>3. QED BY <2>2 DEF r
<1> HIDE DEF u, q, t
<1>11. /\ u = [i \in 1 .. Len(r) - k |-> r[k + i]] /\ u \in Seq(S) /\ Len(u) = Len(r) - k
       /\ Len(u) \in Nat
  <2>1. r \in Seq(S)
    <3>1. r \in [1 .. Len(r) -> S \ V]
      BY <1>1, ListingIs
    <3>2. r \in [1 .. Len(r) -> S]
      BY <3>1
    <3>3. QED BY <1>2, <3>2
  <2>2. /\ SubSeq(r, k + 1, Len(r)) = [i \in 1 .. Len(r) - k |-> r[k + i]]
        /\ SubSeq(r, k + 1, Len(r)) \in Seq(S)
        /\ Len(SubSeq(r, k + 1, Len(r))) = Len(r) - k
    BY <1>6, <2>1, AfterIs
  <2>3. QED BY <1>2, <1>6, <1>10, <2>2
<1>12. PICK x : x = Take(u, m - n)
  OBVIOUS
<1>13. /\ x \in Seq(S) /\ Len(x) = AtMost(m - n, Len(r) - k) /\ Len(x) \in Nat
       /\ \A i \in 1 .. Len(x) : x[i] = u[i]
       /\ Len(x) <= Len(r) - k
  <2>1. /\ Take(u, m - n) \in Seq(S) /\ Len(Take(u, m - n)) = AtMost(m - n, Len(u))
        /\ AtMost(m - n, Len(u)) \in Nat /\ AtMost(m - n, Len(u)) <= Len(u)
        /\ \A i \in 1 .. AtMost(m - n, Len(u)) : Take(u, m - n)[i] = u[i]
    <3>1. u \in Seq(S) /\ m - n \in Nat
      BY <1>3, <1>11
    <3>2. QED BY <3>1, TakeIs
  <2>2. QED BY <1>11, <1>12, <2>1
<1>14. PICK y : y = SubSeq(p, n + 1, Len(p))
  OBVIOUS
<1>15. y = [i \in 1 .. Len(p) - n |-> p[n + i]]
  <2>1. p \in Seq(ToSet(p))
    BY <1>1 DEF Listing
  <2>2. QED BY <1>14, <2>1, AfterIs
<1>16. x = [i \in 1 .. Len(x) |-> x[i]]
  BY <1>13
<1>17. x = y
  <2>1. CASE k = Len(r) /\ a = Len(r) /\ k <= n - e
    <3>1. Len(x) = 0
      BY <1>2, <1>6, <1>13, <2>1
    <3>2. 1 .. Len(p) - n = {} /\ 1 .. Len(x) = {}
      BY <1>2, <1>4, <1>6, <2>1, <3>1
    <3>3. QED BY <1>15, <1>16, <3>2
  <2>2. CASE k = n - e /\ k <= Len(r) /\ k <= a /\ a - k = AtMost(m - n, Len(r) - k)
    <3>1. Len(p) - n = Len(x)
      BY <1>2, <1>4, <1>6, <1>13, <2>2
    <3>2. ASSUME NEW i \in 1 .. Len(x) PROVE x[i] = p[n + i]
      <4>1. x[i] = u[i] /\ i \in 1 .. Len(r) - k
        BY <1>2, <1>6, <1>13
      <4>2. u[i] = r[k + i]
        BY <1>11, <4>1
      <4>3. k + i \in 1 .. a /\ e + (k + i) = n + i
        BY <1>2, <1>4, <1>6, <1>13, <2>2
      <4>4. p[Len(ev) + (k + i)] = r[k + i]
        BY <1>1, <1>5, <4>3
      <4>5. QED BY <1>4, <4>1, <4>2, <4>3, <4>4
    <3>3. QED BY <1>15, <1>16, <3>1, <3>2
  <2>3. QED BY <1>6, <2>1, <2>2
<1>18. OnItsOwn(p, s, n, m)
  BY <1>12, <1>14, <1>17 DEF OnItsOwn, q, u
<1>19. QED BY <1>18 DEF p

(* What PlanKeepsShares says of the regions p of a plan *)
SharesKept(p, files, reported) ==
    /\ IsInjective(p)
    /\ Len(p) = AtMost(MaxRegions, Cardinality(files))
    /\ SubSeq(p, EvidenceSlots + 1, Len(p)) =
            Take(Without(SampleOrder(files), ToSet(Take(p, EvidenceSlots))), SampleSlots)
    /\ (files \cap (reported \cup Mapped)) \ ToSet(p) # {} =>
            Cardinality(ToSet(p) \cap (reported \cup Mapped \cup ToSet(Neighbors)))
                >= EvidenceSlots

LEMMA PlanShares ==
    ASSUME NEW files \in SUBSET Sources, NEW reported
    PROVE  SharesKept(PlannedRegions(files, reported), files, reported)
<1> DEFINE p == PlannedRegions(files, reported)
           s == SampleOrder(files)
           D == files \cap (reported \cup Mapped)
           pointed == reported \cup Mapped \cup ToSet(Neighbors)
<1>1. PICK ev, V : Evidenced(files, reported, ev, V)
  BY EvidenceComesFirst
<1>2. /\ Listing(ev, V) /\ V \subseteq files /\ V \subseteq pointed
      /\ Len(ev) <= EvidenceSlots
      /\ D \ V # {} => Len(ev) = EvidenceSlots
      /\ p = Planned(ev, s, V, MaxRegions)
  BY <1>1 DEF Evidenced, Planned
<1>3. Listing(s, files)
  BY SampleLists
<1>4. /\ EvidenceSlots \in Nat /\ EvidenceSlots <= MaxRegions /\ MaxRegions \in Nat
      /\ SampleSlots = MaxRegions - EvidenceSlots
  <2>1. /\ EvidenceSlots \in Nat /\ EvidenceSlots <= MaxRegions /\ MaxRegions \in Nat
        /\ SampleSlots = MaxRegions - EvidenceSlots /\ SampleSlots \in Nat
        /\ NeighborSlots(files) \in Nat /\ NeighborSlots(files) <= EvidenceSlots
        /\ Listing(Near(files), ToSet(Neighbors) \cap files)
    BY SlotsAre
  <2>2. QED BY <2>1
<1> HIDE DEF p, s, D, pointed
<1>5. Len(ev) \in Nat /\ Len(ev) <= MaxRegions /\ Cardinality(V) = Len(ev)
  <2>1. Len(ev) \in Nat /\ Cardinality(V) = Len(ev)
    BY <1>2, ListingIs
  <2>2. QED BY <1>2, <1>4, <2>1
<1>6. /\ Listing(p, ToSet(p)) /\ V \subseteq ToSet(p)
      /\ Len(p) = AtMost(MaxRegions, Cardinality(files))
  <2>1. PlanOf(Planned(ev, s, V, MaxRegions), ev, Without(s, V), V, MaxRegions, files)
    BY <1>2, <1>3, <1>4, <1>5, PlannedLists
  <2>2. PlanOf(p, ev, Without(s, V), V, MaxRegions, files)
    BY <1>2, <2>1
  <2>3. QED BY <2>2 DEF PlanOf
<1>7. SubSeq(p, EvidenceSlots + 1, Len(p)) =
            Take(Without(s, ToSet(Take(p, EvidenceSlots))), SampleSlots)
  <2>1. OnItsOwn(Planned(ev, s, V, MaxRegions), s, EvidenceSlots, MaxRegions)
    BY <1>2, <1>3, <1>4, SampleOnItsOwn
  <2>2. OnItsOwn(p, s, EvidenceSlots, MaxRegions)
    BY <1>2, <2>1
  <2>3. QED BY <1>4, <2>2 DEF OnItsOwn
<1>8. ASSUME D \ ToSet(p) # {} PROVE Cardinality(ToSet(p) \cap pointed) >= EvidenceSlots
  <2>1. Cardinality(V) = EvidenceSlots
    BY <1>2, <1>5, <1>6, <1>8
  <2>2. PICK Q : Q = ToSet(p) \cap pointed
    OBVIOUS
  <2>3. IsFiniteSet(ToSet(p))
    BY <1>6, ListingIs
  <2>4. V \in SUBSET Q /\ IsFiniteSet(Q)
    <3>1. Q \in SUBSET ToSet(p)
      BY <2>2
    <3>2. IsFiniteSet(Q)
      BY <2>3, <3>1, FS_Subset
    <3>3. QED BY <1>2, <1>6, <2>2, <3>2
  <2>5. Cardinality(V) <= Cardinality(Q) /\ Cardinality(Q) \in Nat
    BY <2>4, FS_Subset, FS_CardinalityType
  <2>6. QED BY <1>4, <2>1, <2>2, <2>5
<1>9. QED
  <2>1. IsInjective(p)
    BY <1>6 DEF Listing
  <2>2. QED BY <1>6, <1>7, <1>8, <2>1 DEF SharesKept, p, s, D, pointed

(* Nothing but PlanRegions leads to the model, and nothing there changes what
   the plan was made of. *)
LEMMA PlanStays ==
    ASSUME PlanFollows, [ScannersNext]_scannersVars PROVE PlanFollows'
<1>1. CASE PlanRegions
  BY <1>1 DEF PlanRegions, PlanFollows, Reported, env
<1>2. CASE UNCHANGED scannersVars
  BY <1>2 DEF PlanFollows, Reported, scannersVars, env
<1>3. CASE StartDetect
  BY <1>3 DEF StartDetect, PlanFollows
<1>4. CASE SkipScanners \/ SkipFails
  BY <1>4 DEF SkipScanners, SkipFails, PlanFollows
<1>5. CASE ScanNext
  <2>1. phase = "scan" /\ phase' = phase
    BY <1>5 DEF ScanNext
  <2>2. QED BY <2>1 DEF PlanFollows
<1>6. CASE Collect
  <2>1. phase' \in {"persist", "sunk"}
    BY <1>6 DEF Collect
  <2>2. QED BY <2>1 DEF PlanFollows
<1>7. CASE PersistNext
  <2>1. phase' \in {"persist", "plan"}
    BY <1>7 DEF PersistNext
  <2>2. QED BY <2>1 DEF PlanFollows
<1>8. CASE RecordStage
  <2>1. phase' = "idle"
    BY <1>8 DEF RecordStage
  <2>2. QED BY <2>1 DEF PlanFollows
<1>9. CASE Raise \/ Die
  <2>1. phase' = "idle"
    BY <1>9 DEF Raise, Die, GiveUp
  <2>2. QED BY <2>1 DEF PlanFollows
<1>10. QED
  BY <1>1, <1>2, <1>3, <1>4, <1>5, <1>6, <1>7, <1>8, <1>9 DEF ScannersNext

(* Whatever the snapshot, the map and the findings, a plan has each file once and
   as many as the cap allows, gives the sample its share and what is pointed at
   the rest of the regions. *)
THEOREM PlansKeepShares == ScannersSpec => []PlanKeepsShares
<1>1. ScannersInit => PlanFollows
  BY DEF ScannersInit, PlanFollows
<1>2. PlanFollows /\ [ScannersNext]_scannersVars => PlanFollows'
  BY PlanStays
<1>3. ScannersSpec => []PlanFollows
  BY <1>1, <1>2, PTL DEF ScannersSpec
<1>4. ASSUME ScannersTypeOK, PlanFollows PROVE PlanKeepsShares
  <2>1. SUFFICES ASSUME phase = "model" PROVE PlanKeepsShares
    BY DEF PlanKeepsShares
  <2>2. snapshot.sources \in SUBSET Sources
    <3>1. snapshot \in SnapshotType
      BY <1>4, SnapshotsAssumption DEF ScannersTypeOK
    <3>2. QED BY <3>1 DEF SnapshotType
  <2>3. SharesKept(PlannedRegions(snapshot.sources, Reported), snapshot.sources, Reported)
    BY <2>2, PlanShares
  <2>4. SharesKept(planned, snapshot.sources, Reported)
    BY <1>4, <2>1, <2>3 DEF PlanFollows
  <2>5. QED BY <2>4 DEF SharesKept, PlanKeepsShares
<1>5. QED BY <1>3, <1>4, ScannersTyped, PTL
=============================================================================
