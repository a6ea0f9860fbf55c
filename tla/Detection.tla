------------------------------- MODULE Detection -------------------------------
(***************************************************************************)
(* The language-model part of the detect stage: run_ensemble of            *)
(* detect/ensemble.py, the detection_region_run rows it is resumed from,   *)
(* and the findings it inserts.                                            *)
(*                                                                         *)
(* A process goes through the planned regions, once per lens.  A region    *)
(* whose row is completed is skipped; any other is put to the model again. *)
(* Each candidate of the answer is anchored to a place where the citation  *)
(* occurs, put to the model once more if the model was unsure, anchored    *)
(* again and inserted, one transaction each; then the region is completed. *)
(* Whatever is raised in between marks the region failed, and so does an   *)
(* interrupt right after the region was completed.                         *)
(*                                                                         *)
(* Processes are not kept from working on the same commit: their rows, and *)
(* the budget of a run that both took up, are the same.                    *)
(***************************************************************************)
EXTENDS ModelCalls, Sequences

CONSTANTS
    Plan,         \* sequence of region keys, one per planned file and lens
    LensOf,       \* the lens of a region
    Occurs,       \* where citations occur: records of snippet, file and line
    SameFile,     \* pairs of file names of which one is a suffix of the other
    Height,       \* lines that a snippet takes
    Candidates,   \* what the model may report: snippet, file, line, title and sure
    MaxReported,  \* bound: candidates in one answer
    MaxTroubles,  \* bound: provider answers that are not valid
    MaxCrashes    \* bound: process deaths and interrupts

Regions == {Plan[i] : i \in DOMAIN Plan}

Cited(c) == [snippet |-> c.snippet, file |-> c.file, line |-> c.line]

(* validate_detection_projection: one call per region must fit.  A snippet that
   is cited has a line at least, and a repository finitely many places. *)
ASSUME DetectionAssumption ==
    /\ Plan \in Seq(Regions)
    /\ MaxCalls # 0 => Len(Plan) <= MaxCalls
    /\ IsFiniteSet(Occurs)
    /\ \A o \in Occurs : o = Cited(o)
    /\ \A c \in Candidates \cup Occurs : /\ <<c.file, c.file>> \in SameFile
                                       /\ c.line \in Int
                                       /\ Height[c.snippet] \in Nat \ {0}
    /\ {MaxReported, MaxTroubles, MaxCrashes} \subseteq Nat

VARIABLES
    region,     \* status of the detection_region_run rows
    findings,   \* how many finding rows there are of an identity
    proc,       \* the processes
    owed,       \* history: what the answer that completed a region asserts
    contested,  \* history: regions that two processes were at together
    lost,       \* history: provider calls whose process ended before the record
    troubles,
    crashes

detectVars == <<region, findings, proc, owed, contested, lost, troubles, crashes>>
vars == <<callVars, detectVars>>

Stopped == [pc |-> "idle", at |-> 0, queue |-> {}, raw |-> {}, place |-> {}, due |-> {}]

Here(p) == Plan[proc[p].at]

(* In the try of a region, "finished" with its row completed. *)
Working(p) == proc[p].pc \notin {"idle", "next"}

-----------------------------------------------------------------------------
(* Citations *)

Locations(c) == {o \in Occurs : o.snippet = c.snippet}

Declared(c) == {o \in Locations(c) : <<c.file, o.file>> \in SameFile}

(* The cited range and the occurrence have the height of the snippet. *)
Overlapping(c) ==
    {o \in Declared(c) : /\ o.line < c.line + Height[c.snippet]
                         /\ c.line < o.line + Height[c.snippet]}

(* Mutant of Canonical: the declared lines are not looked at. *)
CanonicalByFile(c) ==
    CASE Declared(c) # {} -> {CHOOSE o \in Declared(c) : TRUE}
      [] OTHER -> {o \in Locations(c) : Locations(c) = {o}}

(* _canonicalize_citation: the one place that is meant, as a set, or none. *)
Canonical(c) ==
    CASE Cardinality(Overlapping(c)) = 1 -> Overlapping(c)
      [] Cardinality(Overlapping(c)) # 1 /\ Cardinality(Declared(c)) = 1 -> Declared(c)
      [] OTHER -> {o \in Locations(c) : Locations(c) = {o}}

(* The candidate is canonicalized again before it is persisted. *)
CanonicalTwice(c) == UNION {Canonical(o) : o \in Canonical(c)}

(* By what upsert_detected_finding finds a row again; the title is the model's. *)
Identity(r, title, o) == <<LensOf[r], title, o.file, o.line, o.snippet>>

Identities == {Identity(r, c.title, o) : r \in Regions, c \in Candidates, o \in Occurs}

(* A candidate as it is inserted, at the place it means. *)
Meant(r, c) == {Identity(r, c.title, o) : o \in CanonicalTwice(c)}

(* What an answer asserts with confidence. *)
Asserted(r, answer) == UNION {Meant(r, c) : c \in {d \in answer : d.sure}}

-----------------------------------------------------------------------------
Init ==
    /\ CallsInit
    /\ region = [r \in Regions |-> "none"]
    /\ findings = [i \in Identities |-> 0]
    /\ proc = [p \in Procs |-> Stopped]
    /\ owed = [r \in Regions |-> {}]
    /\ contested = {}
    /\ lost = 0
    /\ troubles = 0
    /\ crashes = 0

AllCompleted == \A r \in Regions : region[r] = "completed"

(* run_ensemble starts; the operator starts it again until it returns. *)
Start(p) ==
    /\ proc[p].pc = "idle"
    /\ ~AllCompleted
    /\ proc' = [proc EXCEPT ![p].pc = "next", ![p].at = 1]
    /\ UNCHANGED <<callVars, region, findings, owed, contested, lost, troubles, crashes>>

(* start_detection_region returns a completed row unchanged: it is skipped. *)
SkipRegion(p) ==
    /\ proc[p].pc = "next"
    /\ proc[p].at <= Len(Plan)
    /\ region[Here(p)] = "completed"
    /\ proc' = [proc EXCEPT ![p].at = @ + 1]
    /\ UNCHANGED <<callVars, region, findings, owed, contested, lost, troubles, crashes>>

Others(p, r) == {q \in Procs \ {p} : Working(q) /\ Here(q) = r}

StartFreshRegion(p) ==  \* mutant: a row that is there is not started again
    /\ proc[p].pc = "next"
    /\ proc[p].at <= Len(Plan)
    /\ region[Here(p)] = "none"
    /\ region' = [region EXCEPT ![Here(p)] = "running"]
    /\ proc' = [proc EXCEPT ![p].pc = "lens"]
    /\ contested' = contested \cup {r \in {Here(p)} : Others(p, r) # {}}
    /\ BeginCall(p)
    /\ UNCHANGED <<usage, spent, findings, owed, lost, troubles, crashes>>

StartAnyRegion(p) ==  \* mutant: a completed row is started again
    /\ proc[p].pc = "next"
    /\ proc[p].at <= Len(Plan)
    /\ region' = [region EXCEPT ![Here(p)] = "running"]
    /\ proc' = [proc EXCEPT ![p].pc = "lens"]
    /\ contested' = contested \cup {r \in {Here(p)} : Others(p, r) # {}}
    /\ BeginCall(p)
    /\ UNCHANGED <<usage, spent, findings, owed, lost, troubles, crashes>>

(* ... any other is started, or restarted, and put to the model. *)
StartRegion(p) ==
    /\ proc[p].pc = "next"
    /\ proc[p].at <= Len(Plan)
    /\ region[Here(p)] # "completed"
    /\ region' = [region EXCEPT ![Here(p)] = "running"]
    /\ proc' = [proc EXCEPT ![p].pc = "lens"]
    /\ contested' = contested \cup {r \in {Here(p)} : Others(p, r) # {}}
    /\ BeginCall(p)
    /\ UNCHANGED <<usage, spent, findings, owed, lost, troubles, crashes>>

(* LLMClient.call at work, for the lens or for a rescore. *)
Calling(p) ==
    /\ proc[p].pc \in {"lens", "rescore"}
    /\ CallStep(p)
    /\ troubles' = IF Ask(p) /\ call'[p].answer # "valid" THEN troubles + 1 ELSE troubles
    /\ troubles' <= MaxTroubles
    /\ UNCHANGED <<region, findings, proc, owed, contested, lost, crashes>>

EndCall(p) == call' = [call EXCEPT ![p] = NoCall] /\ UNCHANGED <<usage, spent>>

(* The lens answers. *)
Answer(p) ==
    /\ proc[p].pc = "lens"
    /\ call[p].pc = "returned"
    /\ EndCall(p)
    /\ \E answer \in SUBSET Candidates :
        /\ Cardinality(answer) <= MaxReported
        /\ proc' = [proc EXCEPT ![p].pc = "candidates", ![p].queue = answer,
                                ![p].due = Asserted(Here(p), answer)]
    /\ UNCHANGED <<region, findings, owed, contested, lost, troubles, crashes>>

(* The next candidate is anchored, or refused; an unsure one is rescored. *)
Anchor(p, c) ==
    /\ proc[p].pc = "candidates"
    /\ c \in proc[p].queue
    /\ proc' = [proc EXCEPT ![p].queue = @ \ {c},
                            ![p].raw = {d \in {c} : Canonical(c) # {}},
                            ![p].place = Canonical(c),
                            ![p].pc = IF Canonical(c) = {} THEN "candidates"
                                      ELSE IF c.sure THEN "persist" ELSE "rescore"]
    /\ IF Canonical(c) # {} /\ ~c.sure THEN BeginCall(p) ELSE UNCHANGED call
    /\ UNCHANGED <<usage, spent, region, findings, owed, contested, lost, troubles, crashes>>

(* _resolve_confidence: the model repeats the citation, as it likes, or not. *)
Rescore(p) ==
    /\ proc[p].pc = "rescore"
    /\ call[p].pc = "returned"
    /\ EndCall(p)
    /\ \/ proc' = [proc EXCEPT ![p].pc = "persist"]
       \/ \E c \in Candidates :
            /\ \A d \in proc[p].raw : c.snippet = d.snippet
            /\ proc' = [proc EXCEPT ![p].pc = "persist", ![p].raw = {c},
                                    ![p].place = {Cited(c)}]
    /\ UNCHANGED <<region, findings, owed, contested, lost, troubles, crashes>>

(* Where the candidate at hand is inserted, and as what. *)
Target(p) == UNION {Canonical(o) : o \in proc[p].place}

AtHand(p) == {Identity(Here(p), c.title, o) : c \in proc[p].raw, o \in Target(p)}

(* upsert_detected_finding: looks and inserts under one write lock. *)
Upsert(i) == findings' = [findings EXCEPT ![i] = IF @ = 0 THEN 1 ELSE @]

(* Anchored again; then inserted, or refused. *)
Persist(p) ==
    /\ proc[p].pc = "persist"
    /\ IF Target(p) = {}
       THEN UNCHANGED findings
       ELSE \E i \in AtHand(p) : Upsert(i)
    /\ proc' = [proc EXCEPT ![p].pc = "candidates", ![p].raw = {}, ![p].place = {}]
    /\ UNCHANGED <<callVars, region, owed, contested, lost, troubles, crashes>>

FinishOnAnswer(p) ==  \* mutant: completed before its candidates are inserted
    /\ proc[p].pc = "candidates"
    /\ region' = [region EXCEPT ![Here(p)] = "completed"]
    /\ owed' = [owed EXCEPT ![Here(p)] = proc[p].due]
    /\ proc' = [proc EXCEPT ![p] = [Stopped EXCEPT !.pc = "finished", !.at = proc[p].at]]
    /\ UNCHANGED <<callVars, findings, contested, lost, troubles, crashes>>

(* finish_detection_region, whatever the row says by now; the process is still in
   the try ... *)
Finish(p) ==
    /\ proc[p].pc = "candidates"
    /\ proc[p].queue = {}
    /\ region' = [region EXCEPT ![Here(p)] = "completed"]
    /\ owed' = [owed EXCEPT ![Here(p)] = proc[p].due]
    /\ proc' = [proc EXCEPT ![p] = [Stopped EXCEPT !.pc = "finished", !.at = proc[p].at]]
    /\ UNCHANGED <<callVars, findings, contested, lost, troubles, crashes>>

(* ... and leaves it. *)
Leave(p) ==
    /\ proc[p].pc = "finished"
    /\ proc' = [proc EXCEPT ![p].pc = "next", ![p].at = @ + 1]
    /\ UNCHANGED <<callVars, region, findings, owed, contested, lost, troubles, crashes>>

Return(p) ==
    /\ proc[p].pc = "next"
    /\ proc[p].at > Len(Plan)
    /\ proc' = [proc EXCEPT ![p] = Stopped]
    /\ UNCHANGED <<callVars, region, findings, owed, contested, lost, troubles, crashes>>

(* A provider call that is not recorded any more. *)
Unrecorded(p) == IF call[p].pc = "record" THEN 1 ELSE 0

FailRegion(p) ==
    /\ region' = [region EXCEPT ![Here(p)] = "failed"]
    /\ proc' = [proc EXCEPT ![p] = Stopped]
    /\ EndCall(p)
    /\ UNCHANGED <<findings, owed, contested, troubles>>

(* The call raised: the handler marks the region failed and re-raises. *)
Fail(p) ==
    /\ call[p].pc = "raised"
    /\ FailRegion(p)
    /\ UNCHANGED <<lost, crashes>>

(* The operator interrupts, which the handler catches too: it marks the region
   failed even if it has just been completed ... *)
Interrupt(p) ==
    /\ Working(p)
    /\ crashes < MaxCrashes
    /\ crashes' = crashes + 1
    /\ lost' = lost + Unrecorded(p)
    /\ FailRegion(p)

(* ... or the process dies. *)
Crash(p) ==
    /\ proc[p].pc # "idle"
    /\ crashes < MaxCrashes
    /\ crashes' = crashes + 1
    /\ lost' = lost + Unrecorded(p)
    /\ proc' = [proc EXCEPT ![p] = Stopped]
    /\ EndCall(p)
    /\ UNCHANGED <<region, findings, owed, contested, troubles>>

Step(p) ==
    \/ SkipRegion(p)
    \/ StartRegion(p)
    \/ Calling(p)
    \/ Answer(p)
    \/ \E c \in Candidates : Anchor(p, c)
    \/ Rescore(p)
    \/ Persist(p)
    \/ Finish(p)
    \/ Leave(p)
    \/ Return(p)
    \/ Fail(p)

Next == \E p \in Procs : Start(p) \/ Step(p) \/ Interrupt(p) \/ Crash(p)

Spec == Init /\ [][Next]_vars

(* A started process runs, and the operator starts detection again. *)
FairSpec == Spec /\ \A p \in Procs : WF_vars(Step(p)) /\ SF_vars(Start(p))

-----------------------------------------------------------------------------
TypeOK ==
    /\ CallsTypeOK
    /\ region \in [Regions -> {"none", "running", "completed", "failed"}]
    /\ findings \in [Identities -> Nat]
    /\ proc \in [Procs -> [pc : {"idle", "next", "lens", "candidates", "rescore", "persist",
                                 "finished"},
                           at : 0 .. Len(Plan) + 1, queue : SUBSET Candidates,
                           raw : SUBSET Candidates,
                           place : SUBSET (Occurs \cup {Cited(c) : c \in Candidates}),
                           due : SUBSET Identities]]
    /\ owed \in [Regions -> SUBSET Identities]
    /\ contested \subseteq Regions
    /\ lost \in 0 .. MaxCrashes
    /\ troubles \in 0 .. MaxTroubles
    /\ crashes \in 0 .. MaxCrashes

(* The process that completed r is interrupted before it has left the try. *)
Undone(r) ==
    \E p \in Procs : /\ proc[p].pc = "finished" /\ Here(p) = r
                     /\ proc'[p].pc = "idle" /\ crashes' = crashes + 1

(* A region that was completed is not paid for again, however often detection
   is restarted, but for two cases that the code has: two processes were at it
   together, or the one that completed it is interrupted before it has left the
   try, and its handler marks the region failed. *)
PaidRegionOnce ==
    [][\A r \in Regions \ contested : region[r] = "completed" =>
        /\ region'[r] = "completed" \/ Undone(r)
        /\ \A p \in Procs : Working(p)' /\ ~Working(p) => Here(p)' # r]_vars

(* What a completed region is never asked about again is in the store: every
   confident candidate of the answer that completed it, at the place it cites,
   whatever earlier attempts inserted or left out.  It is there once under the
   title it was given, although restarted regions, overlapping regions and
   concurrent processes insert it again.  An attempt that names it otherwise
   inserts another finding. *)
PersistedOnce ==
    /\ \A r \in Regions : region[r] = "completed" =>
            \A i \in owed[r] : findings[i] = 1
    /\ \A i \in Identities : findings[i] <= 1

(* A citation that names a place where it occurs is not moved to another one
   by the two passes that anchor it: it is kept there, or refused. *)
ExactCitationStays ==
    \A p \in Procs : proc[p].pc = "persist" =>
        \A c \in proc[p].raw, o \in Target(p) :
            /\ o \in Occurs
            /\ Cited(c) \in Occurs => o = Cited(c)

(* The ceilings of the run hold through retries, failed calls and restarts, up
   to one call for each process beyond the first. *)
Budget == CeilingsHold(lost)

(* Restarted often enough, detection completes every region, or it has used up
   a ceiling and the operator has to raise it. *)
DetectionEnds == <>[](AllCompleted \/ Exhausted)

-----------------------------------------------------------------------------
(* The inductive invariants. *)

(* Where a process stands in the plan, and in its call. *)
Stands(p) ==
    /\ proc[p].pc = "next" => proc[p].at # 0
    /\ Working(p) => proc[p].at \in DOMAIN Plan
    /\ call[p].pc # "none" <=> proc[p].pc \in {"lens", "rescore"}
    /\ call[p].pc \in {"check", "ask"} => call[p].left # 0

Steady == TypeOK /\ lost <= crashes /\ \A p \in Procs : Stands(p)

(* Behind PersistedOnce: what a process owes is stored, still in its queue, or
   at hand. *)
Pays(p, i) ==
    \/ findings[i] = 1
    \/ \E c \in proc[p].queue : c.sure /\ i \in Meant(Here(p), c)
    \/ proc[p].pc = "persist" /\ i \in AtHand(p)

Kept ==
    /\ \A i \in Identities : findings[i] <= 1
    /\ \A r \in Regions : \A i \in owed[r] : findings[i] = 1
    /\ \A p \in Procs : \A i \in proc[p].due : Pays(p, i)
    /\ \A p \in Procs : proc[p].pc \in {"idle", "next", "lens", "finished"} => proc[p].due = {}

(* Behind ExactCitationStays: a candidate at hand is where it cites, or where
   the first pass found it. *)
Anchored ==
    \A p \in Procs : proc[p].pc \in {"rescore", "persist"} =>
        \E c \in Candidates : proc[p].raw = {c} /\ proc[p].place \in {{Cited(c)}, Canonical(c)}

(* Behind PaidRegionOnce: nobody else is at a region that is not contested, and
   it is completed only when the one process is about to leave it. *)
Alone ==
    \A p \in Procs : Working(p) /\ Here(p) \notin contested =>
        /\ region[Here(p)] = "completed" <=> proc[p].pc = "finished"
        /\ \A q \in Procs \ {p} : Working(q) => Here(q) # Here(p)
=============================================================================
