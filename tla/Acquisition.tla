----------------------------- MODULE Acquisition -----------------------------
(***************************************************************************)
(* The plan of what analysts review next: build_review_acquisition_plan of *)
(* triage/acquisition.py with the identities of acquisition_funnel.py.     *)
(*                                                                         *)
(* A candidate is a finding with a feature row that no human has judged:   *)
(* [finding, repo, producer, rule, file, line, sink, hash].  Copies are   *)
(* collapsed, paths are filtered, families capped, and engagements take    *)
(* turns until the packet is full.  SHA-256 digests only break ties: here  *)
(* they are an arbitrary order of names.                                   *)
(***************************************************************************)
EXTENDS Integers, Sequences, SequencesExt

CONSTANTS
    Digest,     \* the order of names by their digests
    PathRank,   \* files by path class, production 0 .. vendor and generated 5
    Drafts      \* what plans may be asked for: candidates, labels, pairs and options

(* A finding has one feature row, and names do not share a digest.  Options that
   are not positive are refused. *)
ASSUME DraftsAssumption ==
    \A draft \in Drafts :
        /\ IsFiniteSet(draft.raw)
        /\ {draft.limit, draft.perFamily, draft.perRepo} \subseteq Nat \ {0}
        /\ \A c \in draft.raw :
            /\ {c.finding, c.hash, draft.labelled[c.rule]} \subseteq Nat
            /\ PathRank[c.file] \in 0 .. 5
            /\ \A k \in {"repo", "producer", "rule", "sink"} : Digest[c[k]] \in Nat
            /\ \A d \in draft.raw :
                /\ c.finding = d.finding => c = d
                /\ \A k \in {"repo", "producer", "rule", "sink"} :
                        Digest[c[k]] = Digest[d[k]] => c[k] = d[k]

(* The identities of acquisition_funnel.py. *)
Evidence(c) == <<c.producer, c.rule, c.file, c.line, c.sink>>
Exact(c)    == <<c.repo, Evidence(c)>>
FamilyOf(c) == <<c.repo, c.producer, c.rule, c.sink>>

Deferred == 5  \* tier 3

(* _candidate_order_key; a repeated row comes after the one it repeats. *)
Ahead(c, d) ==
    \/ PathRank[c.file] < PathRank[d.file]
    \/ PathRank[c.file] = PathRank[d.file] /\ c.hash < d.hash
    \/ /\ PathRank[c.file] = PathRank[d.file] /\ c.hash = d.hash
       /\ c.finding < d.finding

(* _collapse_declared_pre_post: the later engagement gives way. *)
CollapsePrePost(candidates, pairs) ==
    {c \in candidates : \A d \in candidates :
        <<d.repo, c.repo>> \in pairs => Evidence(d) # Evidence(c)}

(* _stable_unique by exact location. *)
CollapseExact(candidates) ==
    {c \in candidates : \A d \in candidates \ {c} : Exact(d) = Exact(c) => Ahead(c, d)}

InTiers(candidates, vendor) ==
    {c \in candidates : PathRank[c.file] < Deferred \/ vendor}

(* The first few of each family. *)
Depth(candidates, c) ==
    Cardinality({d \in candidates : FamilyOf(d) = FamilyOf(c) /\ Ahead(d, c)})

CapFamilies(candidates, cap) == {c \in candidates : Depth(candidates, c) < cap}

-----------------------------------------------------------------------------
(* The queue of an engagement *)

RankOf(some) == Min({PathRank[c.file] : c \in some})

OfRule(candidates, c) ==
    {d \in candidates : d.repo = c.repo /\ d.rule = c.rule}

OfFamily(candidates, c) == {d \in candidates : FamilyOf(d) = FamilyOf(c)}

(* Lexicographic order of tuples of numbers of one length. *)
Lower(s, t) ==
    \E i \in DOMAIN s : s[i] < t[i] /\ \A j \in 1 .. i - 1 : s[j] = t[j]

(* Rules by their best path, then by how few labels they have. *)
RuleKey(candidates, labelled, c) ==
    <<RankOf(OfRule(candidates, c)), labelled[c.rule], Digest[c.rule]>>

FamilyKey(candidates, c) ==
    <<RankOf(OfFamily(candidates, c)), Digest[c.producer], Digest[c.sink]>>

(* How many families of its rule come before that of a candidate. *)
FamilyDepth(candidates, c) ==
    Cardinality({FamilyOf(d) : d \in {e \in OfRule(candidates, c) :
                    Lower(FamilyKey(candidates, e), FamilyKey(candidates, c))}})

RepeatsFirst(candidates, labelled, c) ==  \* mutant: a rule is worked off before the next
    RuleKey(candidates, labelled, c)
        \o <<Depth(candidates, c), FamilyDepth(candidates, c)>>

(* One of every family before a second of any, rules taking turns. *)
QueueKey(candidates, labelled, c) ==
    <<Depth(candidates, c), FamilyDepth(candidates, c)>>
        \o RuleKey(candidates, labelled, c)

(* c stands before d in the queue of their engagement. *)
Precedes(candidates, labelled, c, d) ==
    /\ c.repo = d.repo
    /\ Lower(QueueKey(candidates, labelled, c), QueueKey(candidates, labelled, d))

OfRepo(some, c) == {d \in some : d.repo = c.repo}

(* The candidates at the heads of the queues, of engagements that may still
   contribute. *)
Options(candidates, labelled, taken, cap) ==
    {c \in candidates \ Range(taken) :
        /\ Cardinality(OfRepo(Range(taken), c)) < cap
        /\ \A d \in OfRepo(candidates, c) \ (Range(taken) \cup {c}) :
                Precedes(candidates, labelled, c, d)}

TurnKey(taken, c) ==
    <<PathRank[c.file], Cardinality(OfRepo(Range(taken), c)), Digest[c.repo]>>

Further(candidates, labelled, taken, cap) ==
    LET options == Options(candidates, labelled, taken, cap) IN
    IF options = {} THEN taken
    ELSE Append(taken, CHOOSE c \in options :
            \A d \in options \ {c} : Lower(TurnKey(taken, c), TurnKey(taken, d)))

(* The packet is filled one candidate at a time. *)
Selected(candidates, labelled, limit, cap) ==
    FoldLeft(LAMBDA taken, i : Further(candidates, labelled, taken, cap), <<>>,
             [i \in 1 .. limit |-> i])

(* What the engagements may contribute: the first few of each queue. *)
Balanced(candidates, labelled, cap) ==
    Cardinality({c \in candidates :
        Cardinality({d \in candidates : Precedes(candidates, labelled, d, c)}) < cap})

(* build_review_acquisition_plan: the entries, and the counts of the funnel,
   which raises when they do not decrease. *)
Plan(raw, labelled, pairs, vendor, limit, perFamily, perRepo) ==
    LET once == CollapsePrePost(raw, pairs)
        exact == CollapseExact(once)
        paths == InTiers(exact, vendor)
        capped == CapFamilies(paths, perFamily)
        entries == Selected(capped, labelled, limit, perRepo) IN
    [entries |-> entries,
     pool |-> capped,
     funnel |-> <<Cardinality(raw), Cardinality(once), Cardinality(exact),
                  Cardinality(paths), Cardinality(capped),
                  Balanced(capped, labelled, perRepo), Len(entries)>>]

-----------------------------------------------------------------------------
(* What a plan owes the analysts.  The funnel decreases, or its constructor
   would raise; nothing that the caps allow is left out of a packet with room;
   no evidence is asked twice, within an engagement or across a declared pair;
   no family and no engagement exceeds its cap; and an engagement is asked
   about every rule it has before it is asked about one again. *)
FairPlan(raw, labelled, pairs, limit, perFamily, perRepo) ==
    LET made == Plan(raw, labelled, pairs, FALSE, limit, perFamily, perRepo)
        asked == Range(made.entries) IN
    /\ \A i \in 1 .. 6 : made.funnel[i] >= made.funnel[i + 1]
    /\ Len(made.entries) = Min({limit, made.funnel[6]})
    /\ Cardinality(asked) = Len(made.entries)
    /\ \A c, d \in asked : c # d /\ Evidence(c) = Evidence(d) =>
            c.repo # d.repo /\ <<c.repo, d.repo>> \notin pairs
    /\ \A c \in asked :
        /\ Cardinality(OfFamily(asked, c)) <= perFamily
        /\ Cardinality(OfRepo(asked, c)) <= perRepo
    /\ \A c \in asked, d \in made.pool :
            Cardinality(OfRule(asked, c)) > 1 /\ d.repo = c.repo =>
                OfRule(asked, d) # {}

PlansAreFair ==
    \A d \in Drafts : FairPlan(d.raw, d.labelled, d.pairs, d.limit, d.perFamily, d.perRepo)
=============================================================================
