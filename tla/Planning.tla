------------------------------- MODULE Planning -------------------------------
(***************************************************************************)
(* Which source files of a snapshot a bounded detection puts to the model: *)
(* detect/planning.py and the ordering of sourcefiles.py.                  *)
(*                                                                         *)
(* Of the regions that the cap allows, some are reserved for a sample that *)
(* depends on nothing but paths.  The others go to the files that a        *)
(* scanner or the architecture map points at, up to a share for the files  *)
(* that call, or are called from, those of the map.                        *)
(***************************************************************************)
EXTENDS SequencesExt, Integers

CONSTANTS
    Sources,          \* source files a snapshot may have
    TestSources,      \* those that is_test_source() says are tests
    Directory,        \* the two leading directories of a file, by their digest
    Digest,           \* place of a file by the digest of its path
    Name,             \* place of a file by its path
    Mapped,           \* files at locations of the architecture map
    Neighbors,        \* sequence of the files _architecture_neighbors() may find
    MaxRegions,       \* [detect].max_llm_regions_per_run
    ReservedSample,   \* [detect].reserved_sample_regions
    ReservedNeighbors \* [detect].reserved_architecture_neighbor_regions

ASSUME PlanningAssumption ==
    /\ IsFiniteSet(Sources)
    /\ TestSources \subseteq Sources
    /\ Mapped \subseteq Sources
    /\ Neighbors \in Seq(Sources) /\ IsInjective(Neighbors)
    /\ \A r \in {Digest, Name} : IsInjective(r) /\ r \in [Sources -> Nat]
    /\ Directory \in [Sources -> Nat]
    /\ {MaxRegions, ReservedSample, ReservedNeighbors} \subseteq Nat

AtMost(m, n) == IF m < n THEN m ELSE n

Take(s, n) == SubSeq(s, 1, AtMost(n, Len(s)))

(* sorted(): the i-th of S is the one that comes after i - 1 others. *)
Arranged(S, before) ==
    [i \in 1 .. Cardinality(S) |->
        CHOOSE f \in S : Cardinality({g \in S : <<g, f>> \in before}) = i - 1]

(* What is not in S, in the order of s. *)
Without(s, S) ==
    LET kept   == {i \in DOMAIN s : s[i] \notin S}
        places == Arranged(kept, {p \in kept \X kept : p[1] < p[2]})
    IN  [k \in 1 .. Cardinality(kept) |-> s[places[k]]]

(* _directory_diverse_order: one file of each directory in turn. *)
DiverseOrder(S) ==
    LET depth(f) == Cardinality({g \in S : /\ Directory[g] = Directory[f]
                                           /\ Digest[g] < Digest[f]})
    IN  Arranged(S, {p \in S \X S : \/ depth(p[1]) < depth(p[2])
                                    \/ /\ depth(p[1]) = depth(p[2])
                                       /\ Directory[p[1]] < Directory[p[2]]})

(* select_diverse_source_files for all of the files: as there is room for every
   one, tests come after the production files. *)
SampleOrder(files) == DiverseOrder(files \ TestSources) \o DiverseOrder(files \cap TestSources)

(* What scanners point at comes before what the map points at. *)
DirectOrder(files, reported) ==
    LET S == files \cap (reported \cup Mapped)
    IN  Arranged(S, {p \in S \X S : \/ p[1] \in reported /\ p[2] \notin reported
                                    \/ /\ p[1] \in reported <=> p[2] \in reported
                                       /\ Name[p[1]] < Name[p[2]]})

SampleSlots == AtMost(ReservedSample, MaxRegions)

EvidenceSlots == MaxRegions - SampleSlots

(* Mutant of NeighborSlots: the share is not cut to what evidence may take. *)
NeighborSlotsAsConfigured(files) == ReservedNeighbors

(* _architecture_neighbors: those that the snapshot has. *)
Near(files) == Without(Neighbors, Sources \ files)

NeighborSlots(files) ==
    AtMost(ReservedNeighbors, AtMost(EvidenceSlots, Len(Near(files))))

(* plan_detection_regions.  Neighbors that the direct files already hold leave
   their share to further direct files. *)
PlannedRegions(files, reported) ==
    LET direct    == DirectOrder(files, reported)
        first     == Take(direct, EvidenceSlots - NeighborSlots(files))
        near      == Take(Without(Near(files), ToSet(first)), NeighborSlots(files))
        second    == Take(Without(direct, ToSet(first \o near)),
                          EvidenceSlots - Len(first \o near))
        evidence  == first \o near \o second
        remaining == Without(SampleOrder(files), ToSet(evidence))
    IN  evidence \o Take(remaining, MaxRegions - Len(evidence))
=============================================================================
