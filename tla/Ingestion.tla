------------------------------- MODULE Ingestion -------------------------------
(***************************************************************************)
(* The ingest stage: ingest_repo of ingest/repo.py, the snapshot           *)
(* directories, the ingested_repo rows, and latest_snapshot, by which the  *)
(* later stages find the code again.                                       *)
(*                                                                         *)
(* A command opens the database, resolves the repository id from the rows, *)
(* takes the key of the source (the hash of a plain directory, the HEAD of *)
(* a working tree or of a fresh clone), and copies it to <id>/<key> unless *)
(* that directory is there.  Only then it records the snapshot.  Nothing   *)
(* keeps two commands from ingesting at the same time, and the source from *)
(* changing in between.  A source is recorded as it was spelled, and what  *)
(* that stands for is found out anew by every command, from its directory. *)
(***************************************************************************)
EXTENDS Migrations, Sequences

CONSTANTS
    Sources,   \* sources as they are given
    Views,     \* what commands see: a working directory, and which paths are there
    Identity,  \* _source_identity: in a view, the origin that a source stands for
    Kind,      \* of an origin: "plain", "worktree", "remote" or "nothing"
    Slug,      \* _slugify of a source
    Hashed,    \* a slug with the hash of an origin
    Contents,  \* what an origin may hold
    First,     \* what the origins hold at first
    MaxJobs,   \* bound: sources given to ingest_repo
    MaxEdits,  \* bound: changes of the origins
    MaxCrashes \* bound: process deaths

None == "none"

Origins == {Identity[v][s] : v \in Views, s \in Sources}
Names == {Slug[s] : s \in Sources}
Repos == Names \cup {Hashed[n][o] : n \in Names, o \in Origins}

ASSUME IngestionAssumption ==
    /\ \A n, m \in Names, o, u \in Origins :
            Hashed[n][o] \notin Names /\ (o # u => Hashed[n][o] # Hashed[m][u])
    /\ Kind \in [Origins -> {"plain", "worktree", "remote", "nothing"}]
    /\ First \in Contents /\ None \notin Contents /\ "partial" \notin Contents
    /\ {MaxJobs, MaxEdits, MaxCrashes} \subseteq Nat /\ MaxEdits # 0

VARIABLES
    held,      \* what an origin holds, its HEAD, and the mtime of its root
    clones,    \* content of <id>/.clone-tmp, and its mtime
    dirs,      \* the snapshot directories, by id and key
    rows,      \* ingested_repo, in the order of insertion
    job,       \* the ingesting commands
    flawed,    \* history: snapshots a crash, a race or an edit got into
    contested, \* history: ids that commands for two origins were at together
    jobs,
    edits,
    crashes

ingestVars == <<held, clones, dirs, rows, job, flawed, contested, jobs, edits, crashes>>
vars == <<schemaVars, ingestVars>>

NoDir == [content |-> None, mtime |-> 0]
Idle == [pc |-> "idle", source |-> None, origin |-> None, repo |-> None, key |-> None]

Row(r, s, k) == [repo |-> r, source |-> s, commit |-> k]

Init ==
    /\ SchemaInit
    /\ held = [o \in Origins |-> [tree |-> First, head |-> First, mtime |-> 1]]
    /\ clones = [r \in Repos |-> NoDir]
    /\ dirs = [d \in Repos \X Contents |-> NoDir]
    /\ rows = <<>>
    /\ job = [p \in Procs |-> Idle]
    /\ flawed = {}
    /\ contested = {}
    /\ jobs = 0
    /\ edits = 1
    /\ crashes = 0

-----------------------------------------------------------------------------
(* No row gives the repository id to a source that, seen from here, is another. *)
Free(r, s, v) ==
    \A i \in DOMAIN rows : rows[i].repo = r => Identity[v][rows[i].source] = Identity[v][s]

ResolvedBlind(s, requested, v) ==  \* mutant: the rows are not asked
    IF requested = None THEN Slug[s] ELSE requested

(* _resolved_repo_id; None stands for the ValueError. *)
Resolved(s, requested, v) ==
    LET candidate == IF requested = None THEN Slug[s] ELSE requested
        hashed == Hashed[Slug[s]][Identity[v][s]]
    IN  CASE Free(candidate, s, v) -> candidate
          [] ~Free(candidate, s, v) /\ requested = None /\ Free(hashed, s, v) -> hashed
          [] OTHER -> None

(* An origin gets another content, at its root or below it; that of a working
   tree is dirty until it is committed. *)
Edit(o) ==
    /\ Kind[o] # "nothing"
    /\ edits < MaxEdits
    /\ edits' = edits + 1
    /\ \E content \in Contents \ {held[o].tree}, atRoot \in BOOLEAN :
        held' = [held EXCEPT ![o] =
                   [tree |-> content,
                    head |-> IF Kind[o] = "worktree" THEN held[o].head ELSE content,
                    mtime |-> IF atRoot THEN edits + 1 ELSE held[o].mtime]]
    /\ UNCHANGED <<schemaVars, clones, dirs, rows, job, flawed, contested, jobs, crashes>>

Commit(o) ==
    /\ Kind[o] = "worktree"
    /\ held[o].head # held[o].tree
    /\ held' = [held EXCEPT ![o].head = held[o].tree]
    /\ UNCHANGED <<schemaVars, clones, dirs, rows, job, flawed, contested, jobs, edits, crashes>>

(* ingest_repo: the database is open, and the id is resolved; what is not there
   is a FileNotFoundError. *)
Resolve(p, s, v) ==
    /\ opening[p].pc = "open"
    /\ job[p].pc = "idle"
    /\ jobs < MaxJobs
    /\ jobs' = jobs + 1
    /\ \E requested \in Names \cup {None} :
        LET repo == Resolved(s, requested, v)
            origin == Identity[v][s]
        IN  IF repo = None \/ Kind[origin] = "nothing"
            THEN UNCHANGED <<job, contested>>
            ELSE /\ job' = [job EXCEPT ![p] = [pc |-> "prepare", source |-> s, origin |-> origin,
                                              repo |-> repo, key |-> None]]
                 /\ contested' = contested \cup {r \in {repo} :
                        \E q \in Procs \ {p} : job[q].repo = r /\ job[q].origin # origin}
    /\ UNCHANGED <<schemaVars, held, clones, dirs, rows, flawed, edits, crashes>>

(* The key: _hash_directory, the HEAD of the working tree, or that of a clone,
   for which the scratch directory of the id is emptied first. *)
Prepare(p) ==
    LET o == job[p].origin IN
    /\ job[p].pc = "prepare"
    /\ job' = [job EXCEPT ![p].pc = "look", ![p].key = held[o].head]
    /\ clones' = IF Kind[o] = "remote"
                 THEN [clones EXCEPT ![job[p].repo] = [content |-> held[o].head, mtime |-> edits]]
                 ELSE clones
    /\ UNCHANGED <<schemaVars, held, dirs, rows, flawed, contested, jobs, edits, crashes>>

(* _prepare_git cannot fetch, or HEAD is not the expected commit: ValueError,
   and the scratch directory is removed. *)
Refuse(p) ==
    /\ job[p].pc \in {"prepare", "look"}
    /\ Kind[job[p].origin] # "plain"
    /\ job' = [job EXCEPT ![p] = Idle]
    /\ clones' = IF Kind[job[p].origin] = "remote"
                 THEN [clones EXCEPT ![job[p].repo] = NoDir] ELSE clones
    /\ UNCHANGED <<schemaVars, held, dirs, rows, flawed, contested, jobs, edits, crashes>>

(* The snapshot that p's job is about, and the commands that copy to one. *)
At(p) == <<job[p].repo, job[p].key>>

Copying(d) == {q \in Procs : job[q].pc = "copy" /\ At(q) = d}

(* cleanup *)
CleanUp(p) ==
    clones' = IF Kind[job[p].origin] = "remote"
              THEN [clones EXCEPT ![job[p].repo] = NoDir] ELSE clones

(* The snapshot directory is there: it is taken as it is ... *)
Reuse(p) ==
    /\ job[p].pc = "look"
    /\ dirs[At(p)] # NoDir
    /\ CleanUp(p)
    /\ job' = [job EXCEPT ![p].pc = "record"]
    /\ flawed' = IF Copying(At(p)) = {} THEN flawed ELSE flawed \cup {At(p)}
    /\ UNCHANGED <<schemaVars, held, dirs, rows, contested, jobs, edits, crashes>>

CopyOver(p) ==  \* mutant: copies into a directory that is there
    /\ job[p].pc = "look"
    /\ job' = [job EXCEPT ![p].pc = "copy"]
    /\ dirs' = [dirs EXCEPT ![At(p)] = [content |-> "partial", mtime |-> edits]]
    /\ UNCHANGED <<schemaVars, held, clones, rows, flawed, contested, jobs, edits, crashes>>

(* ... or copytree makes it. *)
BeginCopy(p) ==
    /\ job[p].pc = "look"
    /\ dirs[At(p)] = NoDir
    /\ job' = [job EXCEPT ![p].pc = "copy"]
    /\ dirs' = [dirs EXCEPT ![At(p)] = [content |-> "partial", mtime |-> edits]]
    /\ UNCHANGED <<schemaVars, held, clones, rows, flawed, contested, jobs, edits, crashes>>

(* What copytree finds: files, and the mtime that copystat carries over. *)
Found(p) ==
    LET o == job[p].origin IN
    IF Kind[o] # "remote" THEN [content |-> held[o].tree, mtime |-> held[o].mtime]
                          ELSE clones[job[p].repo]

(* copytree ends; it raises when the clone has vanished meanwhile. *)
EndCopy(p) ==
    /\ job[p].pc = "copy"
    /\ IF Found(p) = NoDir
       THEN /\ job' = [job EXCEPT ![p] = Idle]
            /\ UNCHANGED <<dirs, clones>>
       ELSE /\ job' = [job EXCEPT ![p].pc = "record"]
            /\ dirs' = [dirs EXCEPT ![At(p)] = Found(p)]
            /\ CleanUp(p)
    /\ flawed' = IF Found(p).content = job[p].key THEN flawed ELSE flawed \cup {At(p)}
    /\ UNCHANGED <<schemaVars, held, rows, contested, jobs, edits, crashes>>

(* record_ingested_repo: an existing row keeps its place, and its time. *)
Upserted(row) ==
    LET Same(i) == rows[i].repo = row.repo /\ rows[i].commit = row.commit IN
    IF \E i \in DOMAIN rows : Same(i)
    THEN [i \in DOMAIN rows |-> IF Same(i) THEN row ELSE rows[i]]
    ELSE Append(rows, row)

RecordEarly(p) ==  \* mutant: recorded before it is copied
    /\ job[p].pc \in {"look", "record"}
    /\ rows' = Upserted(Row(job[p].repo, job[p].source, job[p].key))
    /\ job' = [job EXCEPT ![p] = IF @.pc = "record" THEN Idle ELSE @]
    /\ UNCHANGED <<schemaVars, held, clones, dirs, flawed, contested, jobs, edits, crashes>>

(* The snapshot is recorded, and ingest_repo returns its key. *)
RecordSnapshot(p) ==
    /\ job[p].pc = "record"
    /\ rows' = Upserted(Row(job[p].repo, job[p].source, job[p].key))
    /\ job' = [job EXCEPT ![p] = Idle]
    /\ UNCHANGED <<schemaVars, held, clones, dirs, flawed, contested, jobs, edits, crashes>>

(* init_db of a command that is not ingesting yet. *)
OpenDatabase(p) == SchemaStep(p) /\ UNCHANGED ingestVars

(* The process dies: a snapshot that was being copied stays as it is. *)
Crash(p) ==
    /\ opening[p].pc # "closed"
    /\ crashes < MaxCrashes
    /\ crashes' = crashes + 1
    /\ CloseCut(p)
    /\ job' = [job EXCEPT ![p] = Idle]
    /\ flawed' = flawed \cup {d \in {At(p)} : job[p].pc = "copy"}
    /\ UNCHANGED <<held, clones, dirs, rows, contested, jobs, edits>>

Step(p) ==
    \/ OpenDatabase(p)
    \/ Prepare(p)
    \/ Reuse(p)
    \/ BeginCopy(p)
    \/ EndCopy(p)
    \/ RecordSnapshot(p)

Next ==
    \/ \E o \in Origins : Edit(o) \/ Commit(o)
    \/ \E p \in Procs :
        \/ Step(p)
        \/ \E s \in Sources, v \in Views : Resolve(p, s, v)
        \/ Refuse(p)
        \/ Crash(p)

Spec == Init /\ [][Next]_vars

(* A command that was started runs; the operator starts it again. *)
FairSpec == Spec /\ \A p \in Procs : WF_vars(OpenDatabase(p))

-----------------------------------------------------------------------------
(* latest_snapshot: the directories of the newest mtime; of several, any. *)
Latest(r) ==
    LET commits == {k \in Contents : dirs[<<r, k>>] # NoDir} IN
    {k \in commits : \A other \in commits : dirs[<<r, other>>].mtime <= dirs[<<r, k>>].mtime}

DirType == [content : Contents \cup {None, "partial"}, mtime : 0 .. MaxEdits]

JobType == [pc : {"idle", "prepare", "look", "copy", "record"},
            source : Sources \cup {None}, origin : Origins \cup {None},
            repo : Repos \cup {None}, key : Contents \cup {None}]

TypeOK ==
    /\ SchemaTypeOK
    /\ held \in [Origins -> [tree : Contents, head : Contents, mtime : 1 .. MaxEdits]]
    /\ clones \in [Repos -> DirType]
    /\ dirs \in [Repos \X Contents -> DirType]
    /\ rows \in Seq([repo : Repos, source : Sources, commit : Contents])
    /\ job \in [Procs -> JobType]
    /\ flawed \subseteq Repos \X Contents
    /\ contested \subseteq Repos
    /\ jobs \in 0 .. MaxJobs
    /\ edits \in 1 .. MaxEdits
    /\ crashes \in 0 .. MaxCrashes

(* A source that stands for one origin, wherever it is spelled: a URL, or an absolute
   path that stays what it is. *)
Fixed(s) == \A v, w \in Views : Identity[v][s] = Identity[w][s]

(* The rows of a repository id come from one origin, whatever ids are asked for, in
   whatever directory, and whichever sources share a base name: as far as the rows
   still tell it, for `ingest .' in two directories leaves rows that say the same, and
   unless commands for two origins resolved it before either was recorded. *)
OneSourcePerRepo ==
    \A i, j \in DOMAIN rows :
        (/\ rows[i].repo = rows[j].repo /\ rows[i].repo \notin contested
         /\ Fixed(rows[i].source) /\ Fixed(rows[j].source))
        => \A v \in Views : Identity[v][rows[i].source] = Identity[v][rows[j].source]

(* A recorded snapshot is a whole copy of what its key names, except for the
   three ways there are to flaw it: a copy that was cut, one that was reused
   while another command was at it, and a source that changed or was dirty. *)
RecordedIsWhole ==
    \A i \in DOMAIN rows :
        LET d == <<rows[i].repo, rows[i].commit>> IN
        d \notin flawed => dirs[d].content = rows[i].commit

(* A snapshot that was copied is never written again. *)
SnapshotStays ==
    [][\A d \in Repos \X Contents :
        dirs[d].content \notin {None, "partial"} => dirs'[d] = dirs[d]]_vars

(* When a command has ingested a snapshot, and no other command is at it,
   latest_snapshot returns the commit it ingested. *)
LatestIsIngested ==
    [][\A p \in Procs, r \in Repos :
        (/\ job[p].repo = r /\ job[p].pc = "record" /\ job'[p].pc = "idle" /\ opening'[p].pc = "open"
         /\ \A q \in Procs \ {p} : job[q].pc = "idle")
        => Latest(r)' = {job[p].key}]_vars

-----------------------------------------------------------------------------
(* The inductive invariants. *)

(* Where a command stands: what it has found out, and that it has a database. *)
Engaged(p) ==
    /\ job[p].pc # "idle" =>
        /\ job[p].source \in Sources /\ job[p].repo \in Repos
        /\ \E v \in Views : job[p].origin = Identity[v][job[p].source]
    /\ job[p].pc \in {"look", "copy", "record"} => job[p].key \in Contents

Steady ==
    /\ TypeOK
    /\ \A p \in Procs : Engaged(p)
    /\ \A r \in Repos : clones[r] = NoDir \/ clones[r].content \in Contents
    /\ \A d \in Repos \X Contents : dirs[d].content = None => dirs[d] = NoDir

(* Behind OneSourcePerRepo: what was true when an id was resolved is still true
   when it is recorded, unless the id is contested. *)
Exclusive(p) ==
    job[p].pc # "idle" /\ job[p].repo \notin contested =>
        /\ \A i \in DOMAIN rows : rows[i].repo = job[p].repo /\ Fixed(rows[i].source)
                => \A v \in Views : Identity[v][rows[i].source] = job[p].origin
        /\ \A q \in Procs : job[q].pc # "idle" /\ job[q].repo = job[p].repo
                => job[q].origin = job[p].origin

OwnedInv == OneSourcePerRepo /\ \A p \in Procs : Exclusive(p)

(* Behind RecordedIsWhole and SnapshotStays: one command at a time copies to a
   directory, and one that is there and not flawed is whole once it has ended. *)
CopiedInv ==
    /\ \A p \in Procs : job[p].pc = "copy" =>
            dirs[At(p)].content = "partial" /\ Copying(At(p)) = {p}
    /\ \A d \in (Repos \X Contents) \ flawed :
            dirs[d] # NoDir /\ Copying(d) = {} => dirs[d].content = d[2]
    /\ \A p \in Procs : job[p].pc = "record" /\ At(p) \notin flawed =>
            dirs[At(p)].content = job[p].key
    /\ RecordedIsWhole
=============================================================================
