------------------------------ MODULE Migrations ------------------------------
(***************************************************************************)
(* Opening the database: init_db of store/db.py, which every command calls *)
(* first.                                                                  *)
(*                                                                         *)
(* The versions on record are read once.  Each other script of ddl/ is     *)
(* executed in the order of its version, statement by statement, as        *)
(* executescript commits each on its own; then the version is recorded, in *)
(* a transaction of its own.  Most statements cannot be executed twice,    *)
(* but a script that makes a table anew can, and then takes away what      *)
(* later scripts have done to the table since.                             *)
(***************************************************************************)
EXTENDS Integers, FiniteSets, FiniteSetsExt

CONSTANTS
    Procs,     \* commands that open the database
    Versions,  \* numbers of the scripts in ddl/
    Size,      \* statements of a script
    Refuses(_, _), \* whether SQLite refuses a statement, given what is in effect
    Undoes     \* of a statement: those whose effect it takes away

Statements == UNION {{v} \X (1 .. Size[v]) : v \in Versions}

ASSUME MigrationsAssumption ==
    /\ Versions \subseteq Nat \ {0}
    /\ Size \in [Versions -> Nat \ {0}]
    /\ Undoes \in [Statements -> SUBSET Statements]

VARIABLES
    executed,  \* statements whose effect is there
    recorded,  \* schema_migrations
    opening,   \* the commands that are in init_db
    undone,    \* history: what a script undid that is executed more than once
    cut        \* history: versions in whose script a process ended

schemaVars == <<executed, recorded, opening, undone, cut>>

Closed == [pc |-> "closed", already |-> {}, version |-> 0, statement |-> 1]

SchemaInit ==
    /\ executed = {}
    /\ recorded = {}
    /\ opening = [p \in Procs |-> Closed]
    /\ undone = {}
    /\ cut = {}

NextApplied(already) ==  \* mutant: begins with a version that is on record
    Min(Versions)

(* The first script, in the order of _discover_migrations, that was not on
   record when the database was opened; 0 when there is none. *)
NextVersion(already) ==
    IF Versions \subseteq already THEN 0 ELSE Min(Versions \ already)

(* The script of the next version begins, or the database is open. *)
Turn(p, already) ==
    LET next == NextVersion(already) IN
    opening' = [opening EXCEPT ![p] =
                   [pc |-> IF next = 0 THEN "open" ELSE "script",
                    already |-> already, version |-> next, statement |-> 1]]

(* get_connection and _applied_versions *)
Open(p) ==
    /\ opening[p].pc = "closed"
    /\ Turn(p, recorded)
    /\ UNCHANGED <<executed, recorded, undone, cut>>

(* The script that p is at is on record by now, or another command is at it. *)
Repeats(p) ==
    \/ opening[p].version \in recorded
    \/ \E q \in Procs \ {p} : /\ opening[q].pc = "script"
                              /\ opening[q].version = opening[p].version

(* One statement of the script: it takes effect, or raises. *)
Execute(p) ==
    LET it == <<opening[p].version, opening[p].statement>> IN
    /\ opening[p].pc = "script"
    /\ opening[p].statement <= Size[opening[p].version]
    /\ IF Refuses(it, executed)
       THEN /\ opening' = [opening EXCEPT ![p] = Closed]
            /\ UNCHANGED <<executed, undone>>
       ELSE /\ opening' = [opening EXCEPT ![p].statement = @ + 1]
            /\ executed' = (executed \ Undoes[it]) \cup {it}
            /\ undone' = undone \cup IF Repeats(p) THEN Undoes[it] \cap executed ELSE {}
    /\ UNCHANGED <<recorded, cut>>

RecordFirst(p) ==  \* mutant: the row is committed before the script is through
    LET version == opening[p].version IN
    /\ opening[p].pc = "script"
    /\ opening[p].statement >= Size[version]
    /\ IF version \in recorded
       THEN opening' = [opening EXCEPT ![p] = Closed]
       ELSE Turn(p, opening[p].already \cup {version})
    /\ recorded' = recorded \cup {version}
    /\ UNCHANGED <<executed, undone, cut>>

(* The row of the version: refused when another command has inserted it. *)
RecordVersion(p) ==
    LET version == opening[p].version IN
    /\ opening[p].pc = "script"
    /\ opening[p].statement > Size[version]
    /\ IF version \in recorded
       THEN opening' = [opening EXCEPT ![p] = Closed]
       ELSE Turn(p, opening[p].already \cup {version})
    /\ recorded' = recorded \cup {version}
    /\ UNCHANGED <<executed, undone, cut>>

(* The process ends: what it executed stays, and a version it was at has no
   row. *)
CloseCut(p) ==
    /\ opening' = [opening EXCEPT ![p] = Closed]
    /\ cut' = cut \cup {v \in {opening[p].version} : opening[p].pc = "script"}
    /\ UNCHANGED <<executed, recorded, undone>>

SchemaStep(p) == Open(p) \/ Execute(p) \/ RecordVersion(p)

-----------------------------------------------------------------------------
SchemaTypeOK ==
    /\ executed \subseteq Statements
    /\ recorded \subseteq Versions
    /\ opening \in [Procs -> [pc : {"closed", "script", "open"}, already : SUBSET Versions,
                              version : Versions \cup {0}, statement : Nat \ {0}]]
    /\ undone \subseteq Statements
    /\ cut \subseteq Versions

After(t, s) == s[1] < t[1] \/ (s[1] = t[1] /\ s[2] < t[2])

(* What is still there when all scripts have been executed in their order. *)
Lasting == {s \in Statements : \A t \in Statements : After(t, s) => s \notin Undoes[t]}

(* The effects of some statements of a script, as far as they last. *)
InEffect(v, I) == \A i \in I : <<v, i>> \in Lasting => <<v, i>> \in executed \cup undone

(* A version on record stands for every earlier one, and for the lasting effects of
   its script, whichever commands opened the database together or died in between.
   The exception: a command that had read the versions before may execute a script
   that another one has executed; where SQLite does not refuse that, it takes away
   what the other one, or later scripts, have done. *)
RecordedIsApplied ==
    \A v \in recorded :
        /\ InEffect(v, 1 .. Size[v])
        /\ \A w \in Versions : w < v => w \in recorded

(* The inductive invariant behind it: a command has executed the script it is at
   up to its statement, and nothing earlier is missing. *)
Migrating(p) ==
    opening[p].pc = "script" =>
        /\ opening[p].version \in Versions
        /\ InEffect(opening[p].version, 1 .. opening[p].statement - 1)
        /\ \A w \in Versions : w < opening[p].version => w \in opening[p].already

SchemaInv ==
    /\ SchemaTypeOK
    /\ \A p \in Procs : opening[p].already \subseteq recorded /\ Migrating(p)
    /\ RecordedIsApplied

(* The database gets its schema, however many commands open it at once and
   fail on each other's statements, unless one of them died in a script: then
   statements that it executed may be refused for good. *)
MigratesUnlessCut == <>(recorded = Versions \/ cut # {})
=============================================================================
