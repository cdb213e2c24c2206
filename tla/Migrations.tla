------------------------------ MODULE Migrations ------------------------------
(***************************************************************************)
(* Opening a database: SqliteStore.__init__ calls migrate, which brings    *)
(* the schema up to the version the program knows.  Processes may open one *)
(* file at the same time, of different releases of the program, and may    *)
(* end between any two commits: DDL outside a transaction commits          *)
(* statement by statement, and executescript opens none.                   *)
(***************************************************************************)
EXTENDS Integers, Sequences, FiniteSetsExt

CONSTANTS
    Processes,
    Scripts,    \* MIGRATIONS: Scripts[v] lists the objects version v creates
    Knows       \* Knows[p] is the last version in the registry of p's release

\* "New migrations MUST be appended -- never modify or reorder existing ones."
ASSUME MigrationsAssumption ==
    /\ \A v \in DOMAIN Scripts : Scripts[v] \in Seq(STRING) /\ Scripts[v] # << >>
    /\ DOMAIN Scripts = 1..Len(Scripts) /\ Len(Scripts) \in Nat
    /\ Knows \in [Processes -> 0..Len(Scripts)]

VARIABLES
    schema,     \* the objects in the file, each committed
    versions,   \* the rows of schema_version, each committed
    opening     \* where each process is in migrate

migrationVars == <<schema, versions, opening>>

Closed == [at |-> "closed", version |-> 0, line |-> 0]

MigrationsInit ==
    /\ schema = {} /\ versions = {}
    /\ opening = [p \in Processes |-> Closed]

IsOpen(p) == opening[p].at = "open"

\* The loop goes on after version v: to the next script, or to its end.
ScriptAfter(p, v) ==
    IF v < Knows[p] THEN [at |-> "script", version |-> v + 1, line |-> 1]
    ELSE [at |-> "open", version |-> v, line |-> 0]

\* _ensure_version_table
EnsureVersionTable(p) ==
    /\ opening[p].at = "closed"
    /\ schema' = schema \cup {"schema_version"}
    /\ opening' = [opening EXCEPT ![p] = [Closed EXCEPT !.at = "read"]]
    /\ UNCHANGED versions

\* Mutant: a file that has versions is taken for a fresh one.
ReadVersion_Fresh(p) ==
    /\ opening[p].at = "read"
    /\ opening' = [opening EXCEPT ![p] = ScriptAfter(p, 0)]
    /\ UNCHANGED <<schema, versions>>

\* _current_version, read once: the loop goes by it to its end.
ReadVersion(p) ==
    /\ opening[p].at = "read"
    /\ opening' = [opening EXCEPT ![p] = ScriptAfter(p, Max({0} \cup versions))]
    /\ UNCHANGED <<schema, versions>>

\* Mutant: the script's first statement is taken for all of it.
RunStatement_First(p) ==
    LET here == opening[p]
    IN  /\ here.at = "script"
        /\ schema' = schema \cup {Scripts[here.version][here.line]}
        /\ opening' = [opening EXCEPT ![p].at = "row"]
        /\ UNCHANGED versions

\* One statement of the script; CREATE ... IF NOT EXISTS.
RunStatement(p) ==
    LET here == opening[p]
    IN  /\ here.at = "script"
        /\ schema' = schema \cup {Scripts[here.version][here.line]}
        /\ opening' = [opening EXCEPT ![p] =
                         IF here.line = Len(Scripts[here.version]) THEN [here EXCEPT !.at = "row"]
                         ELSE [here EXCEPT !.line = @ + 1]]
        /\ UNCHANGED versions

\* The version's row.
RecordVersion(p) ==
    LET v == opening[p].version
    IN  /\ opening[p].at = "row"
        /\ v \notin versions
        /\ versions' = versions \cup {v}
        /\ opening' = [opening EXCEPT ![p] = ScriptAfter(p, v)]
        /\ UNCHANGED schema

\* Another process was faster: the row is there, INSERT raises IntegrityError and
\* the constructor with it.
VersionTaken(p) ==
    /\ opening[p].at = "row"
    /\ opening[p].version \in versions
    /\ opening' = [opening EXCEPT ![p] = Closed]
    /\ UNCHANGED <<schema, versions>>

\* The process ends, in migrate or later, or a statement is refused and raises.
CloseFile(p) ==
    /\ opening[p].at # "closed"
    /\ opening' = [opening EXCEPT ![p] = Closed]
    /\ UNCHANGED <<schema, versions>>

Migrate(p) ==
    \/ EnsureVersionTable(p) \/ ReadVersion(p)
    \/ RunStatement(p) \/ RecordVersion(p) \/ VersionTaken(p)
=============================================================================
