------------------------------ MODULE SqliteStore ------------------------------
(***************************************************************************)
(* SqliteStore: the rows of its file, and the rows its connection sees,    *)
(* which are ahead of the file while a transaction is open.  The lock of   *)
(* the store makes each method one step.  A statement that SQLite or the   *)
(* disk refuses raises and is one way for a block to fail.                 *)
(***************************************************************************)
EXTENDS StoredRecords

VARIABLES
    file,       \* the rows of the database
    conn,       \* the rows _conn sees
    sqlDepth    \* _tx_depth

sqlVars == <<file, conn, sqlDepth>>

SqlInit == file = Empty /\ conn = Empty /\ sqlDepth = 0

\* A statement, and _maybe_commit.
SqlWrite(rows) ==
    /\ conn' = rows
    /\ file' = IF sqlDepth = 0 THEN rows ELSE file
    /\ UNCHANGED sqlDepth

SqlTaken(id) == id \in DOMAIN conn

\* Mutant: INSERT OR REPLACE.
SqlAppend_OrReplace(id, c, stamp) ==
    SqlWrite(With(conn, id, Arrived(conn, c, stamp)))

SqlAppend(id, c, stamp) ==
    /\ ~SqlTaken(id)
    /\ SqlWrite(With(conn, id, Arrived(conn, c, stamp)))

SqlInvalidate(id, why) == SqlWrite(Struck(conn, id, why))

-----------------------------------------------------------------------------
\* transaction: the outermost block commits or rolls back.

SqlEnter ==
    /\ sqlDepth' = sqlDepth + 1
    /\ UNCHANGED <<file, conn>>

\* Mutant: every block commits.
SqlLeave_Commits ==
    /\ sqlDepth > 0
    /\ sqlDepth' = sqlDepth - 1
    /\ file' = conn
    /\ UNCHANGED conn

SqlLeave ==
    /\ sqlDepth > 0
    /\ sqlDepth' = sqlDepth - 1
    /\ file' = IF sqlDepth = 1 THEN conn ELSE file
    /\ UNCHANGED conn

SqlFail ==
    /\ sqlDepth > 0
    /\ sqlDepth' = sqlDepth - 1
    /\ conn' = IF sqlDepth = 1 THEN file ELSE conn
    /\ UNCHANGED file

\* The process ends; the next one opens the file.
SqlDie ==
    /\ sqlDepth' = 0
    /\ conn' = file
    /\ UNCHANGED file

-----------------------------------------------------------------------------
\* Readers write the marks of _check_ttl, in the transaction if one is open.

\* ORDER BY ts_ms ASC; among equals the rows come as they arrived.
Before(i, j) ==
    \/ conn[i].stamp < conn[j].stamp
    \/ conn[i].stamp = conn[j].stamp /\ conn[i].at <= conn[j].at

Earliest(ids) == {i \in ids : \A j \in ids : Before(i, j)}

\* Mutant: only the oldest row is judged.
SqlFound_Oldest(slot, kind, trace, now) ==
    Live(conn, Earliest(Candidates(conn, slot, kind, trace)), now)

\* find_active_by_kind: the earliest row that is not expired, if any.
SqlFound(slot, kind, trace, now) ==
    Earliest(Live(conn, Candidates(conn, slot, kind, trace), now))

\* The rows it checks: the candidates, up to the one it returns.
SqlWalked(slot, kind, trace, now) ==
    {i \in Candidates(conn, slot, kind, trace) :
        \A j \in SqlFound(slot, kind, trace, now) : Before(i, j)}

SqlRead(ids, now) == SqlWrite(Marked(conn, ids, now))

\* The queries beyond the protocol.  The first does not check the ttl.
ListByStatus(status) == {i \in DOMAIN conn : conn[i].status = status}

ListPersistent(slot) ==
    {i \in DOMAIN conn : conn[i].content.scope = "persistent" /\ conn[i].content.slot = slot}

CountInvalidatedByReason(why) ==
    Cardinality({i \in ListByStatus("INVALIDATED") : conn[i].reason = why})
=============================================================================
