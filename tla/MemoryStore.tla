------------------------------ MODULE MemoryStore ------------------------------
(***************************************************************************)
(* MemoryStore: it writes in place and keeps a log of how to take back     *)
(* what it wrote.  The lock of the store makes each method one step.       *)
(***************************************************************************)
EXTENDS StoredRecords, FiniteSetsExt, Folds

VARIABLES
    mem,        \* _records, with the lists of _by_slot in the rows' places
    undo,       \* _undo, the closures as what they would do
    memDepth    \* _tx_depth

memVars == <<mem, undo, memDepth>>

Undoing == [op : {"remove"}, id : Ids]
           \cup [op : {"restore"}, id : Ids, status : {"ACTIVE", "INVALIDATED", "EXPIRED"},
                 reason : Why \cup {"none", "TTL_EXPIRED"}]

MemInit == mem = Empty /\ undo = << >> /\ memDepth = 0

\* Mutant: what is written outside any block is logged too.
Logged_Always(entry) == Append(undo, entry)

\* _record_undo
Logged(entry) == IF memDepth > 0 THEN Append(undo, entry) ELSE undo

MemTaken(id) == id \in DOMAIN mem

MemAppend(id, c, stamp) ==
    /\ ~MemTaken(id)
    /\ mem' = With(mem, id, Arrived(mem, c, stamp))
    /\ undo' = Logged([op |-> "remove", id |-> id])
    /\ UNCHANGED memDepth

MemInvalidate(id, why) ==
    /\ mem' = Struck(mem, id, why)
    /\ undo' = IF MemTaken(id)
               THEN Logged([op |-> "restore", id |-> id,
                            status |-> mem[id].status, reason |-> mem[id].reason])
               ELSE undo
    /\ UNCHANGED memDepth

-----------------------------------------------------------------------------
\* Taking back.

\* One entry of the log, applied.
UndoOne(entry, b) ==
    IF entry.op = "remove" THEN [i \in DOMAIN b \ {entry.id} |-> b[i]]
    ELSE [i \in DOMAIN b |-> IF i = entry.id THEN Judged(b[i], entry.status, entry.reason) ELSE b[i]]

\* The whole log, from its last entry to its first, as the loop applies it.
UndoneInTurn(b, log) ==
    MapThenFoldSet(UndoOne, b, LAMBDA n : log[n], LAMBDA S : Min(S), DOMAIN log)

Removed(log)      == {log[n].id : n \in {m \in DOMAIN log : log[m].op = "remove"}}
Restores(log, id) == {n \in DOMAIN log : log[n].op = "restore" /\ log[n].id = id}

\* Mutant: the log is applied from its first entry to its last.
Restored_Forward(b, log, id) ==
    IF Restores(log, id) = {} THEN b[id]
    ELSE LET last == log[Max(Restores(log, id))] IN Judged(b[id], last.status, last.reason)

\* What that comes to: a record gets back the verdict the first entry of its own has
\* kept, and the records appended since go.
Restored(b, log, id) ==
    IF Restores(log, id) = {} THEN b[id]
    ELSE LET first == log[Min(Restores(log, id))] IN Judged(b[id], first.status, first.reason)

Undone(b, log) == [id \in DOMAIN b \ Removed(log) |-> Restored(b, log, id)]

-----------------------------------------------------------------------------
\* transaction: nothing is undone but by the outermost block, which has the log
\* from its start, and which clears it however it ends.

MemEnter ==
    /\ memDepth' = memDepth + 1
    /\ UNCHANGED <<mem, undo>>

\* Mutant: every block clears it.
Emptied_EachBlock == << >>

Emptied == IF memDepth = 1 THEN << >> ELSE undo

MemLeave ==
    /\ memDepth > 0
    /\ memDepth' = memDepth - 1
    /\ undo' = Emptied
    /\ UNCHANGED mem

MemFail ==
    /\ memDepth > 0
    /\ memDepth' = memDepth - 1
    /\ mem' = IF memDepth = 1 THEN Undone(mem, undo) ELSE mem
    /\ undo' = Emptied

-----------------------------------------------------------------------------
\* Readers leave the marks of _check_ttl in place; the log knows nothing of them.

\* find_active_by_kind: the first of the slot's list that is one, if any.
MemFound(slot, kind, trace, now) ==
    LET live == Live(mem, Candidates(mem, slot, kind, trace), now)
    IN  {i \in live : \A j \in live : mem[i].at <= mem[j].at}

\* The records it checks: the slot's, up to the one it returns.
MemWalked(slot, kind, trace, now) ==
    {i \in InSlot(mem, slot) :
        \A j \in MemFound(slot, kind, trace, now) : mem[i].at <= mem[j].at}

MemRead(ids, now) ==
    /\ mem' = Marked(mem, ids, now)
    /\ UNCHANGED <<undo, memDepth>>
=============================================================================
