----------------------------- MODULE StoredRecords -----------------------------
(***************************************************************************)
(* What a store keeps: a board of rows under their ids, and what it does   *)
(* to a board, whichever store it is.  Blackboard has the same records as  *)
(* the kernel sees them; here they have the ids, stamps and deadlines that *)
(* the stores tell them apart by.                                          *)
(*                                                                         *)
(* A row carries its place in the order of arrival: the position in the    *)
(* lists of MemoryStore, and the rowid by which SQLite returns the rows of *)
(* one index key.                                                          *)
(***************************************************************************)
EXTENDS Integers, Sequences, FiniteSets

CONSTANTS
    Contents,   \* what clients write: slot, kind, trace, scope and ttl
    Why,        \* the reasons clients invalidate a record for
    MaxNumber,  \* bound on the numbers of ids
    MaxClock    \* bound on the clock

NoTtl == -1     \* ttl_ms=None

ASSUME ContentsAssumption ==
    /\ Contents \subseteq [slot : STRING, kind : STRING, trace : STRING,
                           scope : {"episode", "persistent"}, ttl : {NoTtl} \cup Nat]
    /\ Why \subseteq STRING /\ Why \cap {"none", "TTL_EXPIRED"} = {}
    /\ MaxNumber \in Nat /\ MaxClock \in Nat

Times == 0..MaxClock

\* The counter a record's number comes from, and the id that has both.
Key(c) == [slot |-> c.slot, trace |-> c.trace]
Keys   == {Key(c) : c \in Contents}
Ids    == [key : Keys, n : 1..MaxNumber]

Row == [content : Contents, stamp : Times, at : Nat,
        status : {"ACTIVE", "INVALIDATED", "EXPIRED"},
        reason : Why \cup {"none", "TTL_EXPIRED"}]

\* A board holds finitely many rows, and an ACTIVE one has no reason.
IsBoard(b) ==
    /\ DOMAIN b \subseteq Ids
    /\ IsFiniteSet(DOMAIN b)
    /\ b \in [DOMAIN b -> Row]
    /\ \A i \in DOMAIN b : b[i].status = "ACTIVE" => b[i].reason = "none"

Empty == [i \in {} |-> 0]

-----------------------------------------------------------------------------
\* Updates.

\* The next place in the order of arrival: no record leaves the board but those
\* that came last.
NextPlace(b) == Cardinality(DOMAIN b) + 1

\* A record as write makes it, put on the board.
Arrived(b, c, stamp) ==
    [content |-> c, stamp |-> stamp, at |-> NextPlace(b), status |-> "ACTIVE", reason |-> "none"]

With(b, id, row) == [i \in DOMAIN b \cup {id} |-> IF i = id THEN row ELSE b[i]]

Judged(row, status, reason) == [row EXCEPT !.status = status, !.reason = reason]

\* invalidate; an id the board has not changes nothing.
Struck(b, id, why) ==
    [i \in DOMAIN b |-> IF i = id THEN Judged(b[i], "INVALIDATED", why) ELSE b[i]]

-----------------------------------------------------------------------------
\* Deadlines.

Past(row, now) == row.content.ttl # NoTtl /\ now >= row.stamp + row.content.ttl

\* _check_ttl: what a reader sees, and leaves behind.
Checked(row, now) ==
    IF row.status = "ACTIVE" /\ Past(row, now)
    THEN Judged(row, "EXPIRED", "TTL_EXPIRED")
    ELSE row

\* The rows with the marks of _check_ttl that readers of `ids` leave.
Marked(b, ids, now) == [i \in DOMAIN b |-> IF i \in ids THEN Checked(b[i], now) ELSE b[i]]

\* The rows without any such mark: it says nothing the clock does not say.
Unmark(row) == IF row.status = "EXPIRED" THEN Judged(row, "ACTIVE", "none") ELSE row
Unmarked(b) == [i \in DOMAIN b |-> Unmark(b[i])]

-----------------------------------------------------------------------------
\* Queries, as a reader at time `now` is answered.

Seen(b, now) == [i \in DOMAIN b |-> Checked(b[i], now)]

InSlot(b, slot) == {i \in DOMAIN b : b[i].content.slot = slot}

\* What find_active_by_kind looks for.
Candidates(b, slot, kind, trace) ==
    {i \in DOMAIN b : /\ b[i].content.slot = slot
                      /\ b[i].content.kind = kind
                      /\ b[i].content.trace = trace
                      /\ b[i].status = "ACTIVE"}

Live(b, ids, now) == {i \in ids : Checked(b[i], now).status = "ACTIVE"}
=============================================================================
