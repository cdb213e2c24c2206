-------------------------- MODULE TransactionalStore --------------------------
(***************************************************************************)
(* What StoreProtocol promises of `transaction`: the writes of a block     *)
(* land together or not at all, and only the outermost block decides.  So  *)
(* there is a board that has landed and a board with the writes of the     *)
(* blocks that are open; outside any block they are one.                   *)
(*                                                                         *)
(* Deadlines are no events here: a record past its deadline is expired by  *)
(* the clock, whoever has noticed.                                         *)
(***************************************************************************)
EXTENDS StoredRecords

VARIABLES landed, pending, depth

storeVars == <<landed, pending, depth>>

Init == landed = Empty /\ pending = Empty /\ depth = 0

\* A write is pending while a block is open and lands at once when none is.
Write(board) ==
    /\ pending' = board
    /\ landed' = IF depth = 0 THEN board ELSE landed
    /\ UNCHANGED depth

AppendRow(id, c, stamp) ==
    /\ id \notin DOMAIN pending
    /\ Write(With(pending, id, Arrived(pending, c, stamp)))

InvalidateRow(id, why) == Write(Struck(pending, id, why))

Enter ==
    /\ depth' = depth + 1
    /\ UNCHANGED <<landed, pending>>

Leave ==
    /\ depth > 0
    /\ depth' = depth - 1
    /\ landed' = IF depth = 1 THEN pending ELSE landed
    /\ UNCHANGED pending

\* A block fails.  Inside another one, whoever catches the exception there goes
\* on with what the failed block wrote.
Fail ==
    /\ depth > 0
    /\ depth' = depth - 1
    /\ pending' = IF depth = 1 THEN landed ELSE pending
    /\ UNCHANGED landed

\* The process ends with blocks open.
Die ==
    /\ depth' = 0
    /\ pending' = landed
    /\ UNCHANGED landed

Next ==
    \/ \E id \in Ids, c \in Contents, stamp \in Times : AppendRow(id, c, stamp)
    \/ \E id \in Ids, why \in Why : InvalidateRow(id, why)
    \/ Enter \/ Leave \/ Fail \/ Die

Spec == Init /\ [][Next]_storeVars
=============================================================================
