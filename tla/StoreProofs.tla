----------------------------- MODULE StoreProofs -----------------------------
(***************************************************************************)
(* Proofs of StoreProperties, for any clients, contents, scripts, numbers  *)
(* of blocks and of processes: each store is a TransactionalStore, what    *)
(* has landed stays, an id is passed over only when it is taken, the       *)
(* version of a file tells the truth, and the two stores agree.  They rest *)
(* on the lemmas that come first: what an update makes of a board, that    *)
(* the marks of expiry do not matter to it, and what taking back the log   *)
(* of MemoryStore comes to.                                                *)
(***************************************************************************)
EXTENDS StoreProperties, FiniteSetTheorems, WellFoundedInduction, TLAPS

-----------------------------------------------------------------------------
\* Boards.

LEMMA EmptyBoard == IsBoard(Empty)
  BY FS_EmptySet DEF IsBoard, Empty

LEMMA RowFields ==
    ASSUME NEW b, IsBoard(b), NEW i \in DOMAIN b
    PROVE  b[i] \in Row
  BY DEF IsBoard

LEMMA JudgedRow ==
    ASSUME NEW r \in Row,
           NEW status \in {"ACTIVE", "INVALIDATED", "EXPIRED"},
           NEW reason \in Why \cup {"none", "TTL_EXPIRED"}
    PROVE  /\ Judged(r, status, reason) \in Row
           /\ Judged(r, status, reason).status = status
           /\ Judged(r, status, reason).reason = reason
           /\ Judged(r, status, reason).content = r.content
           /\ Judged(r, status, reason).stamp = r.stamp
           /\ Judged(r, status, reason).at = r.at
  BY DEF Judged, Row

\* A verdict replaces the one before.
LEMMA JudgedTwice ==
    ASSUME NEW r \in Row, NEW s, NEW t, NEW u, NEW v
    PROVE  /\ Judged(Judged(r, s, t), u, v) = Judged(r, u, v)
           /\ Judged(r, r.status, r.reason) = r
  BY DEF Judged, Row

LEMMA CheckedRow ==
    ASSUME NEW r \in Row, NEW now
    PROVE  Checked(r, now) \in Row
  BY JudgedRow DEF Checked

LEMMA NextPlaceIsNat ==
    ASSUME NEW b, IsBoard(b)
    PROVE  NextPlace(b) \in Nat
  BY FS_CardinalityType DEF IsBoard, NextPlace

LEMMA ArrivedRow ==
    ASSUME NEW b, IsBoard(b), NEW c \in Contents, NEW stamp \in Times
    PROVE  Arrived(b, c, stamp) \in Row
  BY NextPlaceIsNat DEF Arrived, Row

LEMMA BoardWith ==
    ASSUME NEW b, IsBoard(b), NEW id \in Ids, NEW c \in Contents, NEW stamp \in Times
    PROVE  IsBoard(With(b, id, Arrived(b, c, stamp)))
  <1> DEFINE row == Arrived(b, c, stamp)
             w == With(b, id, row)
  <1>1. DOMAIN w = DOMAIN b \cup {id}
    BY DEF With
  <1>2. DOMAIN w \subseteq Ids /\ IsFiniteSet(DOMAIN w)
    BY <1>1, FS_AddElement DEF IsBoard
  <1>3. \A i \in DOMAIN w : w[i] = IF i = id THEN row ELSE b[i]
    BY DEF With
  <1>4. row \in Row /\ row.reason = "none"
    BY ArrivedRow DEF Arrived
  <1>5. w \in [DOMAIN w -> Row]
    BY <1>1, <1>4 DEF With, IsBoard
  <1>6. \A i \in DOMAIN w : w[i].status = "ACTIVE" => w[i].reason = "none"
    BY <1>1, <1>3, <1>4 DEF IsBoard
  <1> QED
    BY <1>2, <1>5, <1>6 DEF IsBoard

LEMMA BoardStruck ==
    ASSUME NEW b, IsBoard(b), NEW id, NEW why \in Why
    PROVE  /\ IsBoard(Struck(b, id, why))
           /\ DOMAIN Struck(b, id, why) = DOMAIN b
  <1> DEFINE s == Struck(b, id, why)
  <1>1. DOMAIN s = DOMAIN b /\ \A i \in DOMAIN b :
          s[i] = IF i = id THEN Judged(b[i], "INVALIDATED", why) ELSE b[i]
    BY DEF Struck
  <1>2. \A i \in DOMAIN b : s[i] \in Row /\ (s[i].status = "ACTIVE" => s[i].reason = "none")
    BY <1>1, RowFields, JudgedRow DEF IsBoard
  <1>3. s \in [DOMAIN s -> Row]
    BY <1>1, <1>2 DEF Struck
  <1> QED
    BY <1>1, <1>2, <1>3 DEF IsBoard

LEMMA BoardMarked ==
    ASSUME NEW b, IsBoard(b), NEW ids, NEW now
    PROVE  /\ IsBoard(Marked(b, ids, now))
           /\ DOMAIN Marked(b, ids, now) = DOMAIN b
  <1> DEFINE s == Marked(b, ids, now)
  <1>1. DOMAIN s = DOMAIN b /\ \A i \in DOMAIN b :
          s[i] = IF i \in ids THEN Checked(b[i], now) ELSE b[i]
    BY DEF Marked
  <1>2. \A i \in DOMAIN b : s[i] \in Row /\ (s[i].status = "ACTIVE" => s[i].reason = "none")
    BY <1>1, RowFields, JudgedRow DEF IsBoard, Checked
  <1>3. s \in [DOMAIN s -> Row]
    BY <1>1, <1>2 DEF Marked
  <1> QED
    BY <1>1, <1>2, <1>3 DEF IsBoard

-----------------------------------------------------------------------------
\* Boards without the marks of expiry.

LEMMA UnmarkRow ==
    ASSUME NEW r \in Row
    PROVE  /\ Unmark(r) \in Row
           /\ Unmark(r).content = r.content
           /\ Unmark(r).stamp = r.stamp
           /\ Unmark(r).at = r.at
  BY JudgedRow DEF Unmark

LEMMA UnmarkJudged ==
    ASSUME NEW r \in Row, NEW why \in Why
    PROVE  Unmark(Judged(r, "INVALIDATED", why)) = Judged(Unmark(r), "INVALIDATED", why)
  BY JudgedRow, JudgedTwice DEF Unmark

LEMMA UnmarkChecked ==
    ASSUME NEW r \in Row, r.status = "ACTIVE" => r.reason = "none", NEW now
    PROVE  Unmark(Checked(r, now)) = Unmark(r)
  <1>1. CASE Checked(r, now) = r
    BY <1>1
  <1>2. CASE Checked(r, now) # r
    <2>1. r.status = "ACTIVE" /\ r.reason = "none"
          /\ Checked(r, now) = Judged(r, "EXPIRED", "TTL_EXPIRED")
      BY <1>2 DEF Checked
    <2>2. Unmark(Checked(r, now)) = Judged(r, "ACTIVE", "none")
      BY <2>1, JudgedRow, JudgedTwice DEF Unmark
    <2> QED
      BY <2>1, <2>2, JudgedTwice DEF Unmark
  <1> QED
    BY <1>1, <1>2

LEMMA UnmarkedDomain == \A b : DOMAIN Unmarked(b) = DOMAIN b
  BY DEF Unmarked

LEMMA UnmarkedWith ==
    ASSUME NEW b, IsBoard(b), NEW id, NEW c \in Contents, NEW stamp \in Times
    PROVE  Unmarked(With(b, id, Arrived(b, c, stamp)))
             = With(Unmarked(b), id, Arrived(Unmarked(b), c, stamp))
  <1>1. NextPlace(Unmarked(b)) = NextPlace(b)
    BY UnmarkedDomain DEF NextPlace
  <1>2. Arrived(Unmarked(b), c, stamp) = Arrived(b, c, stamp)
    BY <1>1 DEF Arrived
  <1>3. Unmark(Arrived(b, c, stamp)) = Arrived(b, c, stamp)
    BY DEF Unmark, Arrived
  <1> QED
    BY <1>2, <1>3 DEF Unmarked, With

LEMMA UnmarkedStruck ==
    ASSUME NEW b, IsBoard(b), NEW id, NEW why \in Why
    PROVE  Unmarked(Struck(b, id, why)) = Struck(Unmarked(b), id, why)
  BY UnmarkJudged, RowFields DEF Unmarked, Struck

LEMMA UnmarkedMarked ==
    ASSUME NEW b, IsBoard(b), NEW ids, NEW now
    PROVE  Unmarked(Marked(b, ids, now)) = Unmarked(b)
  <1>1. \A i \in DOMAIN b : Unmark(Marked(b, ids, now)[i]) = Unmark(b[i])
    BY UnmarkChecked, RowFields DEF Marked, IsBoard
  <1> QED
    BY <1>1, BoardMarked DEF Unmarked

-----------------------------------------------------------------------------
\* Taking back a log.

LEMMA LogEntries ==
    ASSUME NEW log \in Seq(Undoing), NEW e \in Undoing
    PROVE  /\ DOMAIN log = 1..Len(log)
           /\ DOMAIN Append(log, e) = 1..(Len(log) + 1)
           /\ \A n \in DOMAIN log : Append(log, e)[n] = log[n]
           /\ Append(log, e)[Len(log) + 1] = e
           /\ Len(log) \in Nat
           /\ Append(log, e) \in Seq(Undoing)
  OBVIOUS

LEMMA LeastIsMin ==
    ASSUME NEW S \in SUBSET Nat, NEW m \in S, \A n \in S : m <= n
    PROVE  Min(S) = m
  <1>1. \E x \in S : \A y \in S : x =< y
    OBVIOUS
  <1>2. Min(S) \in S /\ \A y \in S : Min(S) =< y
    BY <1>1, Zenon DEF Min
  <1>3. m \in Nat /\ Min(S) \in Nat /\ Min(S) <= m /\ m <= Min(S)
    BY <1>2
  <1> QED
    BY <1>3

LEMMA NatHasLeast ==
    ASSUME NEW S \in SUBSET Nat, S # {}
    PROVE  \E x \in S : \A y \in S : x <= y
  <1>1. PICK x \in S : \A y \in S : ~(<<y, x>> \in OpToRel(<, Nat))
    BY NatLessThanWellFounded, WFMin, Zenon
  <1>2. ASSUME NEW y \in S PROVE x <= y
    <2>1. x \in Nat /\ y \in Nat
      OBVIOUS
    <2>2. y < x => <<y, x>> \in OpToRel(<, Nat)
      BY <2>1 DEF OpToRel
    <2>3. ~(y < x)
      BY <1>1, <2>2, Zenon
    <2> QED
      BY <2>1, <2>3
  <1> QED
    BY <1>2

LEMMA FirstRestore ==
    ASSUME NEW log \in Seq(Undoing), NEW i, Restores(log, i) # {}
    PROVE  /\ Min(Restores(log, i)) \in Restores(log, i)
           /\ \A n \in Restores(log, i) : Min(Restores(log, i)) <= n
  <1> DEFINE S == Restores(log, i)
  <1>1. S \in SUBSET Nat /\ S # {}
    BY DEF Restores
  <1> HIDE DEF S
  <1>2. PICK x \in S : \A y \in S : x <= y
    BY <1>1, NatHasLeast
  <1>3. Min(S) = x
    BY <1>1, <1>2, LeastIsMin
  <1> QED
    BY <1>2, <1>3 DEF S

LEMMA RestoredFacts ==
    ASSUME NEW b, NEW log, NEW i
    PROVE  /\ Restores(log, i) = {} => Restored(b, log, i) = b[i]
           /\ Restores(log, i) # {} =>
                Restored(b, log, i) = Judged(b[i], log[Min(Restores(log, i))].status,
                                                   log[Min(Restores(log, i))].reason)
  BY DEF Restored

\* Boards that differ in records of no concern, logs in entries of none.
LEMMA RestoredAlike ==
    ASSUME NEW b, NEW c, NEW log \in Seq(Undoing), NEW longer, NEW i, b[i] = c[i],
           Restores(longer, i) = Restores(log, i),
           \A n \in Restores(log, i) : longer[n] = log[n]
    PROVE  Restored(b, longer, i) = Restored(c, log, i)
  <1>1. CASE Restores(log, i) = {}
    BY <1>1, RestoredFacts
  <1>2. CASE Restores(log, i) # {}
    <2>1. longer[Min(Restores(log, i))] = log[Min(Restores(log, i))]
      BY <1>2, FirstRestore
    <2> QED
      BY <1>2, <2>1, RestoredFacts
  <1> QED
    BY <1>1, <1>2

LEMMA UndoneNothing ==
    ASSUME NEW b, IsBoard(b)
    PROVE  Undone(b, << >>) = b
  <1>1. Removed(<< >>) = {} /\ \A i : Restores(<< >>, i) = {}
    BY DEF Removed, Restores
  <1> QED
    BY <1>1, RestoredFacts DEF Undone, IsBoard

\* A record appended since is not there any more.
LEMMA UndoneAppend ==
    ASSUME NEW b, IsBoard(b), NEW log \in Seq(Undoing), NEW id \in Ids, id \notin DOMAIN b, NEW row
    PROVE  Undone(With(b, id, row), Append(log, [op |-> "remove", id |-> id])) = Undone(b, log)
  <1> DEFINE e == [op |-> "remove", id |-> id]
             longer == Append(log, e)
  <1>1. e \in Undoing
    BY DEF Undoing
  <1>2. Removed(longer) = Removed(log) \cup {id}
    BY <1>1, LogEntries DEF Removed
  <1>3. \A i : Restores(longer, i) = Restores(log, i)
    BY <1>1, LogEntries DEF Restores
  <1>4. DOMAIN With(b, id, row) \ Removed(longer) = DOMAIN b \ Removed(log)
    BY <1>2 DEF With
  <1>5. \A i \in DOMAIN b : With(b, id, row)[i] = b[i]
    BY DEF With
  <1>6. \A i : \A n \in Restores(log, i) : longer[n] = log[n]
    BY <1>1, LogEntries DEF Restores
  <1> DEFINE w == With(b, id, row)
  <1>7. DOMAIN w \ Removed(longer) = DOMAIN b \ Removed(log) /\ \A i \in DOMAIN b : w[i] = b[i]
    BY <1>4, <1>5
  <1> HIDE DEF longer, w
  <1>8. ASSUME NEW i \in DOMAIN b PROVE Restored(w, longer, i) = Restored(b, log, i)
    <2>1. /\ w[i] = b[i] /\ Restores(longer, i) = Restores(log, i)
          /\ \A n \in Restores(log, i) : longer[n] = log[n]
      BY <1>3, <1>6, <1>7
    <2> QED
      BY <2>1, RestoredAlike
  <1>9. Undone(w, longer) = Undone(b, log)
    BY <1>7, <1>8 DEF Undone
  <1> QED
    BY <1>9 DEF w, longer

\* The verdict of a record that was invalidated since is in the log.
LEMMA UndoneStruck ==
    ASSUME NEW b, IsBoard(b), NEW log \in Seq(Undoing), NEW id \in DOMAIN b, NEW why \in Why
    PROVE  Undone(Struck(b, id, why),
                  Append(log, [op |-> "restore", id |-> id,
                               status |-> b[id].status, reason |-> b[id].reason]))
             = Undone(b, log)
  <1> DEFINE e == [op |-> "restore", id |-> id, status |-> b[id].status, reason |-> b[id].reason]
             longer == Append(log, e)
             s == Struck(b, id, why)
             last == Len(log) + 1
  <1>1. e \in Undoing
    BY RowFields DEF Undoing, IsBoard, Row
  <1>2. Removed(longer) = Removed(log)
    BY <1>1, LogEntries DEF Removed
  <1>3. \A i : i # id => Restores(longer, i) = Restores(log, i)
    BY <1>1, LogEntries DEF Restores
  <1>4. Restores(longer, id) = Restores(log, id) \cup {last}
    BY <1>1, LogEntries DEF Restores
  <1>5. \A i : \A n \in Restores(log, i) : longer[n] = log[n] /\ n \in Nat /\ n < last
    BY <1>1, LogEntries DEF Restores
  <1>6. longer[last] = e /\ last \in Nat /\ e.status = b[id].status /\ e.reason = b[id].reason
    BY <1>1, LogEntries
  <1>7. DOMAIN s = DOMAIN b /\ \A i \in DOMAIN b :
          s[i] = IF i = id THEN Judged(b[i], "INVALIDATED", why) ELSE b[i]
    BY DEF Struck
  <1> HIDE DEF s, longer, e
  <1>8. ASSUME NEW i \in DOMAIN b PROVE Restored(s, longer, i) = Restored(b, log, i)
    <2>1. CASE i # id
      <3>1. /\ s[i] = b[i] /\ Restores(longer, i) = Restores(log, i)
            /\ \A n \in Restores(log, i) : longer[n] = log[n]
        BY <2>1, <1>3, <1>5, <1>7
      <3> QED
        BY <3>1, RestoredAlike
    <2>2. CASE i = id /\ Restores(log, id) = {}
      <3>1. Restores(longer, id) = {last}
        BY <2>2, <1>4
      <3>2. Restores(longer, id) # {} /\ Min(Restores(longer, id)) = last
        BY <3>1, <1>6, LeastIsMin
      <3>3. Restored(s, longer, id) = Judged(s[id], longer[last].status, longer[last].reason)
        <4> DEFINE R == Restores(longer, id)
        <4>1. Restored(s, longer, id) = Judged(s[id], longer[Min(R)].status, longer[Min(R)].reason)
          BY <3>2, RestoredFacts
        <4> QED
          BY <4>1, <3>2
      <3>4. Restored(s, longer, id) = b[id]
        BY <3>3, <1>6, <1>7, RowFields, JudgedTwice
      <3> QED
        BY <2>2, <3>4, RestoredFacts
    <2>3. CASE i = id /\ Restores(log, id) # {}
      <3> DEFINE m == Min(Restores(log, id))
      <3>1. m \in Restores(log, id) /\ \A n \in Restores(log, id) : m <= n
        BY <2>3, FirstRestore
      <3>2. m \in Restores(longer, id) /\ \A n \in Restores(longer, id) : m <= n
        BY <3>1, <1>4, <1>5, <1>6
      <3>3. Min(Restores(longer, id)) = m
        BY <3>2, <1>4, <1>5, <1>6, LeastIsMin
      <3>4. longer[m] = log[m]
        BY <3>1, <1>5
      <3> HIDE DEF m
      <3>5. Restored(s, longer, id) = Judged(s[id], log[m].status, log[m].reason)
        BY <3>2, <3>3, <3>4, RestoredFacts
      <3>6. Restored(b, log, id) = Judged(b[id], log[m].status, log[m].reason)
        BY <2>3, RestoredFacts DEF m
      <3> QED
        BY <2>3, <3>5, <3>6, <1>7, RowFields, JudgedTwice
    <2> QED
      BY <2>1, <2>2, <2>3
  <1>9. Undone(s, longer) = Undone(b, log)
    BY <1>2, <1>7, <1>8 DEF Undone
  <1> QED
    BY <1>9 DEF s, longer, e

\* An id the board has not is not struck.
LEMMA StruckNobody ==
    ASSUME NEW b, IsBoard(b), NEW id, id \notin DOMAIN b, NEW why
    PROVE  Struck(b, id, why) = b
  BY DEF Struck, IsBoard

\* A log whose ACTIVE verdicts have no reason, as those of a board.
PlainLog(log) ==
    \A n \in DOMAIN log :
        log[n].op = "restore" /\ log[n].status = "ACTIVE" => log[n].reason = "none"

LEMMA UndoneRow ==
    ASSUME NEW b, IsBoard(b), NEW log \in Seq(Undoing), NEW i \in DOMAIN Undone(b, log)
    PROVE  /\ i \in DOMAIN b \ Removed(log)
           /\ Restores(log, i) = {} => Undone(b, log)[i] = b[i]
           /\ Restores(log, i) # {} =>
                LET first == log[Min(Restores(log, i))]
                IN  /\ Undone(b, log)[i] = Judged(b[i], first.status, first.reason)
                    /\ Min(Restores(log, i)) \in DOMAIN log
                    /\ first.op = "restore" /\ first.id = i
                    /\ first.status \in {"ACTIVE", "INVALIDATED", "EXPIRED"}
                    /\ first.reason \in Why \cup {"none", "TTL_EXPIRED"}
  <1>1. /\ i \in DOMAIN b \ Removed(log)
        /\ Restores(log, i) = {} => Undone(b, log)[i] = b[i]
        /\ Restores(log, i) # {} =>
             LET first == log[Min(Restores(log, i))]
             IN  Undone(b, log)[i] = Judged(b[i], first.status, first.reason)
    BY RestoredFacts DEF Undone
  <1>2. ASSUME Restores(log, i) # {}
        PROVE  LET first == log[Min(Restores(log, i))]
               IN  /\ Min(Restores(log, i)) \in DOMAIN log
                   /\ first.op = "restore" /\ first.id = i
                   /\ first.status \in {"ACTIVE", "INVALIDATED", "EXPIRED"}
                   /\ first.reason \in Why \cup {"none", "TTL_EXPIRED"}
    <2> DEFINE m == Min(Restores(log, i))
    <2>1. m \in DOMAIN log /\ log[m].op = "restore" /\ log[m].id = i
      BY <1>2, FirstRestore DEF Restores
    <2>2. log[m] \in Undoing
      BY <2>1
    <2>3. log[m] \in [op : {"restore"}, id : Ids, status : {"ACTIVE", "INVALIDATED", "EXPIRED"},
                      reason : Why \cup {"none", "TTL_EXPIRED"}]
      BY <2>1, <2>2 DEF Undoing
    <2> QED
      BY <2>1, <2>3
  <1> QED
    BY <1>1, <1>2

LEMMA BoardUndone ==
    ASSUME NEW b, IsBoard(b), NEW log \in Seq(Undoing), PlainLog(log)
    PROVE  IsBoard(Undone(b, log))
  <1> DEFINE u == Undone(b, log)
  <1>1. DOMAIN u = DOMAIN b \ Removed(log) /\ u = [i \in DOMAIN u |-> u[i]]
    BY DEF Undone
  <1>2. DOMAIN u \subseteq Ids /\ IsFiniteSet(DOMAIN u)
    BY <1>1, FS_Subset DEF IsBoard
  <1>3. \A i \in DOMAIN u : u[i] \in Row /\ (u[i].status = "ACTIVE" => u[i].reason = "none")
    BY UndoneRow, RowFields, JudgedRow DEF IsBoard, PlainLog
  <1> QED
    BY <1>1, <1>2, <1>3 DEF IsBoard

\* What readers mark makes no difference to what is restored.
LEMMA UndoneMarked ==
    ASSUME NEW b, IsBoard(b), NEW log \in Seq(Undoing), NEW ids, NEW now
    PROVE  Unmarked(Undone(Marked(b, ids, now), log)) = Unmarked(Undone(b, log))
  <1> DEFINE s == Marked(b, ids, now)
  <1>1. IsBoard(s) /\ DOMAIN s = DOMAIN b
    BY BoardMarked
  <1>2. DOMAIN Undone(s, log) = DOMAIN b \ Removed(log) /\ DOMAIN Undone(b, log) = DOMAIN b \ Removed(log)
    BY <1>1 DEF Undone
  <1>3. ASSUME NEW i \in DOMAIN b
        PROVE  /\ s[i] \in Row /\ b[i] \in Row
               /\ Unmark(s[i]) = Unmark(b[i])
               /\ \A status, reason : Judged(s[i], status, reason) = Judged(b[i], status, reason)
    <2>1. b[i] \in Row /\ (b[i].status = "ACTIVE" => b[i].reason = "none")
      BY RowFields DEF IsBoard
    <2>2. s[i] = b[i] \/ s[i] = Checked(b[i], now)
      BY DEF Marked
    <2>3. s[i] = b[i] \/ s[i] = Judged(b[i], "EXPIRED", "TTL_EXPIRED")
      BY <2>2 DEF Checked
    <2>4. s[i] \in Row
      BY <1>1, RowFields
    <2> QED
      BY <2>1, <2>2, <2>3, <2>4, UnmarkChecked, JudgedTwice
  <1>4. ASSUME NEW i \in DOMAIN b \ Removed(log)
        PROVE  Unmark(Undone(s, log)[i]) = Unmark(Undone(b, log)[i])
    <2>1. Undone(s, log)[i] = Restored(s, log, i) /\ Undone(b, log)[i] = Restored(b, log, i)
      BY <1>1 DEF Undone
    <2>2. CASE Restores(log, i) = {}
      BY <2>1, <2>2, <1>3, RestoredFacts
    <2>3. CASE Restores(log, i) # {}
      BY <2>1, <2>3, <1>3, RestoredFacts
    <2> QED
      BY <2>2, <2>3
  <1> QED
    BY <1>2, <1>4 DEF Unmarked

-----------------------------------------------------------------------------
\* What the clients do to the stores.

\* The stores see a step as one of these, the clock never goes back, and the
\* MemoryStore is asked what the SqliteStore is as long as the host lives.
StoreCall ==
    \/ \E id \in Ids, c \in Contents, stamp \in Times :
         SqlAppend(id, c, stamp) /\ InMemory(MemAppend(id, c, stamp))
    \/ \E id \in DOMAIN conn, why \in Why :
         SqlInvalidate(id, why) /\ InMemory(MemInvalidate(id, why))
    \/ \E a, b : SqlRead(a, clock) /\ InMemory(MemRead(b, clock))
    \/ SqlEnter /\ InMemory(MemEnter)
    \/ SqlLeave /\ InMemory(MemLeave)
    \/ SqlFail /\ InMemory(MemFail)

StoreEvent ==
    \/ StoreCall /\ UNCHANGED <<clock, paired>>
    \/ UNCHANGED <<memVars, sqlVars, paired>> /\ clock' \in Times /\ clock <= clock'
    \/ SqlDie /\ UNCHANGED <<memVars, clock>> /\ ~paired'

\* The attempts of the kernels: the number comes from the counter, and no write has
\* tried so often that it is out of bounds.
AttemptOK(k) ==
    Writing(k) =>
        /\ writing[k] \in Attempts
        /\ counters[k][Key(writing[k].what)] = writing[k].n
        /\ writing[k].n < MaxCount + writing[k].tried
        /\ writing[k].tried <= writing[k].n

ClientInv ==
    /\ clock \in Times /\ holder \in Kernels \cup {NoOne}
    /\ sqlDepth \in Nat /\ (sqlDepth > 0 <=> holder # NoOne)
    /\ memDepth \in Nat /\ (paired => memDepth = sqlDepth)
    /\ paired \in BOOLEAN
    /\ counters \in [Kernels -> [Keys -> 0..MaxNumber]]
    /\ writing \in [Kernels -> Attempts \cup {NoWrite}]
    /\ \A k \in Kernels : AttemptOK(k)

LEMMA ClientInit == StoresInit => ClientInv
  <1>1. \A k \in Kernels : StoresInit => ~Writing(k)
    BY DEF StoresInit, Writing
  <1> QED
    BY <1>1, ContentsAssumption
    DEF StoresInit, ClientInv, AttemptOK, MemInit, SqlInit, Times

LEMMA AttemptIsId ==
    ASSUME NEW w \in Attempts
    PROVE  IdOf(w) \in Ids
  BY DEF Attempts, IdOf, Ids, Keys

LEMMA NoWriteIsNone == \A w \in Attempts : w # NoWrite
  <1> SUFFICES ASSUME NEW w \in Attempts PROVE w # NoWrite
    OBVIOUS
  <1>1. w.tried \in 1..MaxProbes /\ NoWrite.tried = 0
    BY DEF Attempts, NoWrite
  <1> QED
    BY <1>1, StoresAssumption

\* The next attempt of a write.
LEMMA AttemptNext ==
    ASSUME ClientInv, NEW k \in Kernels, NEW c \in Contents, NEW tried \in 1..MaxProbes,
           Attempt(k, c, tried), counters[k][Key(c)] + 1 < MaxCount + tried,
           tried <= counters[k][Key(c)] + 1
    PROVE  /\ counters' \in [Kernels -> [Keys -> 0..MaxNumber]]
           /\ writing' \in [Kernels -> Attempts \cup {NoWrite}]
           /\ \A j \in Kernels : AttemptOK(j)'
  <1> DEFINE n == counters[k][Key(c)] + 1
             w == [what |-> c, n |-> n, stamp |-> clock, tried |-> tried]
  <1>1. Key(c) \in Keys
    BY DEF Keys
  <1>2. n \in 1..MaxNumber
    BY <1>1, StoresAssumption, ContentsAssumption DEF ClientInv
  <1>3. w \in Attempts
    BY <1>2 DEF Attempts, ClientInv
  <1>4. /\ counters' = [counters EXCEPT ![k][Key(c)] = n]
        /\ writing' = [writing EXCEPT ![k] = w]
    BY DEF Attempt
  <1>5. counters' \in [Kernels -> [Keys -> 0..MaxNumber]]
    BY <1>1, <1>2, <1>4 DEF ClientInv
  <1>6. writing' \in [Kernels -> Attempts \cup {NoWrite}]
    BY <1>3, <1>4 DEF ClientInv
  <1>7. AttemptOK(k)'
    <2>1. writing'[k] = w /\ counters'[k][Key(c)] = n
      BY <1>1, <1>4 DEF ClientInv
    <2> QED
      BY <1>3, <2>1 DEF AttemptOK
  <1>8. ASSUME NEW j \in Kernels, j # k PROVE AttemptOK(j)'
    BY <1>4, <1>8 DEF AttemptOK, Writing, ClientInv
  <1> QED
    BY <1>5, <1>6, <1>7, <1>8

\* A write ends.
LEMMA AttemptEnds ==
    ASSUME ClientInv, NEW k \in Kernels, writing' = [writing EXCEPT ![k] = NoWrite],
           UNCHANGED counters
    PROVE  /\ counters' \in [Kernels -> [Keys -> 0..MaxNumber]]
           /\ writing' \in [Kernels -> Attempts \cup {NoWrite}]
           /\ \A j \in Kernels : AttemptOK(j)'
  BY DEF ClientInv, AttemptOK, Writing

LEMMA WriterFacts ==
    ASSUME ClientInv, NEW k \in Kernels, Writing(k)
    PROVE  /\ writing[k] \in Attempts
           /\ writing[k].what \in Contents /\ writing[k].stamp \in Times
           /\ IdOf(writing[k]) \in Ids
           /\ counters[k][Key(writing[k].what)] = writing[k].n
           /\ writing[k].n < MaxCount + writing[k].tried
           /\ writing[k].tried <= writing[k].n
           /\ writing[k].n \in Nat /\ writing[k].tried \in 1..MaxProbes
  BY AttemptIsId DEF ClientInv, AttemptOK, Attempts

\* Every step keeps ClientInv and is a StoreEvent.
LEMMA ClientStep ==
    ASSUME ClientInv, NEW k \in Kernels, Client(k)
    PROVE  ClientInv' /\ StoreEvent
  <1>1. ASSUME NEW c \in Contents, BeginWrite(k, c) PROVE ClientInv' /\ StoreEvent
    <2>a. Key(c) \in Keys
      BY DEF Keys
    <2>b. counters[k][Key(c)] \in 0..MaxNumber
      BY <2>a DEF ClientInv
    <2>1. counters[k][Key(c)] \in Nat /\ 1 \in 1..MaxProbes
      BY <2>b, StoresAssumption
    <2>2. Attempt(k, c, 1) /\ counters[k][Key(c)] < MaxCount
      BY <1>1 DEF BeginWrite
    <2>3. /\ counters' \in [Kernels -> [Keys -> 0..MaxNumber]]
          /\ writing' \in [Kernels -> Attempts \cup {NoWrite}]
          /\ \A j \in Kernels : AttemptOK(j)'
      BY <2>1, <2>2, AttemptNext, StoresAssumption
    <2> QED
      BY <1>1, <2>3 DEF BeginWrite, ClientInv, StoreEvent, memVars, sqlVars, Times
  <1>2. ASSUME AppendRecord(k) PROVE ClientInv' /\ StoreEvent
    <2>1. StoreCall
      BY <1>2, WriterFacts DEF AppendRecord, StoreCall
    <2> QED
      BY <1>2, <2>1, AttemptEnds
      DEF AppendRecord, ClientInv, StoreEvent, SqlAppend, SqlWrite, InMemory, MemAppend, memVars
  <1>3. ASSUME Probe(k) PROVE ClientInv' /\ StoreEvent
    <2>1. Writing(k) /\ writing[k].tried < MaxProbes
      BY <1>3 DEF Probe, Conflict
    <2> DEFINE c == writing[k].what
               t == writing[k].tried + 1
    <2>2. /\ c \in Contents /\ t \in 1..MaxProbes
          /\ counters[k][Key(c)] + 1 < MaxCount + t /\ t <= counters[k][Key(c)] + 1
      BY <2>1, WriterFacts, StoresAssumption
    <2>3. Attempt(k, c, t)
      BY <1>3 DEF Probe
    <2>4. /\ counters' \in [Kernels -> [Keys -> 0..MaxNumber]]
          /\ writing' \in [Kernels -> Attempts \cup {NoWrite}]
          /\ \A j \in Kernels : AttemptOK(j)'
      BY <2>2, <2>3, AttemptNext
    <2> QED
      BY <1>3, <2>4 DEF Probe, Conflict, ClientInv, StoreEvent, memVars, sqlVars, Times
  <1>4. ASSUME GiveUp(k) \/ WriteRaises(k) PROVE ClientInv' /\ StoreEvent
    BY <1>4, AttemptEnds
    DEF GiveUp, WriteRaises, Conflict, ClientInv, StoreEvent, memVars, sqlVars, Times
  <1>5. ASSUME UNCHANGED <<clock, holder, counters, writing, paired>>,
               UNCHANGED <<sqlDepth, memDepth>>
        PROVE  ClientInv'
    BY <1>5 DEF ClientInv, AttemptOK, Writing
  <1>6. ASSUME NEW id \in DOMAIN conn, NEW why \in Why, InvalidateRecord(k, id, why)
        PROVE  ClientInv' /\ StoreEvent
    BY <1>5, <1>6 DEF InvalidateRecord, StoreEvent, StoreCall, SqlInvalidate, SqlWrite,
                      InMemory, MemInvalidate, memVars
  <1>7. ASSUME NEW a, NEW b, Query(k, a, b) PROVE ClientInv' /\ StoreEvent
    BY <1>5, <1>7 DEF Query, StoreEvent, StoreCall, SqlRead, SqlWrite, InMemory, MemRead,
                      memVars, clientVars
  <1>8. ASSUME EnterBlock(k) PROVE ClientInv' /\ StoreEvent
    <2>1. /\ UNCHANGED <<clock, counters, writing, paired>> /\ holder' = k
          /\ sqlDepth' = sqlDepth + 1
          /\ paired => memDepth' = memDepth + 1
          /\ ~paired => memDepth' = memDepth
      BY <1>8 DEF EnterBlock, SqlEnter, InMemory, MemEnter, memVars
    <2>2. k # NoOne
      BY StoresAssumption DEF NoOne
    <2>3. StoreEvent
      BY <1>8 DEF EnterBlock, StoreEvent, StoreCall
    <2> QED
      BY <2>1, <2>2, <2>3 DEF ClientInv, AttemptOK, Writing
  <1>9. ASSUME LeaveBlock(k) \/ FailBlock(k) PROVE ClientInv' /\ StoreEvent
    <2>1. /\ UNCHANGED <<clock, counters, writing, paired>> /\ holder' = Released
          /\ sqlDepth > 0 /\ sqlDepth' = sqlDepth - 1
          /\ paired => memDepth > 0 /\ memDepth' = memDepth - 1
          /\ ~paired => memDepth' = memDepth
      BY <1>9 DEF LeaveBlock, FailBlock, SqlLeave, SqlFail, InMemory, MemLeave, MemFail, memVars
    <2>2. StoreEvent
      BY <1>9 DEF LeaveBlock, FailBlock, StoreEvent, StoreCall
    <2>3. /\ sqlDepth' \in Nat /\ memDepth' \in Nat /\ (paired' => memDepth' = sqlDepth')
          /\ (sqlDepth' > 0 <=> holder' # NoOne) /\ holder' \in Kernels \cup {NoOne}
      BY <2>1 DEF ClientInv, Released
    <2> QED
      BY <2>1, <2>2, <2>3 DEF ClientInv, AttemptOK, Writing
  <1> QED
    BY <1>1, <1>2, <1>3, <1>4, <1>6, <1>7, <1>8, <1>9
    DEF Client, Get, ListSlot, Find, Persistent

LEMMA ClientNext ==
    ASSUME ClientInv, [StoresNext]_storesVars
    PROVE  ClientInv' /\ StoreEvent
  <1>1. ASSUME UNCHANGED <<memVars, sqlVars, counters, writing, paired, holder>>,
               clock' \in Times, clock <= clock'
        PROVE  ClientInv' /\ StoreEvent
    BY <1>1 DEF ClientInv, AttemptOK, Writing, StoreEvent, memVars, sqlVars
  <1>2. clock \in Times /\ clock <= clock
    BY DEF ClientInv, Times
  <1>3. ASSUME Tick PROVE ClientInv' /\ StoreEvent
    <2>1. clock' \in Times /\ clock <= clock'
      BY <1>3, <1>2, ContentsAssumption DEF Tick, Times
    <2> QED
      BY <1>1, <1>3, <2>1 DEF Tick
  <1>4. ASSUME NEW p \in Processes, OpenFile(p) PROVE ClientInv' /\ StoreEvent
    BY <1>1, <1>2, <1>4 DEF OpenFile, clientVars
  <1>5. ASSUME NEW p \in Processes, EndProcess(p) PROVE ClientInv' /\ StoreEvent
    <2>1. CASE p # Host
      BY <1>1, <1>2, <1>5, <2>1 DEF EndProcess
    <2>2. CASE p = Host
      <3>1. /\ SqlDie /\ UNCHANGED <<memVars, clock>> /\ paired' = FALSE /\ holder' = NoOne
            /\ counters' = [j \in Kernels |-> [key \in Keys |-> 0]]
            /\ writing' = [j \in Kernels |-> NoWrite]
        BY <1>5, <2>2 DEF EndProcess
      <3>2. sqlDepth' = 0 /\ memDepth' = memDepth
        BY <3>1 DEF SqlDie, memVars
      <3>3. counters' \in [Kernels -> [Keys -> 0..MaxNumber]]
        BY <3>1, ContentsAssumption
      <3>4. \A j \in Kernels : AttemptOK(j)'
        BY <3>1 DEF AttemptOK, Writing
      <3>5. writing' \in [Kernels -> Attempts \cup {NoWrite}]
        BY <3>1
      <3>6. StoreEvent
        BY <3>1 DEF StoreEvent
      <3>7. clock' \in Times /\ memDepth' \in Nat
        BY <3>1, <3>2 DEF ClientInv
      <3>8. paired' \in BOOLEAN /\ (paired' => memDepth' = sqlDepth')
        BY <3>1, Zenon
      <3>9. sqlDepth' \in Nat /\ ~(sqlDepth' > 0)
        BY <3>2
      <3> QED
        BY <3>1, <3>3, <3>4, <3>5, <3>6, <3>7, <3>8, <3>9, Zenon DEF ClientInv
    <2> QED
      BY <2>1, <2>2
  <1>6. CASE UNCHANGED storesVars
    BY <1>1, <1>2, <1>6 DEF storesVars, clientVars
  <1> QED
    BY <1>3, <1>4, <1>5, <1>6, ClientStep DEF StoresNext

-----------------------------------------------------------------------------
\* The boards stay boards.

MemoryInv ==
    /\ IsBoard(mem)
    /\ undo \in Seq(Undoing) /\ PlainLog(undo)
    /\ memDepth = 0 => undo = << >>

SqliteInv ==
    /\ IsBoard(conn) /\ IsBoard(file)
    /\ sqlDepth = 0 => conn = file

LEMMA MemoryInitInv == MemInit => MemoryInv
  BY EmptyBoard DEF MemInit, MemoryInv, PlainLog

LEMMA LoggedPlain ==
    ASSUME undo \in Seq(Undoing), PlainLog(undo), NEW e \in Undoing,
           e.op = "restore" /\ e.status = "ACTIVE" => e.reason = "none"
    PROVE  /\ Logged(e) \in Seq(Undoing) /\ PlainLog(Logged(e))
           /\ memDepth = 0 /\ memDepth \in Nat => Logged(e) = undo
  <1>1. Append(undo, e) \in Seq(Undoing)
    BY LogEntries
  <1>2. PlainLog(Append(undo, e))
    BY LogEntries DEF PlainLog
  <1> QED
    BY <1>1, <1>2 DEF Logged

LEMMA MemAppendKeeps ==
    ASSUME MemoryInv, memDepth \in Nat, NEW id \in Ids, NEW c \in Contents, NEW stamp \in Times,
           MemAppend(id, c, stamp)
    PROVE  MemoryInv'
  <1> DEFINE e == [op |-> "remove", id |-> id]
  <1>1. e \in Undoing /\ e.op # "restore"
    BY DEF Undoing
  <1>2. IsBoard(mem)'
    BY BoardWith DEF MemoryInv, MemAppend
  <1>3. undo' = Logged(e) /\ memDepth' = memDepth
    BY DEF MemAppend
  <1> QED
    BY <1>1, <1>2, <1>3, LoggedPlain DEF MemoryInv

LEMMA MemInvalidateKeeps ==
    ASSUME MemoryInv, memDepth \in Nat, NEW id, NEW why \in Why, MemInvalidate(id, why)
    PROVE  MemoryInv'
  <1>1. IsBoard(mem)' /\ memDepth' = memDepth
    BY BoardStruck DEF MemoryInv, MemInvalidate
  <1>2. CASE ~MemTaken(id)
    BY <1>1, <1>2 DEF MemoryInv, MemInvalidate
  <1>3. CASE MemTaken(id)
    <2> DEFINE e == [op |-> "restore", id |-> id, status |-> mem[id].status, reason |-> mem[id].reason]
    <2>1. id \in DOMAIN mem /\ id \in Ids /\ mem[id] \in Row
          /\ (mem[id].status = "ACTIVE" => mem[id].reason = "none")
      BY <1>3, RowFields DEF MemTaken, MemoryInv, IsBoard
    <2>2. e \in Undoing /\ (e.op = "restore" /\ e.status = "ACTIVE" => e.reason = "none")
      BY <2>1 DEF Undoing, Row
    <2>3. undo' = Logged(e)
      BY <1>3 DEF MemInvalidate
    <2> QED
      BY <1>1, <2>2, <2>3, LoggedPlain DEF MemoryInv
  <1> QED
    BY <1>2, <1>3

LEMMA MemBlockKeeps ==
    ASSUME MemoryInv, memDepth \in Nat, MemEnter \/ MemLeave \/ MemFail
    PROVE  MemoryInv'
  <1>1. << >> \in Seq(Undoing) /\ PlainLog(<< >>)
    BY DEF PlainLog
  <1>2. CASE MemEnter
    BY <1>2 DEF MemoryInv, MemEnter
  <1>3. CASE MemLeave
    BY <1>1, <1>3 DEF MemoryInv, MemLeave, Emptied
  <1>4. CASE MemFail
    <2>1. IsBoard(mem)'
      BY <1>4, BoardUndone DEF MemoryInv, MemFail
    <2> QED
      BY <1>1, <1>4, <2>1 DEF MemoryInv, MemFail, Emptied
  <1> QED
    BY <1>2, <1>3, <1>4

LEMMA MemReadKeeps ==
    ASSUME MemoryInv, NEW ids, NEW now, MemRead(ids, now)
    PROVE  MemoryInv'
  BY BoardMarked DEF MemoryInv, MemRead

LEMMA SqliteInitInv == SqlInit => SqliteInv
  BY EmptyBoard DEF SqlInit, SqliteInv

LEMMA SqlWriteKeeps ==
    ASSUME SqliteInv, NEW rows, IsBoard(rows), SqlWrite(rows)
    PROVE  SqliteInv'
  BY DEF SqliteInv, SqlWrite

LEMMA SqlCallKeeps ==
    ASSUME SqliteInv, sqlDepth \in Nat, StoreCall
    PROVE  SqliteInv'
  <1>1. ASSUME NEW id \in Ids, NEW c \in Contents, NEW stamp \in Times, SqlAppend(id, c, stamp)
        PROVE  SqliteInv'
    BY <1>1, BoardWith, SqlWriteKeeps DEF SqlAppend, SqliteInv
  <1>2. ASSUME NEW id, NEW why \in Why, SqlInvalidate(id, why) PROVE SqliteInv'
    BY <1>2, BoardStruck, SqlWriteKeeps DEF SqlInvalidate, SqliteInv
  <1>3. ASSUME NEW a, SqlRead(a, clock) PROVE SqliteInv'
    BY <1>3, BoardMarked, SqlWriteKeeps DEF SqlRead, SqliteInv
  <1>4. ASSUME SqlEnter \/ SqlLeave \/ SqlFail PROVE SqliteInv'
    BY <1>4 DEF SqlEnter, SqlLeave, SqlFail, SqliteInv
  <1> QED
    BY <1>1, <1>2, <1>3, <1>4 DEF StoreCall

\* What a step does to the MemoryStore.
MemoryEvent ==
    \/ \E id \in Ids, c \in Contents, stamp \in Times : MemAppend(id, c, stamp)
    \/ \E id \in Ids, why \in Why : MemInvalidate(id, why)
    \/ \E ids : MemRead(ids, clock)
    \/ MemEnter \/ MemLeave \/ MemFail
    \/ UNCHANGED memVars

LEMMA MemoryEvents ==
    ASSUME SqliteInv, StoreEvent
    PROVE  MemoryEvent /\ (~paired => UNCHANGED memVars)
  <1>1. ASSUME StoreCall PROVE MemoryEvent /\ (~paired => UNCHANGED memVars)
    <2>1. DOMAIN conn \subseteq Ids
      BY DEF SqliteInv, IsBoard
    <2> QED
      BY <1>1, <2>1 DEF StoreCall, InMemory, MemoryEvent
  <1> QED
    BY <1>1 DEF StoreEvent, MemoryEvent, memVars

LEMMA MemoryKeeps ==
    ASSUME MemoryInv, memDepth \in Nat, MemoryEvent
    PROVE  MemoryInv'
  <1>1. CASE UNCHANGED memVars
    BY <1>1 DEF MemoryInv, memVars
  <1> QED
    BY <1>1, MemAppendKeeps, MemInvalidateKeeps, MemBlockKeeps, MemReadKeeps DEF MemoryEvent

LEMMA SqliteKeeps ==
    ASSUME SqliteInv, sqlDepth \in Nat, StoreEvent
    PROVE  SqliteInv'
  <1>1. CASE UNCHANGED sqlVars
    BY <1>1 DEF SqliteInv, sqlVars
  <1>2. CASE SqlDie
    BY <1>2 DEF SqliteInv, SqlDie
  <1> QED
    BY <1>1, <1>2, SqlCallKeeps DEF StoreEvent, sqlVars

\* The invariant the theorems rest on.
StoresInv == ClientInv /\ MemoryInv /\ SqliteInv

LEMMA StoresInvInit == StoresInit => StoresInv
  BY ClientInit, MemoryInitInv, SqliteInitInv DEF StoresInit, StoresInv

LEMMA StoresInvStep ==
    ASSUME StoresInv, [StoresNext]_storesVars
    PROVE  StoresInv' /\ StoreEvent
  <1>1. ClientInv' /\ StoreEvent
    BY ClientNext DEF StoresInv
  <1>2. memDepth \in Nat /\ sqlDepth \in Nat
    BY DEF StoresInv, ClientInv
  <1>3. MemoryInv' /\ SqliteInv'
    BY <1>1, <1>2, MemoryEvents, MemoryKeeps, SqliteKeeps DEF StoresInv
  <1> QED
    BY <1>1, <1>3 DEF StoresInv

LEMMA StoresInvHolds == StoresSpec => []StoresInv
  <1>1. StoresInv /\ [StoresNext]_storesVars => StoresInv'
    BY StoresInvStep
  <1> QED
    BY <1>1, StoresInvInit, PTL DEF StoresSpec

-----------------------------------------------------------------------------
\* A MemoryStore is a TransactionalStore.

\* The operators of StoredRecords, seen through the instances, are those here.
LEMMA SameRows ==
    /\ MemoryBoard!Ids = Ids /\ MemoryBoard!Times = Times /\ MemoryBoard!Empty = Empty
    /\ \A b, id, row : MemoryBoard!With(b, id, row) = With(b, id, row)
    /\ \A b, c, stamp : MemoryBoard!Arrived(b, c, stamp) = Arrived(b, c, stamp)
    /\ \A b, id, why : MemoryBoard!Struck(b, id, why) = Struck(b, id, why)
    /\ SqliteBoard!Ids = Ids /\ SqliteBoard!Times = Times /\ SqliteBoard!Empty = Empty
    /\ \A b, id, row : SqliteBoard!With(b, id, row) = With(b, id, row)
    /\ \A b, c, stamp : SqliteBoard!Arrived(b, c, stamp) = Arrived(b, c, stamp)
    /\ \A b, id, why : SqliteBoard!Struck(b, id, why) = Struck(b, id, why)
  <1>1. MemoryBoard!Ids = Ids /\ MemoryBoard!Times = Times /\ MemoryBoard!Empty = Empty
    BY DEF MemoryBoard!Ids, Ids, MemoryBoard!Keys, Keys, MemoryBoard!Key, Key,
           MemoryBoard!Times, Times, MemoryBoard!Empty, Empty
  <1>2. \A b, id, row : MemoryBoard!With(b, id, row) = With(b, id, row)
    BY DEF MemoryBoard!With, With
  <1>3. \A b, c, stamp : MemoryBoard!Arrived(b, c, stamp) = Arrived(b, c, stamp)
    BY Zenon DEF MemoryBoard!Arrived, Arrived, MemoryBoard!NextPlace, NextPlace, MemoryBoard!Cardinality, Cardinality
  <1>4. \A b, id, why : MemoryBoard!Struck(b, id, why) = Struck(b, id, why)
    BY Zenon DEF MemoryBoard!Struck, Struck, MemoryBoard!Judged, Judged
  <1>5. SqliteBoard!Ids = Ids /\ SqliteBoard!Times = Times /\ SqliteBoard!Empty = Empty
    BY DEF SqliteBoard!Ids, Ids, SqliteBoard!Keys, Keys, SqliteBoard!Key, Key,
           SqliteBoard!Times, Times, SqliteBoard!Empty, Empty
  <1>6. \A b, id, row : SqliteBoard!With(b, id, row) = With(b, id, row)
    BY DEF SqliteBoard!With, With
  <1>7. \A b, c, stamp : SqliteBoard!Arrived(b, c, stamp) = Arrived(b, c, stamp)
    BY Zenon DEF SqliteBoard!Arrived, Arrived, SqliteBoard!NextPlace, NextPlace, SqliteBoard!Cardinality, Cardinality
  <1>8. \A b, id, why : SqliteBoard!Struck(b, id, why) = Struck(b, id, why)
    BY Zenon DEF SqliteBoard!Struck, Struck, SqliteBoard!Judged, Judged
  <1> QED
    BY <1>1, <1>2, <1>3, <1>4, <1>5, <1>6, <1>7, <1>8

LEMMA UnmarkedEmpty == Unmarked(Empty) = Empty
  BY DEF Unmarked, Empty

\* What taking back would leave is not changed by what is logged.
LEMMA MemWriteUndone ==
    ASSUME MemoryInv, memDepth \in Nat, memDepth # 0,
           \/ \E id \in Ids, c \in Contents, stamp \in Times : MemAppend(id, c, stamp)
           \/ \E id \in Ids, why \in Why : MemInvalidate(id, why)
    PROVE  Undone(mem, undo)' = Undone(mem, undo)
  <1>1. ASSUME NEW id \in Ids, NEW c \in Contents, NEW stamp \in Times, MemAppend(id, c, stamp)
        PROVE  Undone(mem, undo)' = Undone(mem, undo)
    <2>1. /\ id \notin DOMAIN mem
          /\ mem' = With(mem, id, Arrived(mem, c, stamp))
          /\ undo' = Append(undo, [op |-> "remove", id |-> id])
      BY <1>1 DEF MemAppend, MemTaken, Logged
    <2> QED
      BY <2>1, UndoneAppend DEF MemoryInv
  <1>2. ASSUME NEW id \in Ids, NEW why \in Why, MemInvalidate(id, why)
        PROVE  Undone(mem, undo)' = Undone(mem, undo)
    <2>1. CASE id \notin DOMAIN mem
      BY <1>2, <2>1, StruckNobody DEF MemInvalidate, MemTaken, MemoryInv
    <2>2. CASE id \in DOMAIN mem
      <3>1. /\ mem' = Struck(mem, id, why)
            /\ undo' = Append(undo, [op |-> "restore", id |-> id,
                                     status |-> mem[id].status, reason |-> mem[id].reason])
        BY <1>2, <2>2 DEF MemInvalidate, MemTaken, Logged
      <3> QED
        BY <2>2, <3>1, UndoneStruck DEF MemoryInv
    <2> QED
      BY <2>1, <2>2
  <1> QED
    BY <1>1, <1>2

MemLanded  == Unmarked(Undone(mem, undo))
MemPending == Unmarked(mem)

\* A write of either kind is a write of the abstract store.
LEMMA MemoryWrites ==
    ASSUME MemoryInv, MemoryInv', memDepth \in Nat, memDepth' = memDepth,
           \/ \E id \in Ids, c \in Contents, stamp \in Times : MemAppend(id, c, stamp)
           \/ \E id \in Ids, why \in Why : MemInvalidate(id, why)
    PROVE  MemoryBoard!Write(MemPending')
  <1>1. CASE memDepth = 0
    <2>1. IsBoard(mem') /\ undo' = << >>
      BY <1>1 DEF MemoryInv
    <2>2. MemLanded' = MemPending'
      BY <2>1, UndoneNothing DEF MemLanded, MemPending
    <2> QED
      BY <1>1, <2>2 DEF MemoryBoard!Write, MemLanded, MemPending
  <1>2. CASE memDepth # 0
    BY <1>2, MemWriteUndone DEF MemoryBoard!Write, MemLanded, MemPending
  <1> QED
    BY <1>1, <1>2

LEMMA MemAppendIsAbstract ==
    ASSUME MemoryInv, memDepth \in Nat,
           NEW id \in Ids, NEW c \in Contents, NEW stamp \in Times, MemAppend(id, c, stamp)
    PROVE  MemoryBoard!AppendRow(id, c, stamp)
  <1> USE DEF MemLanded, MemPending
  <1>1. MemoryInv'
    BY MemAppendKeeps
  <1>2. id \notin DOMAIN MemPending /\ MemPending' = With(MemPending, id, Arrived(MemPending, c, stamp))
    BY UnmarkedWith, UnmarkedDomain DEF MemAppend, MemTaken, MemoryInv
  <1>3. MemoryBoard!Write(MemPending')
    BY <1>1, MemoryWrites DEF MemAppend
  <1> QED
    BY <1>2, <1>3, SameRows DEF MemoryBoard!AppendRow

LEMMA MemInvalidateIsAbstract ==
    ASSUME MemoryInv, memDepth \in Nat, NEW id \in Ids, NEW why \in Why, MemInvalidate(id, why)
    PROVE  MemoryBoard!InvalidateRow(id, why)
  <1> USE DEF MemLanded, MemPending
  <1>1. MemoryInv'
    BY MemInvalidateKeeps
  <1>2. MemPending' = Struck(MemPending, id, why)
    BY UnmarkedStruck DEF MemInvalidate, MemoryInv
  <1>3. MemoryBoard!Write(MemPending')
    BY <1>1, MemoryWrites DEF MemInvalidate
  <1> QED
    BY <1>2, <1>3, SameRows DEF MemoryBoard!InvalidateRow

LEMMA MemReadIsStutter ==
    ASSUME MemoryInv, NEW ids, MemRead(ids, clock)
    PROVE  UNCHANGED <<MemLanded, MemPending, memDepth>>
  BY UnmarkedMarked, UndoneMarked DEF MemRead, MemoryInv, MemLanded, MemPending

\* The outermost block makes what is pending and what has landed one.
LEMMA MemBlockIsAbstract ==
    ASSUME MemoryInv, memDepth \in Nat
    PROVE  /\ MemEnter => MemoryBoard!Enter
           /\ MemLeave => MemoryBoard!Leave
           /\ MemFail => MemoryBoard!Fail
  <1> USE DEF MemLanded, MemPending
  <1>1. ASSUME MemEnter PROVE MemoryBoard!Enter
    BY <1>1 DEF MemEnter, MemoryBoard!Enter
  <1>2. ASSUME MemLeave \/ MemFail, memDepth = 1 PROVE MemLanded' = MemPending'
    <2>1. IsBoard(mem') /\ undo' = << >>
      BY <1>2, MemBlockKeeps DEF MemoryInv, MemLeave, MemFail, Emptied
    <2> QED
      BY <2>1, UndoneNothing
  <1>3. ASSUME MemLeave PROVE MemoryBoard!Leave
    <2>1. memDepth > 0 /\ memDepth' = memDepth - 1 /\ mem' = mem /\ undo' = Emptied
      BY <1>3 DEF MemLeave
    <2>2. CASE memDepth = 1
      BY <1>2, <1>3, <2>1, <2>2 DEF MemoryBoard!Leave
    <2>3. CASE memDepth # 1
      BY <2>1, <2>3 DEF MemoryBoard!Leave, Emptied
    <2> QED
      BY <2>2, <2>3
  <1>4. ASSUME MemFail PROVE MemoryBoard!Fail
    <2>1. memDepth > 0 /\ memDepth' = memDepth - 1 /\ undo' = Emptied
          /\ mem' = IF memDepth = 1 THEN Undone(mem, undo) ELSE mem
      BY <1>4 DEF MemFail
    <2>2. CASE memDepth = 1
      <3>1. MemPending' = MemLanded
        BY <2>1, <2>2
      <3> QED
        BY <1>2, <1>4, <2>1, <2>2, <3>1 DEF MemoryBoard!Fail
    <2>3. CASE memDepth # 1
      BY <2>1, <2>3 DEF MemoryBoard!Fail, Emptied
    <2> QED
      BY <2>2, <2>3
  <1> QED
    BY <1>1, <1>3, <1>4

LEMMA MemoryEventIsAbstract ==
    ASSUME MemoryInv, memDepth \in Nat, MemoryEvent
    PROVE  MemoryBoard!Next \/ UNCHANGED <<MemLanded, MemPending, memDepth>>
  <1>1. ASSUME NEW id \in Ids, NEW c \in Contents, NEW stamp \in Times, MemAppend(id, c, stamp)
        PROVE  MemoryBoard!Next
    BY <1>1, MemAppendIsAbstract, SameRows DEF MemoryBoard!Next
  <1>2. ASSUME NEW id \in Ids, NEW why \in Why, MemInvalidate(id, why)
        PROVE  MemoryBoard!Next
    BY <1>2, MemInvalidateIsAbstract, SameRows DEF MemoryBoard!Next
  <1>3. ASSUME MemEnter \/ MemLeave \/ MemFail PROVE MemoryBoard!Next
    BY <1>3, MemBlockIsAbstract DEF MemoryBoard!Next
  <1>4. CASE UNCHANGED memVars
    BY <1>4 DEF memVars, MemLanded, MemPending
  <1> QED
    BY <1>1, <1>2, <1>3, <1>4, MemReadIsStutter DEF MemoryEvent

\* A MemoryStore implements `transaction` as the protocol states it: its writes in
\* place and its log are a board that has landed and one that is pending.
THEOREM MemoryStoreIsTransactional == StoresSpec => MemoryIsTransactional
  <1>1. StoresInit => MemoryBoard!Init
    BY SameRows, UnmarkedEmpty, EmptyBoard, UndoneNothing
    DEF StoresInit, MemInit, MemoryBoard!Init
  <1>2. StoresInv /\ [StoresNext]_storesVars => [MemoryBoard!Next]_MemoryBoard!storeVars
    <2> SUFFICES ASSUME StoresInv, [StoresNext]_storesVars
                 PROVE  [MemoryBoard!Next]_MemoryBoard!storeVars
      OBVIOUS
    <2>1. MemoryInv /\ SqliteInv /\ memDepth \in Nat /\ StoreEvent
      BY StoresInvStep DEF StoresInv, ClientInv
    <2>2. MemoryBoard!Next \/ UNCHANGED <<MemLanded, MemPending, memDepth>>
      BY <2>1, MemoryEvents, MemoryEventIsAbstract
    <2> QED
      BY <2>2 DEF MemoryBoard!storeVars, MemLanded, MemPending
  <1> QED
    BY <1>1, <1>2, StoresInvHolds, PTL DEF StoresSpec, MemoryIsTransactional, MemoryBoard!Spec

-----------------------------------------------------------------------------
\* A SqliteStore is a TransactionalStore.

SqlLanded  == Unmarked(file)
SqlPending == Unmarked(conn)

LEMMA SqlWriteIsAbstract ==
    ASSUME SqliteInv, NEW rows, SqlWrite(rows)
    PROVE  SqlPending' = Unmarked(rows) /\ SqliteBoard!Write(Unmarked(rows))
  BY DEF SqlWrite, SqlPending, SqliteBoard!Write

\* A store whose marks alone have changed has changed nothing.
LEMMA SqlReadIsStutter ==
    ASSUME SqliteInv, NEW ids, SqlRead(ids, clock)
    PROVE  UNCHANGED <<SqlLanded, SqlPending, sqlDepth>>
  <1>1. Unmarked(Marked(conn, ids, clock)) = SqlPending
    BY UnmarkedMarked DEF SqliteInv, SqlPending
  <1>2. CASE sqlDepth = 0
    BY <1>1, <1>2 DEF SqlRead, SqlWrite, SqliteInv, SqlLanded, SqlPending
  <1>3. CASE sqlDepth # 0
    BY <1>1, <1>3 DEF SqlRead, SqlWrite, SqlLanded, SqlPending
  <1> QED
    BY <1>2, <1>3

LEMMA SqlCallIsAbstract ==
    ASSUME SqliteInv
    PROVE  /\ \A id \in Ids, c \in Contents, stamp \in Times :
                SqlAppend(id, c, stamp) => SqliteBoard!AppendRow(id, c, stamp)
           /\ \A id \in Ids, why \in Why : SqlInvalidate(id, why) => SqliteBoard!InvalidateRow(id, why)
           /\ SqlEnter => SqliteBoard!Enter
           /\ SqlLeave => SqliteBoard!Leave
           /\ SqlFail => SqliteBoard!Fail
           /\ SqlDie => SqliteBoard!Die
  <1>1. ASSUME NEW id \in Ids, NEW c \in Contents, NEW stamp \in Times, SqlAppend(id, c, stamp)
        PROVE  SqliteBoard!AppendRow(id, c, stamp)
    <2>1. Unmarked(With(conn, id, Arrived(conn, c, stamp)))
            = With(SqlPending, id, Arrived(SqlPending, c, stamp))
      BY UnmarkedWith DEF SqliteInv, SqlPending
    <2>2. id \notin DOMAIN SqlPending
      BY <1>1, UnmarkedDomain DEF SqlAppend, SqlTaken, SqlPending
    <2>3. SqliteBoard!Write(With(SqlPending, id, Arrived(SqlPending, c, stamp)))
      BY <1>1, <2>1, SqlWriteIsAbstract DEF SqlAppend
    <2> QED
      BY <2>2, <2>3, SameRows DEF SqliteBoard!AppendRow, SqlPending
  <1>2. ASSUME NEW id \in Ids, NEW why \in Why, SqlInvalidate(id, why)
        PROVE  SqliteBoard!InvalidateRow(id, why)
    <2>1. Unmarked(Struck(conn, id, why)) = Struck(SqlPending, id, why)
      BY UnmarkedStruck DEF SqliteInv, SqlPending
    <2> QED
      BY <1>2, <2>1, SqlWriteIsAbstract, SameRows
      DEF SqlInvalidate, SqliteBoard!InvalidateRow, SqlPending
  <1>3. ASSUME SqlEnter PROVE SqliteBoard!Enter
    BY <1>3 DEF SqlEnter, SqliteBoard!Enter
  <1>4. ASSUME SqlLeave PROVE SqliteBoard!Leave
    BY <1>4 DEF SqlLeave, SqliteBoard!Leave
  <1>5. ASSUME SqlFail PROVE SqliteBoard!Fail
    BY <1>5 DEF SqlFail, SqliteBoard!Fail
  <1>6. ASSUME SqlDie PROVE SqliteBoard!Die
    BY <1>6 DEF SqlDie, SqliteBoard!Die
  <1> QED
    BY <1>1, <1>2, <1>3, <1>4, <1>5, <1>6

LEMMA SqliteEventIsAbstract ==
    ASSUME SqliteInv, StoreEvent
    PROVE  SqliteBoard!Next \/ UNCHANGED <<SqlLanded, SqlPending, sqlDepth>>
  <1>1. ASSUME UNCHANGED sqlVars PROVE UNCHANGED <<SqlLanded, SqlPending, sqlDepth>>
    BY <1>1 DEF sqlVars, SqlLanded, SqlPending
  <1>2. DOMAIN conn \subseteq Ids
    BY DEF SqliteInv, IsBoard
  <1> QED
    BY <1>1, <1>2, SqlCallIsAbstract, SqlReadIsStutter, SameRows
    DEF StoreEvent, StoreCall, sqlVars, SqliteBoard!Next

\* A SqliteStore implements `transaction` as the protocol states it, and so does
\* the next process that opens its file.
THEOREM SqliteStoreIsTransactional == StoresSpec => SqliteIsTransactional
  <1>1. StoresInit => SqliteBoard!Init
    BY SameRows, UnmarkedEmpty DEF StoresInit, SqlInit, SqliteBoard!Init
  <1>2. StoresInv /\ [StoresNext]_storesVars => [SqliteBoard!Next]_SqliteBoard!storeVars
    <2> SUFFICES ASSUME StoresInv, [StoresNext]_storesVars
                 PROVE  [SqliteBoard!Next]_SqliteBoard!storeVars
      OBVIOUS
    <2>1. SqliteInv /\ StoreEvent
      BY StoresInvStep DEF StoresInv
    <2>2. SqliteBoard!Next \/ UNCHANGED <<SqlLanded, SqlPending, sqlDepth>>
      BY <2>1, SqliteEventIsAbstract
    <2> QED
      BY <2>2 DEF SqliteBoard!storeVars, SqlLanded, SqlPending
  <1> QED
    BY <1>1, <1>2, StoresInvHolds, PTL DEF StoresSpec, SqliteIsTransactional, SqliteBoard!Spec

-----------------------------------------------------------------------------
\* What has landed stays.

\* Board c has everything that b has, and nothing in it is ACTIVE again.
Continues(b, c) ==
    \A i \in DOMAIN b :
        /\ i \in DOMAIN c
        /\ <<c[i].content, c[i].stamp, c[i].at>> = <<b[i].content, b[i].stamp, b[i].at>>
        /\ c[i].status = "ACTIVE" => b[i].status = "ACTIVE"

LEMMA ContinuesSelf == \A b : Continues(b, b)
  BY DEF Continues

LEMMA ContinuesOn ==
    ASSUME NEW b, NEW c, NEW d, Continues(b, c), Continues(c, d)
    PROVE  Continues(b, d)
  BY DEF Continues

LEMMA ContinuesWith ==
    ASSUME NEW b, IsBoard(b), NEW id, id \notin DOMAIN b, NEW row
    PROVE  Continues(b, With(b, id, row))
  BY DEF Continues, With

LEMMA ContinuesStruck ==
    ASSUME NEW b, IsBoard(b), NEW id, NEW why \in Why
    PROVE  Continues(b, Struck(b, id, why))
  <1>1. \A i \in DOMAIN b : b[i] \in Row
    BY RowFields
  <1>2. \A i \in DOMAIN b : Struck(b, id, why)[i] = IF i = id THEN Judged(b[i], "INVALIDATED", why) ELSE b[i]
    BY DEF Struck
  <1> QED
    BY <1>1, <1>2, BoardStruck, JudgedRow DEF Continues

LEMMA ContinuesMarked ==
    ASSUME NEW b, IsBoard(b), NEW ids, NEW now
    PROVE  Continues(b, Marked(b, ids, now))
  <1>1. \A i \in DOMAIN b : b[i] \in Row
    BY RowFields
  <1>2. \A i \in DOMAIN b : Marked(b, ids, now)[i] = IF i \in ids THEN Checked(b[i], now) ELSE b[i]
    BY DEF Marked
  <1> QED
    BY <1>1, <1>2, BoardMarked, JudgedRow DEF Continues, Checked

LandedInv == SqliteInv /\ Continues(file, conn)

\* A write that continues the connection's board continues the file.
LEMMA LandedWrite ==
    ASSUME LandedInv, NEW rows, Continues(conn, rows), SqlWrite(rows)
    PROVE  Continues(file, file') /\ Continues(file', conn')
  <1>1. Continues(file, rows)
    BY ContinuesOn DEF LandedInv
  <1> QED
    BY <1>1, ContinuesSelf DEF SqlWrite, LandedInv

LEMMA LandedStep ==
    ASSUME LandedInv, sqlDepth \in Nat, StoreEvent
    PROVE  LandedInv' /\ Continues(file, file')
  <1>1. SqliteInv'
    BY SqliteKeeps DEF LandedInv
  <1>2. IsBoard(conn) /\ DOMAIN conn \subseteq Ids
    BY DEF LandedInv, SqliteInv, IsBoard
  <1>3. ASSUME NEW id \in Ids, NEW c \in Contents, NEW stamp \in Times, SqlAppend(id, c, stamp)
        PROVE  Continues(file, file') /\ Continues(file', conn')
    BY <1>2, <1>3, ContinuesWith, LandedWrite DEF SqlAppend, SqlTaken
  <1>4. ASSUME NEW id, NEW why \in Why, SqlInvalidate(id, why)
        PROVE  Continues(file, file') /\ Continues(file', conn')
    BY <1>2, <1>4, ContinuesStruck, LandedWrite DEF SqlInvalidate
  <1>5. ASSUME NEW ids, SqlRead(ids, clock)
        PROVE  Continues(file, file') /\ Continues(file', conn')
    BY <1>2, <1>5, ContinuesMarked, LandedWrite DEF SqlRead
  <1>6. ASSUME SqlEnter \/ SqlLeave \/ SqlFail \/ SqlDie \/ UNCHANGED sqlVars
        PROVE  Continues(file, file') /\ Continues(file', conn')
    BY <1>6, ContinuesSelf DEF SqlEnter, SqlLeave, SqlFail, SqlDie, sqlVars, LandedInv
  <1>7. Continues(file, file') /\ Continues(file', conn')
    BY <1>2, <1>3, <1>4, <1>5, <1>6 DEF StoreEvent, StoreCall
  <1> QED
    BY <1>1, <1>7 DEF LandedInv

LEMMA LandedInit == StoresInit => LandedInv
  BY SqliteInitInv, ContinuesSelf DEF StoresInit, SqlInit, LandedInv

\* No record that is in the file is ever replaced, lost or brought back.
THEOREM WhatLandedStays == StoresSpec => LandedStays
  <1>1. StoresInv /\ LandedInv /\ [StoresNext]_storesVars => LandedInv' /\ LandedStaysStep
    <2> SUFFICES ASSUME StoresInv, LandedInv, [StoresNext]_storesVars
                 PROVE  LandedInv' /\ LandedStaysStep
      OBVIOUS
    <2>1. StoreEvent /\ sqlDepth \in Nat
      BY StoresInvStep DEF StoresInv, ClientInv
    <2>2. LandedInv' /\ Continues(file, file')
      BY <2>1, LandedStep
    <2> QED
      BY <2>2 DEF Continues, LandedStaysStep
  <1> QED
    BY <1>1, LandedInit, StoresInvHolds, PTL DEF StoresSpec, LandedStays

-----------------------------------------------------------------------------
\* An id is passed over only when it is taken.

\* The ids a write has tried.
Tried(w) == {[IdOf(w) EXCEPT !.n = @ - n] : n \in 1..(w.tried - 1)}

\* They are on the board, and in the file unless the writer itself has a block open.
ProbedInv ==
    \A k \in Kernels : Writing(k) =>
        /\ Tried(writing[k]) \subseteq DOMAIN conn
        /\ holder # k => Tried(writing[k]) \subseteq DOMAIN file

LEMMA TriedOnce ==
    ASSUME NEW w, w.tried = 1
    PROVE  Tried(w) = {}
  BY DEF Tried

LEMMA TriedNext ==
    ASSUME NEW w \in Attempts, NEW v \in Attempts, v.what = w.what, v.n = w.n + 1,
           v.tried = w.tried + 1
    PROVE  Tried(v) \subseteq Tried(w) \cup {IdOf(w)}
  <1> SUFFICES ASSUME NEW n \in 1..(v.tried - 1)
               PROVE  [IdOf(v) EXCEPT !.n = @ - n] \in Tried(w) \cup {IdOf(w)}
    BY DEF Tried
  <1>1. w.n \in Nat /\ w.tried \in Nat /\ v.n \in Nat /\ v.tried \in Nat
    BY DEF Attempts
  <1>2. [IdOf(v) EXCEPT !.n = @ - n] = [key |-> Key(w.what), n |-> w.n + 1 - n]
    BY <1>1 DEF IdOf
  <1>3. CASE n = 1
    BY <1>1, <1>2, <1>3 DEF IdOf
  <1>4. CASE n # 1
    <2>1. n - 1 \in 1..(w.tried - 1) /\ w.n + 1 - n = w.n - (n - 1)
      BY <1>1, <1>4
    <2>2. [IdOf(w) EXCEPT !.n = @ - (n - 1)] = [key |-> Key(w.what), n |-> w.n - (n - 1)]
      BY <1>1 DEF IdOf
    <2> QED
      BY <1>2, <2>1, <2>2 DEF Tried
  <1> QED
    BY <1>3, <1>4

\* ProbedInv after a step, for one kernel.
ProbedKeptBy(k) ==
    Writing(k)' => /\ Tried(writing'[k]) \subseteq DOMAIN conn'
                   /\ holder' # k => Tried(writing'[k]) \subseteq DOMAIN file'

LEMMA ProbedClient ==
    ASSUME StoresInv, LandedInv, ProbedInv, NEW k \in Kernels, Client(k),
           Continues(file, file'), Continues(file', conn'), NEW j \in Kernels
    PROVE  ProbedKeptBy(j)
  <1>1. DOMAIN file \subseteq DOMAIN file' /\ DOMAIN file' \subseteq DOMAIN conn'
    BY DEF Continues
  <1>2. ASSUME writing'[j] = writing[j], holder' = holder, DOMAIN conn \subseteq DOMAIN conn'
        PROVE  ProbedKeptBy(j)
    BY <1>1, <1>2 DEF ProbedInv, ProbedKeptBy, Writing
  <1>3. ASSUME writing' = writing, ~Writing(k), holder \in {k, NoOne}
        PROVE  ProbedKeptBy(j)
    <2>1. Writing(j) => j # k /\ holder # j
      BY <1>3, StoresAssumption DEF NoOne
    <2> QED
      BY <1>1, <1>3, <2>1 DEF ProbedInv, ProbedKeptBy, Writing
  <1>4. ASSUME writing' = [writing EXCEPT ![k] = NoWrite], holder' = holder,
               DOMAIN conn \subseteq DOMAIN conn'
        PROVE  ProbedKeptBy(j)
    <2>1. CASE j = k
      BY <1>4, <2>1 DEF ProbedKeptBy, Writing, StoresInv, ClientInv
    <2>2. CASE j # k
      BY <1>2, <1>4, <2>2 DEF StoresInv, ClientInv
    <2> QED
      BY <2>1, <2>2
  <1>5. ASSUME NEW c \in Contents, BeginWrite(k, c) PROVE ProbedKeptBy(j)
    <2>1. /\ writing' = [writing EXCEPT ![k] = [what |-> c, n |-> counters[k][Key(c)] + 1,
                                               stamp |-> clock, tried |-> 1]]
          /\ UNCHANGED <<file, conn, holder>>
      BY <1>5 DEF BeginWrite, Attempt, sqlVars
    <2>2. CASE j = k
      <3>1. writing'[k].tried = 1
        BY <2>1 DEF StoresInv, ClientInv
      <3> QED
        BY <2>2, <3>1, TriedOnce DEF ProbedKeptBy
    <2>3. CASE j # k
      BY <1>2, <2>1, <2>3 DEF StoresInv, ClientInv
    <2> QED
      BY <2>2, <2>3
  <1>6. ASSUME AppendRecord(k) PROVE ProbedKeptBy(j)
    <2>1. DOMAIN conn \subseteq DOMAIN conn'
      BY <1>6 DEF AppendRecord, SqlAppend, SqlWrite, With
    <2> QED
      BY <1>4, <1>6, <2>1 DEF AppendRecord
  <1>7. ASSUME Probe(k) PROVE ProbedKeptBy(j)
    <2> DEFINE w == writing[k]
               v == [what |-> w.what, n |-> counters[k][Key(w.what)] + 1,
                     stamp |-> clock, tried |-> w.tried + 1]
    <2>1. /\ writing' = [writing EXCEPT ![k] = v]
          /\ UNCHANGED <<file, conn, holder>>
          /\ Writing(k) /\ holder \in {k, NoOne} /\ IdOf(w) \in DOMAIN conn
          /\ w.tried < MaxProbes
      BY <1>7 DEF Probe, Conflict, Attempt, SqlTaken, CanUse, sqlVars
    <2>2. CASE j = k
      <3>1. w \in Attempts /\ counters[k][Key(w.what)] = w.n /\ writing'[k] = v
        BY <2>1, WriterFacts DEF StoresInv, ClientInv
      <3>2. ClientInv'
        BY ClientStep DEF StoresInv
      <3>3. v \in Attempts
        <4>1. v # NoWrite
          <5>1. v.tried # 0 /\ NoWrite.tried = 0
            BY <3>1 DEF Attempts, NoWrite
          <5> QED
            BY <5>1
        <4> QED
          BY <3>1, <3>2, <4>1 DEF ClientInv
      <3>4. Tried(v) \subseteq Tried(w) \cup {IdOf(w)}
        BY <3>1, <3>3, TriedNext
      <3>5. Tried(v) \subseteq DOMAIN conn
        BY <2>1, <3>4 DEF ProbedInv
      <3>6. holder # k => conn = file
        BY <2>1 DEF StoresInv, ClientInv, SqliteInv
      <3> QED
        BY <2>1, <2>2, <3>1, <3>5, <3>6 DEF ProbedKeptBy
    <2>3. CASE j # k
      BY <1>2, <2>1, <2>3 DEF StoresInv, ClientInv
    <2> QED
      BY <2>2, <2>3
  <1>8. ASSUME GiveUp(k) \/ WriteRaises(k) PROVE ProbedKeptBy(j)
    BY <1>4, <1>8 DEF GiveUp, WriteRaises, Conflict, sqlVars
  <1>9. ASSUME NEW id, NEW why \in Why, InvalidateRecord(k, id, why) PROVE ProbedKeptBy(j)
    BY <1>3, <1>9 DEF InvalidateRecord, Ready, CanUse
  <1>10. ASSUME NEW a, NEW b, Query(k, a, b) PROVE ProbedKeptBy(j)
    BY <1>3, <1>10 DEF Query, Ready, CanUse, clientVars
  <1>11. ASSUME EnterBlock(k) \/ LeaveBlock(k) \/ FailBlock(k) PROVE ProbedKeptBy(j)
    BY <1>3, <1>11 DEF EnterBlock, LeaveBlock, FailBlock, Ready, CanUse
  <1> QED
    BY <1>5, <1>6, <1>7, <1>8, <1>9, <1>10, <1>11
    DEF Client, Get, ListSlot, Find, Persistent

LEMMA ProbedStep ==
    ASSUME StoresInv, LandedInv, ProbedInv, [StoresNext]_storesVars, NEW j \in Kernels
    PROVE  ProbedKeptBy(j)
  <1>1. StoreEvent /\ sqlDepth \in Nat /\ writing \in [Kernels -> Attempts \cup {NoWrite}]
    BY StoresInvStep DEF StoresInv, ClientInv
  <1>2. Continues(file, file') /\ Continues(file', conn')
    BY <1>1, LandedStep DEF LandedInv
  <1>3. ASSUME UNCHANGED <<sqlVars, holder, writing>> PROVE ProbedKeptBy(j)
    BY <1>3 DEF ProbedInv, ProbedKeptBy, Writing, sqlVars
  <1>4. ASSUME NEW p \in Processes, EndProcess(p), p = Host PROVE ProbedKeptBy(j)
    BY <1>4 DEF EndProcess, ProbedKeptBy, Writing
  <1>5. ASSUME NEW p \in Processes, OpenFile(p) \/ (EndProcess(p) /\ p # Host)
        PROVE  ProbedKeptBy(j)
    BY <1>3, <1>5 DEF OpenFile, EndProcess, clientVars
  <1>6. CASE Tick \/ UNCHANGED storesVars
    BY <1>3, <1>6 DEF Tick, storesVars, clientVars
  <1> QED
    BY <1>2, <1>4, <1>5, <1>6, ProbedClient DEF StoresNext

\* Whatever kernels share a store, and however often the process starts again with
\* their counters at zero, a write passes over an id only when a record has it.
THEOREM PassedOverIdsAreTaken == StoresSpec => []ProbedIdsTaken
  <1>1. StoresInit => ProbedInv
    BY DEF StoresInit, ProbedInv, Writing
  <1>2. StoresInv /\ LandedInv /\ ProbedInv /\ [StoresNext]_storesVars => LandedInv' /\ ProbedInv'
    <2> SUFFICES ASSUME StoresInv, LandedInv, ProbedInv, [StoresNext]_storesVars
                 PROVE  LandedInv' /\ ProbedInv'
      OBVIOUS
    <2>1. LandedInv'
      BY StoresInvStep, LandedStep DEF StoresInv, ClientInv
    <2>2. ProbedInv'
      BY ProbedStep DEF ProbedKeptBy, ProbedInv
    <2> QED
      BY <2>1, <2>2
  <1>3. ProbedInv => ProbedIdsTaken
    BY DEF ProbedInv, ProbedIdsTaken, Tried
  <1> QED
    BY <1>1, <1>2, <1>3, LandedInit, StoresInvHolds, PTL DEF StoresSpec

-----------------------------------------------------------------------------
\* The version in the file tells the truth.

Versions == 1..Len(Scripts)

\* The objects of the first n lines of a script.
Lines(v, n) == {Scripts[v][m] : m \in 1..n}

MigrationsInv ==
    /\ schema \subseteq {"schema_version"} \cup Created(Len(Scripts))
    /\ versions \subseteq Versions
    /\ \A v \in versions : Created(v) \subseteq schema
    /\ opening \in [Processes ->
                     [at : {"closed", "read", "script", "row", "open"}, version : Nat, line : Nat]]
    /\ \A p \in Processes :
         LET here == opening[p]
         IN  /\ here.at \in {"script", "row"} => here.version \in 1..Knows[p]
             /\ here.at = "script" =>
                  /\ here.line \in 1..Len(Scripts[here.version])
                  /\ Created(here.version - 1) \subseteq schema
                  /\ Lines(here.version, here.line - 1) \subseteq schema
             /\ here.at = "row" => Created(here.version) \subseteq schema
             /\ here.at = "open" => Created(Knows[p]) \subseteq schema

LEMMA KnownVersions ==
    /\ Len(Scripts) \in Nat
    /\ \A p \in Processes : Knows[p] \in Nat /\ 1..Knows[p] \subseteq Versions
    /\ \A v \in Versions : /\ Scripts[v] \in Seq(STRING) /\ Len(Scripts[v]) \in Nat \ {0}
                           /\ DOMAIN Scripts[v] = 1..Len(Scripts[v])
  <1>1. Len(Scripts) \in Nat /\ DOMAIN Scripts = Versions
    BY MigrationsAssumption DEF Versions
  <1>2. \A p \in Processes : Knows[p] \in 0..Len(Scripts)
    BY MigrationsAssumption
  <1>3. ASSUME NEW v \in Versions
        PROVE  /\ Scripts[v] \in Seq(STRING) /\ Len(Scripts[v]) \in Nat \ {0}
               /\ DOMAIN Scripts[v] = 1..Len(Scripts[v])
    <2>1. Scripts[v] \in Seq(STRING) /\ Scripts[v] # << >>
      BY <1>1, MigrationsAssumption
    <2> QED
      BY <2>1
  <1> QED
    BY <1>1, <1>2, <1>3 DEF Versions

LEMMA CreatedUpTo ==
    ASSUME NEW v \in Nat, NEW u \in Nat, u <= v
    PROVE  Created(u) \subseteq Created(v)
  BY DEF Created

LEMMA CreatedFirst == Created(0) = {}
  BY DEF Created

LEMMA CreatedNext ==
    ASSUME NEW v \in Versions
    PROVE  Created(v) = Created(v - 1) \cup Lines(v, Len(Scripts[v]))
  <1>1. 1..v = 1..(v - 1) \cup {v} /\ v \in Nat
    BY KnownVersions DEF Versions
  <1>2. {Scripts[v][n] : n \in DOMAIN Scripts[v]} = Lines(v, Len(Scripts[v]))
    BY KnownVersions DEF Lines
  <1> QED
    BY <1>1, <1>2 DEF Created

LEMMA LastVersion ==
    ASSUME NEW S \in SUBSET Versions
    PROVE  Max({0} \cup S) \in {0} \cup S
  <1> DEFINE T == {0} \cup S
             D == {Len(Scripts) - v : v \in T}
  <1>1. T \subseteq Nat /\ \A v \in T : v <= Len(Scripts)
    BY KnownVersions DEF Versions
  <1>2. D \in SUBSET Nat /\ D # {}
    BY <1>1, KnownVersions
  <1>3. PICK d \in D : \A e \in D : d <= e
    BY <1>2, NatHasLeast
  <1>4. PICK x \in T : d = Len(Scripts) - x
    BY <1>3
  <1>5. ASSUME NEW y \in T PROVE x >= y
    <2>1. d <= Len(Scripts) - y
      BY <1>3
    <2>2. x \in Nat /\ y \in Nat /\ Len(Scripts) \in Nat
      BY <1>1, KnownVersions
    <2> QED
      BY <1>4, <2>1, <2>2
  <1> HIDE DEF T
  <1>6. Max(T) \in T
    BY <1>5, Zenon DEF Max
  <1> QED
    BY <1>6 DEF T

\* The loop after a version that is there.
LEMMA ScriptAfterKeeps ==
    ASSUME NEW p \in Processes, NEW v \in Nat, NEW here, here = ScriptAfter(p, v),
           NEW sch, Created(v) \subseteq sch
    PROVE  /\ here \in [at : {"closed", "read", "script", "row", "open"}, version : Nat, line : Nat]
           /\ here.at # "row"
           /\ here.at = "script" =>
                /\ here.version \in 1..Knows[p]
                /\ here.line \in 1..Len(Scripts[here.version])
                /\ Created(here.version - 1) \subseteq sch
                /\ Lines(here.version, here.line - 1) \subseteq sch
           /\ here.at = "open" => Created(Knows[p]) \subseteq sch
  <1>1. Knows[p] \in Nat /\ 1..Knows[p] \subseteq Versions
    BY KnownVersions
  <1>2. CASE v < Knows[p]
    <2>1. here = [at |-> "script", version |-> v + 1, line |-> 1] /\ v + 1 \in 1..Knows[p]
      BY <1>1, <1>2 DEF ScriptAfter
    <2>2. 1 \in 1..Len(Scripts[v + 1])
      BY <1>1, <2>1, KnownVersions
    <2>3. Lines(v + 1, 0) = {} /\ (v + 1) - 1 = v /\ 1 - 1 = 0
      BY DEF Lines
    <2> QED
      BY <2>1, <2>2, <2>3
  <1>3. CASE ~(v < Knows[p])
    <2>1. here = [at |-> "open", version |-> v, line |-> 0]
      BY <1>3 DEF ScriptAfter
    <2>2. Created(Knows[p]) \subseteq Created(v)
      BY <1>1, <1>3, CreatedUpTo
    <2> QED
      BY <2>1, <2>2
  <1> QED
    BY <1>2, <1>3

\* What MigrationsInv says of one process.
OpeningOK(p, here, sch) ==
    /\ here \in [at : {"closed", "read", "script", "row", "open"}, version : Nat, line : Nat]
    /\ here.at \in {"script", "row"} => here.version \in 1..Knows[p]
    /\ here.at = "script" =>
         /\ here.line \in 1..Len(Scripts[here.version])
         /\ Created(here.version - 1) \subseteq sch
         /\ Lines(here.version, here.line - 1) \subseteq sch
    /\ here.at = "row" => Created(here.version) \subseteq sch
    /\ here.at = "open" => Created(Knows[p]) \subseteq sch

\* A step of one process: the others keep what they have, the schema only grows.
LEMMA OneProcessSteps ==
    ASSUME MigrationsInv, NEW p \in Processes, NEW here,
           opening' = [opening EXCEPT ![p] = here],
           schema \subseteq schema', schema' \subseteq {"schema_version"} \cup Created(Len(Scripts)),
           versions' \subseteq Versions, \A v \in versions' : Created(v) \subseteq schema',
           OpeningOK(p, here, schema')
    PROVE  MigrationsInv'
  <1>1. opening' \in [Processes -> [at : {"closed", "read", "script", "row", "open"},
                                   version : Nat, line : Nat]]
    BY DEF MigrationsInv, OpeningOK
  <1>2. ASSUME NEW q \in Processes PROVE OpeningOK(q, opening'[q], schema')
    <2>1. CASE q = p
      BY <2>1 DEF MigrationsInv
    <2>2. CASE q # p
      <3>1. opening'[q] = opening[q]
        BY <2>2 DEF MigrationsInv
      <3>2. OpeningOK(q, opening[q], schema)
        BY DEF MigrationsInv, OpeningOK
      <3> QED
        BY <3>1, <3>2 DEF OpeningOK
    <2> QED
      BY <2>1, <2>2
  <1> QED
    BY <1>1, <1>2 DEF MigrationsInv, OpeningOK, Created, Lines, Versions

LEMMA MigrateKeeps ==
    ASSUME MigrationsInv, NEW p \in Processes, Migrate(p) \/ CloseFile(p)
    PROVE  MigrationsInv'
  <1> DEFINE here == opening[p]
  <1>0. /\ OpeningOK(p, here, schema) /\ Closed.at = "closed"
        /\ Closed \in [at : {"closed", "read", "script", "row", "open"}, version : Nat, line : Nat]
        /\ versions \subseteq Versions /\ \A v \in versions : Created(v) \subseteq schema
        /\ schema \subseteq {"schema_version"} \cup Created(Len(Scripts))
    BY DEF MigrationsInv, OpeningOK, Closed
  <1>1. CASE EnsureVersionTable(p)
    <2>1. OpeningOK(p, [Closed EXCEPT !.at = "read"], schema')
      BY <1>0 DEF OpeningOK, Closed
    <2> QED
      BY <1>0, <1>1, <2>1, OneProcessSteps DEF EnsureVersionTable
  <1>2. CASE ReadVersion(p)
    <2> DEFINE v == Max({0} \cup versions)
    <2>1. v \in {0} \cup versions
      BY <1>0, LastVersion
    <2>2. \A u \in {0} \cup versions : u \in Nat /\ Created(u) \subseteq schema
      BY <1>0, CreatedFirst DEF Versions
    <2> HIDE DEF v
    <2>3. OpeningOK(p, ScriptAfter(p, v), schema)
      BY <2>1, <2>2, ScriptAfterKeeps DEF OpeningOK
    <2> QED
      BY <1>0, <1>2, <2>3, OneProcessSteps DEF ReadVersion, v
  <1>3. CASE RunStatement(p)
    <2> DEFINE n == here.line
               u == here.version
               next == IF n = Len(Scripts[u]) THEN [here EXCEPT !.at = "row"]
                       ELSE [here EXCEPT !.line = @ + 1]
    <2>1. /\ here.at = "script" /\ schema' = schema \cup {Scripts[u][n]}
          /\ opening' = [opening EXCEPT ![p] = next] /\ versions' = versions
      BY <1>3 DEF RunStatement, MigrationsInv
    <2>2. /\ u \in 1..Knows[p] /\ u \in Versions /\ n \in 1..Len(Scripts[u])
          /\ Created(u - 1) \subseteq schema /\ Lines(u, n - 1) \subseteq schema
          /\ here \in [at : {"closed", "read", "script", "row", "open"}, version : Nat, line : Nat]
      BY <1>0, <2>1, KnownVersions DEF OpeningOK
    <2>3. Len(Scripts[u]) \in Nat /\ n \in Nat /\ Len(Scripts) \in Nat /\ u \in Nat /\ u <= Len(Scripts)
      BY <2>2, KnownVersions DEF Versions
    <2>4. 1..n = 1..(n - 1) \cup {n}
      BY <2>2, <2>3
    <2>5. Lines(u, n) \subseteq schema'
      BY <2>1, <2>2, <2>4 DEF Lines
    <2>6. Lines(u, n) \subseteq Created(u)
      BY <2>2, <2>3, CreatedNext DEF Lines
    <2>7. Created(u) \subseteq Created(Len(Scripts))
      BY <2>3, CreatedUpTo
    <2>8. schema' \subseteq {"schema_version"} \cup Created(Len(Scripts))
      <3>1. Scripts[u][n] \in Lines(u, n)
        BY <2>2, <2>3 DEF Lines
      <3> QED
        BY <1>0, <2>1, <2>6, <2>7, <3>1
    <2>9. OpeningOK(p, next, schema')
      <3>1. CASE n = Len(Scripts[u])
        <4>1. Created(u) \subseteq schema'
          BY <2>1, <2>2, <2>5, <3>1, CreatedNext
        <4>2. next.at = "row" /\ next.version = u /\
              next \in [at : {"closed", "read", "script", "row", "open"}, version : Nat, line : Nat]
          BY <2>2, <3>1
        <4> QED
          BY <2>2, <4>1, <4>2 DEF OpeningOK
      <3>2. CASE n # Len(Scripts[u])
        <4>1. /\ next.at = "script" /\ next.version = u /\ next.line = n + 1
              /\ next \in [at : {"closed", "read", "script", "row", "open"}, version : Nat, line : Nat]
          BY <2>1, <2>2, <2>3, <3>2
        <4>2. n + 1 \in 1..Len(Scripts[u]) /\ (n + 1) - 1 = n
          BY <2>2, <2>3, <3>2
        <4> QED
          BY <2>1, <2>2, <2>5, <4>1, <4>2 DEF OpeningOK
      <3> QED
        BY <3>1, <3>2
    <2>10. \A v \in versions' : Created(v) \subseteq schema'
      BY <1>0, <2>1
    <2> HIDE DEF next
    <2> QED
      BY <1>0, <2>1, <2>8, <2>9, <2>10, OneProcessSteps
  <1>4. CASE RecordVersion(p)
    <2> DEFINE v == here.version
    <2>1. /\ here.at = "row" /\ versions' = versions \cup {v} /\ schema' = schema
          /\ opening' = [opening EXCEPT ![p] = ScriptAfter(p, v)]
      BY <1>4 DEF RecordVersion
    <2>2. v \in Versions /\ v \in Nat /\ Created(v) \subseteq schema
      BY <1>0, <2>1, KnownVersions DEF OpeningOK, Versions
    <2>3. OpeningOK(p, ScriptAfter(p, v), schema)
      BY <2>2, ScriptAfterKeeps DEF OpeningOK
    <2> QED
      BY <1>0, <2>1, <2>2, <2>3, OneProcessSteps
  <1>5. CASE VersionTaken(p) \/ CloseFile(p)
    <2>1. opening' = [opening EXCEPT ![p] = Closed] /\ UNCHANGED <<schema, versions>>
      BY <1>5 DEF VersionTaken, CloseFile
    <2>2. OpeningOK(p, Closed, schema)
      BY <1>0 DEF OpeningOK
    <2> QED
      BY <1>0, <2>1, <2>2, OneProcessSteps
  <1> QED
    BY <1>1, <1>2, <1>3, <1>4, <1>5 DEF Migrate

LEMMA MigrationsStep ==
    ASSUME MigrationsInv, [StoresNext]_storesVars
    PROVE  MigrationsInv'
  <1>1. CASE UNCHANGED migrationVars
    BY <1>1 DEF MigrationsInv, migrationVars, Created, Lines, Versions
  <1>2. ASSUME NEW k \in Kernels, Client(k) PROVE UNCHANGED migrationVars
    BY <1>2, Zenon
    DEF Client, BeginWrite, AppendRecord, Probe, GiveUp, Conflict, WriteRaises, InvalidateRecord,
        Get, ListSlot, Find, Persistent, Query, EnterBlock, LeaveBlock, FailBlock
  <1>3. ASSUME Tick \/ UNCHANGED storesVars PROVE UNCHANGED migrationVars
    BY <1>3 DEF Tick, storesVars
  <1> QED
    BY <1>1, <1>2, <1>3, MigrateKeeps DEF StoresNext, OpenFile, EndProcess

LEMMA MigrationsInitInv == StoresInit => MigrationsInv
  BY DEF StoresInit, MigrationsInit, MigrationsInv, Closed

\* Whoever opens the file, of whatever release, and wherever it dies, everything
\* the scripts up to a recorded version create is in the file.
THEOREM VersionIsTrue == StoresSpec => []VersionTellsTruth
  <1>1. MigrationsInv => VersionTellsTruth
    BY DEF MigrationsInv, VersionTellsTruth, IsOpen
  <1>2. MigrationsInv /\ [StoresNext]_storesVars => MigrationsInv'
    BY MigrationsStep
  <1> QED
    BY <1>1, <1>2, MigrationsInitInv, PTL DEF StoresSpec

\* Boards are boards, logs are logs, and they are kept while a block is open.
THEOREM StoresTypes == StoresSpec => []StoresTypeOK
  <1>1. StoresInv /\ MigrationsInv => StoresTypeOK
    <2> SUFFICES ASSUME StoresInv, MigrationsInv PROVE StoresTypeOK
      OBVIOUS
    <2>1. \A k \in Kernels : Writing(k) => writing[k] \in Attempts
      BY DEF StoresInv, ClientInv, AttemptOK
    <2>2. DOMAIN Scripts = Versions
      BY MigrationsAssumption DEF Versions
    <2> QED
      BY <2>1, <2>2 DEF StoresInv, ClientInv, MemoryInv, SqliteInv, StoresTypeOK, MigrationsInv,
                        Created, Versions
  <1>2. MigrationsInv /\ [StoresNext]_storesVars => MigrationsInv'
    BY MigrationsStep
  <1> QED
    BY <1>1, <1>2, MigrationsInitInv, StoresInvHolds, PTL DEF StoresSpec

-----------------------------------------------------------------------------
\* The two stores agree: what they keep is the same but for the marks of _check_ttl,
\* which say nothing that the clock does not say, and the queries look through them.

\* Apart from the marks the stores are one.
Twin == paired => MemPending = SqlPending /\ MemLanded = SqlLanded

LEMMA TwinWrite ==
    ASSUME MemPending = SqlPending, MemLanded = SqlLanded, memDepth = sqlDepth, NEW board,
           MemoryBoard!Write(board), SqliteBoard!Write(board)
    PROVE  MemPending' = SqlPending' /\ MemLanded' = SqlLanded'
  BY DEF MemoryBoard!Write, SqliteBoard!Write, MemPending, MemLanded, SqlPending, SqlLanded

LEMMA TwinCall ==
    ASSUME StoresInv, paired, Twin, StoreCall
    PROVE  MemPending' = SqlPending' /\ MemLanded' = SqlLanded'
  <1>1. /\ MemoryInv /\ SqliteInv /\ memDepth \in Nat /\ memDepth = sqlDepth
        /\ MemPending = SqlPending /\ MemLanded = SqlLanded /\ DOMAIN conn \subseteq Ids
    BY DEF StoresInv, ClientInv, SqliteInv, Twin, IsBoard
  <1>2. ASSUME NEW id \in Ids, NEW c \in Contents, NEW stamp \in Times,
               SqlAppend(id, c, stamp), MemAppend(id, c, stamp)
        PROVE  MemPending' = SqlPending' /\ MemLanded' = SqlLanded'
    <2> DEFINE board == With(MemPending, id, Arrived(MemPending, c, stamp))
    <2>1. MemoryBoard!Write(board)
      BY <1>1, <1>2, MemAppendIsAbstract, SameRows DEF MemoryBoard!AppendRow, MemPending
    <2>2. SqliteBoard!Write(board)
      BY <1>1, <1>2, SqlCallIsAbstract, SameRows DEF SqliteBoard!AppendRow, SqlPending
    <2> QED
      BY <1>1, <2>1, <2>2, TwinWrite
  <1>3. ASSUME NEW id \in Ids, NEW why \in Why, SqlInvalidate(id, why), MemInvalidate(id, why)
        PROVE  MemPending' = SqlPending' /\ MemLanded' = SqlLanded'
    <2> DEFINE board == Struck(MemPending, id, why)
    <2>1. MemoryBoard!Write(board)
      BY <1>1, <1>3, MemInvalidateIsAbstract, SameRows DEF MemoryBoard!InvalidateRow, MemPending
    <2>2. SqliteBoard!Write(board)
      BY <1>1, <1>3, SqlCallIsAbstract, SameRows DEF SqliteBoard!InvalidateRow, SqlPending
    <2> QED
      BY <1>1, <2>1, <2>2, TwinWrite
  <1>4. ASSUME NEW a, NEW b, SqlRead(a, clock), MemRead(b, clock)
        PROVE  MemPending' = SqlPending' /\ MemLanded' = SqlLanded'
    BY <1>1, <1>4, MemReadIsStutter, SqlReadIsStutter
  <1>5. ASSUME \/ SqlEnter /\ MemEnter
               \/ SqlLeave /\ MemLeave
               \/ SqlFail /\ MemFail
        PROVE  MemPending' = SqlPending' /\ MemLanded' = SqlLanded'
    <2>1. \/ SqliteBoard!Enter /\ MemoryBoard!Enter
          \/ SqliteBoard!Leave /\ MemoryBoard!Leave
          \/ SqliteBoard!Fail /\ MemoryBoard!Fail
      BY <1>1, <1>5, MemBlockIsAbstract, SqlCallIsAbstract
    <2> QED
      BY <1>1, <2>1
      DEF MemoryBoard!Enter, SqliteBoard!Enter, MemoryBoard!Leave, SqliteBoard!Leave,
          MemoryBoard!Fail, SqliteBoard!Fail, MemPending, MemLanded, SqlPending, SqlLanded
  <1> QED
    BY <1>1, <1>2, <1>3, <1>4, <1>5 DEF StoreCall, InMemory

LEMMA TwinStep ==
    ASSUME StoresInv, Twin, StoreEvent
    PROVE  Twin'
  <1>1. CASE StoreCall /\ UNCHANGED <<clock, paired>>
    BY <1>1, TwinCall DEF Twin
  <1>2. CASE UNCHANGED <<memVars, sqlVars, paired>>
    BY <1>2 DEF Twin, memVars, sqlVars, MemPending, MemLanded, SqlPending, SqlLanded
  <1>3. CASE ~paired'
    BY <1>3 DEF Twin
  <1> QED
    BY <1>1, <1>2, <1>3 DEF StoreEvent

LEMMA TwinInit == StoresInit => Twin
  BY EmptyBoard, UndoneNothing
  DEF StoresInit, MemInit, SqlInit, Twin, MemPending, MemLanded, SqlPending, SqlLanded

-----------------------------------------------------------------------------
\* The marks say what the clock says.

Honest(b, now) ==
    \A i \in DOMAIN b : b[i].status = "EXPIRED" => b[i].reason = "TTL_EXPIRED" /\ Past(b[i], now)

\* So do the verdicts that are kept in the log.
HonestLog(log, b, now) ==
    \A n \in DOMAIN log :
        log[n].op = "restore" /\ log[n].status = "EXPIRED" =>
            /\ log[n].reason = "TTL_EXPIRED"
            /\ log[n].id \in DOMAIN b /\ Past(b[log[n].id], now)

HonestInv ==
    /\ Honest(mem, clock) /\ Honest(conn, clock) /\ Honest(file, clock)
    /\ HonestLog(undo, mem, clock)

LEMMA PastStays ==
    ASSUME NEW r \in Row, NEW now \in Times, NEW later \in Times, now <= later, Past(r, now),
           NEW s \in Row, s.content = r.content, s.stamp = r.stamp
    PROVE  Past(s, later)
  <1>1. r.content \in Contents /\ r.stamp \in Nat
    BY DEF Row, Times
  <1>2. r.content.ttl \in Nat
    BY <1>1, ContentsAssumption DEF Past
  <1>3. now \in Nat /\ later \in Nat
    BY DEF Times
  <1> QED
    BY <1>1, <1>2, <1>3 DEF Past

LEMMA HonestLater ==
    ASSUME NEW b, IsBoard(b), NEW now \in Times, NEW later \in Times, now <= later, Honest(b, now)
    PROVE  Honest(b, later)
  BY PastStays, RowFields DEF Honest

LEMMA HonestWith ==
    ASSUME NEW b, IsBoard(b), NEW now, Honest(b, now), NEW id, NEW c, NEW stamp
    PROVE  Honest(With(b, id, Arrived(b, c, stamp)), now)
  BY DEF Honest, With, Arrived

LEMMA HonestStruck ==
    ASSUME NEW b, IsBoard(b), NEW now, Honest(b, now), NEW id, NEW why \in Why
    PROVE  Honest(Struck(b, id, why), now)
  <1>1. \A i \in DOMAIN b : Struck(b, id, why)[i] = IF i = id THEN Judged(b[i], "INVALIDATED", why) ELSE b[i]
    BY DEF Struck
  <1> QED
    BY <1>1, RowFields, BoardStruck, JudgedRow DEF Honest

LEMMA HonestMarked ==
    ASSUME NEW b, IsBoard(b), NEW now, Honest(b, now), NEW ids
    PROVE  Honest(Marked(b, ids, now), now)
  <1>1. \A i \in DOMAIN b : Marked(b, ids, now)[i] = IF i \in ids THEN Checked(b[i], now) ELSE b[i]
    BY DEF Marked
  <1>2. ASSUME NEW i \in DOMAIN b, Checked(b[i], now).status = "EXPIRED"
        PROVE  Checked(b[i], now).reason = "TTL_EXPIRED" /\ Past(Checked(b[i], now), now)
    <2>1. CASE Checked(b[i], now) = b[i]
      BY <1>2, <2>1 DEF Honest
    <2>2. CASE Checked(b[i], now) # b[i]
      BY <2>2, RowFields, JudgedRow DEF Checked, Past
    <2> QED
      BY <2>1, <2>2
  <1> QED
    BY <1>1, <1>2, BoardMarked DEF Honest

\* A board that has what the other has keeps the log honest.
LEMMA HonestLogOn ==
    ASSUME NEW b, IsBoard(b), NEW c, IsBoard(c), Continues(b, c),
           NEW now \in Times, NEW later \in Times, now <= later,
           NEW log \in Seq(Undoing), HonestLog(log, b, now)
    PROVE  HonestLog(log, c, later)
  BY PastStays, RowFields DEF HonestLog, Continues

LEMMA HonestUndone ==
    ASSUME NEW b, IsBoard(b), NEW now, Honest(b, now),
           NEW log \in Seq(Undoing), HonestLog(log, b, now)
    PROVE  Honest(Undone(b, log), now)
  <1> SUFFICES ASSUME NEW i \in DOMAIN Undone(b, log), Undone(b, log)[i].status = "EXPIRED"
               PROVE  Undone(b, log)[i].reason = "TTL_EXPIRED" /\ Past(Undone(b, log)[i], now)
    BY DEF Honest
  <1>1. i \in DOMAIN b /\ b[i] \in Row
    BY UndoneRow, RowFields
  <1>2. CASE Restores(log, i) = {}
    BY <1>1, <1>2, UndoneRow DEF Honest
  <1>3. CASE Restores(log, i) # {}
    <2> DEFINE first == log[Min(Restores(log, i))]
    <2>1. /\ Undone(b, log)[i] = Judged(b[i], first.status, first.reason)
          /\ Min(Restores(log, i)) \in DOMAIN log
          /\ first.op = "restore" /\ first.id = i
          /\ first.status \in {"ACTIVE", "INVALIDATED", "EXPIRED"}
          /\ first.reason \in Why \cup {"none", "TTL_EXPIRED"}
      BY <1>3, UndoneRow
    <2> HIDE DEF first
    <2>2. /\ Undone(b, log)[i].status = first.status /\ Undone(b, log)[i].reason = first.reason
          /\ Undone(b, log)[i].content = b[i].content /\ Undone(b, log)[i].stamp = b[i].stamp
      BY <1>1, <2>1, JudgedRow
    <2>3. first.reason = "TTL_EXPIRED" /\ Past(b[i], now)
      BY <2>1, <2>2 DEF HonestLog, first
    <2> QED
      BY <2>2, <2>3 DEF Past
  <1> QED
    BY <1>2, <1>3

LEMMA HonestMemory ==
    ASSUME StoresInv, MemoryEvent, Honest(mem, clock), HonestLog(undo, mem, clock)
    PROVE  Honest(mem', clock) /\ HonestLog(undo', mem', clock)
  <1>0. /\ IsBoard(mem) /\ undo \in Seq(Undoing) /\ clock \in Times /\ clock <= clock
        /\ memDepth \in Nat /\ MemoryInv
    BY DEF StoresInv, ClientInv, MemoryInv, Times
  <1>1. IsBoard(mem') /\ undo' \in Seq(Undoing)
    BY <1>0, MemoryKeeps DEF MemoryInv
  <1>2. ASSUME Continues(mem, mem') PROVE HonestLog(undo, mem', clock)
    BY <1>0, <1>1, <1>2, HonestLogOn
  <1>3. HonestLog(<< >>, mem', clock)
    BY DEF HonestLog
  <1>4. ASSUME NEW id \in Ids, NEW c \in Contents, NEW stamp \in Times, MemAppend(id, c, stamp)
        PROVE  Honest(mem', clock) /\ HonestLog(undo', mem', clock)
    <2> DEFINE e == [op |-> "remove", id |-> id]
    <2>1. /\ id \notin DOMAIN mem /\ mem' = With(mem, id, Arrived(mem, c, stamp))
          /\ undo' = undo \/ undo' = Append(undo, e)
      BY <1>4 DEF MemAppend, MemTaken, Logged
    <2>2. Continues(mem, mem') /\ Honest(mem', clock)
      BY <1>0, <2>1, ContinuesWith, HonestWith
    <2>3. e \in Undoing /\ e.op # "restore"
      BY DEF Undoing
    <2>4. HonestLog(undo, mem', clock)
      BY <1>2, <2>2
    <2>5. HonestLog(Append(undo, e), mem', clock)
      BY <1>0, <2>3, <2>4, LogEntries DEF HonestLog
    <2> QED
      BY <2>1, <2>2, <2>4, <2>5
  <1>5. ASSUME NEW id \in Ids, NEW why \in Why, MemInvalidate(id, why)
        PROVE  Honest(mem', clock) /\ HonestLog(undo', mem', clock)
    <2> DEFINE e == [op |-> "restore", id |-> id, status |-> mem[id].status, reason |-> mem[id].reason]
    <2>1. /\ mem' = Struck(mem, id, why)
          /\ undo' = undo \/ (undo' = Append(undo, e) /\ id \in DOMAIN mem)
      BY <1>5 DEF MemInvalidate, MemTaken, Logged
    <2>2. Continues(mem, mem') /\ Honest(mem', clock)
      BY <1>0, <2>1, ContinuesStruck, HonestStruck
    <2>3. HonestLog(undo, mem', clock)
      BY <1>2, <2>2
    <2>4. ASSUME id \in DOMAIN mem PROVE HonestLog(Append(undo, e), mem', clock)
      <3>1. mem[id] \in Row /\ mem'[id] \in Row /\ id \in DOMAIN mem'
        BY <1>0, <1>1, <2>1, <2>4, RowFields, BoardStruck
      <3>2. e \in Undoing
        BY <3>1 DEF Undoing, Row
      <3>3. mem'[id].content = mem[id].content /\ mem'[id].stamp = mem[id].stamp
        BY <2>2, <2>4 DEF Continues
      <3>4. e.status = "EXPIRED" => e.reason = "TTL_EXPIRED" /\ Past(mem'[id], clock)
        BY <2>4, <3>3 DEF Honest, Past
      <3> HIDE DEF e
      <3>5. e.id = id
        BY DEF e
      <3> QED
        BY <1>0, <2>3, <3>1, <3>2, <3>4, <3>5, LogEntries DEF HonestLog
    <2> QED
      BY <2>1, <2>2, <2>3, <2>4
  <1>6. ASSUME NEW ids, MemRead(ids, clock)
        PROVE  Honest(mem', clock) /\ HonestLog(undo', mem', clock)
    BY <1>0, <1>2, <1>6, ContinuesMarked, HonestMarked DEF MemRead
  <1>7. ASSUME MemEnter \/ MemLeave \/ UNCHANGED memVars
        PROVE  Honest(mem', clock) /\ HonestLog(undo', mem', clock)
    BY <1>3, <1>7 DEF MemEnter, MemLeave, Emptied, memVars
  <1>8. ASSUME MemFail
        PROVE  Honest(mem', clock) /\ HonestLog(undo', mem', clock)
    BY <1>0, <1>3, <1>8, HonestUndone DEF MemFail, Emptied
  <1> QED
    BY <1>4, <1>5, <1>6, <1>7, <1>8 DEF MemoryEvent

LEMMA HonestSqlite ==
    ASSUME SqliteInv, StoreEvent, Honest(conn, clock), Honest(file, clock)
    PROVE  Honest(conn', clock) /\ Honest(file', clock)
  <1>1. IsBoard(conn)
    BY DEF SqliteInv
  <1>2. ASSUME NEW rows, SqlWrite(rows), Honest(rows, clock)
        PROVE  Honest(conn', clock) /\ Honest(file', clock)
    BY <1>2 DEF SqlWrite
  <1>3. ASSUME SqlEnter \/ SqlLeave \/ SqlFail \/ SqlDie \/ UNCHANGED sqlVars
        PROVE  Honest(conn', clock) /\ Honest(file', clock)
    BY <1>3 DEF SqlEnter, SqlLeave, SqlFail, SqlDie, sqlVars
  <1>4. ASSUME NEW id, NEW c, NEW stamp, SqlAppend(id, c, stamp)
        PROVE  Honest(conn', clock) /\ Honest(file', clock)
    BY <1>1, <1>2, <1>4, HonestWith DEF SqlAppend
  <1>5. ASSUME NEW id, NEW why \in Why, SqlInvalidate(id, why)
        PROVE  Honest(conn', clock) /\ Honest(file', clock)
    BY <1>1, <1>2, <1>5, HonestStruck DEF SqlInvalidate
  <1>6. ASSUME NEW ids, SqlRead(ids, clock)
        PROVE  Honest(conn', clock) /\ Honest(file', clock)
    BY <1>1, <1>2, <1>6, HonestMarked DEF SqlRead
  <1> QED
    BY <1>3, <1>4, <1>5, <1>6 DEF StoreEvent, StoreCall

LEMMA HonestStep ==
    ASSUME StoresInv, StoresInv', StoreEvent, HonestInv
    PROVE  HonestInv'
  <1>1. clock \in Times /\ clock' \in Times /\ clock <= clock'
    BY DEF StoresInv, ClientInv, StoreEvent, Times
  <1>2. Honest(mem', clock) /\ HonestLog(undo', mem', clock)
    BY HonestMemory, MemoryEvents DEF StoresInv, HonestInv
  <1>3. Honest(conn', clock) /\ Honest(file', clock)
    BY HonestSqlite DEF StoresInv, HonestInv
  <1>4. IsBoard(mem') /\ IsBoard(conn') /\ IsBoard(file') /\ undo' \in Seq(Undoing)
    BY DEF StoresInv, MemoryInv, SqliteInv
  <1>5. Honest(mem', clock') /\ Honest(conn', clock') /\ Honest(file', clock')
    BY <1>1, <1>2, <1>3, <1>4, HonestLater
  <1>6. HonestLog(undo', mem', clock')
    BY <1>1, <1>2, <1>4, ContinuesSelf, HonestLogOn
  <1> QED
    BY <1>5, <1>6 DEF HonestInv

LEMMA HonestInit == StoresInit => HonestInv
  BY DEF StoresInit, MemInit, SqlInit, HonestInv, Honest, HonestLog, Empty

-----------------------------------------------------------------------------
\* A record's place in the order of arrival is its own.

Placed(b) ==
    /\ \A i \in DOMAIN b : b[i].at <= Cardinality(DOMAIN b)
    /\ \A i, j \in DOMAIN b : b[i].at = b[j].at => i = j

LEMMA PlacedWith ==
    ASSUME NEW b, IsBoard(b), Placed(b), NEW id, id \notin DOMAIN b, NEW c, NEW stamp
    PROVE  Placed(With(b, id, Arrived(b, c, stamp)))
  <1> DEFINE w == With(b, id, Arrived(b, c, stamp))
             size == Cardinality(DOMAIN b)
  <1>1. DOMAIN w = DOMAIN b \cup {id} /\ \A i \in DOMAIN b : w[i] = b[i]
    BY DEF With
  <1>2. w[id].at = size + 1
    BY DEF With, Arrived, NextPlace
  <1>3. size \in Nat /\ Cardinality(DOMAIN w) = size + 1
    BY <1>1, FS_CardinalityType, FS_AddElement DEF IsBoard
  <1>4. \A i \in DOMAIN b : b[i].at \in Nat /\ b[i].at <= size
    BY RowFields DEF Placed, Row
  <1> HIDE DEF w, size
  <1>5. \A i \in DOMAIN w : w[i].at <= size + 1
    BY <1>1, <1>2, <1>3, <1>4
  <1>6. \A i, j \in DOMAIN w : w[i].at = w[j].at => i = j
    BY <1>1, <1>2, <1>3, <1>4 DEF Placed
  <1> QED
    BY <1>3, <1>5, <1>6 DEF Placed, w

LEMMA PlacedAlike ==
    ASSUME NEW b, Placed(b), NEW c, DOMAIN c = DOMAIN b, \A i \in DOMAIN b : c[i].at = b[i].at
    PROVE  Placed(c)
  BY DEF Placed

LEMMA PlacedStep ==
    ASSUME SqliteInv, StoreEvent, Placed(conn), Placed(file)
    PROVE  Placed(conn)' /\ Placed(file)'
  <1>1. IsBoard(conn)
    BY DEF SqliteInv
  <1>2. ASSUME NEW rows, SqlWrite(rows), Placed(rows) PROVE Placed(conn)' /\ Placed(file)'
    BY <1>2 DEF SqlWrite
  <1>3. ASSUME SqlEnter \/ SqlLeave \/ SqlFail \/ SqlDie \/ UNCHANGED sqlVars
        PROVE  Placed(conn)' /\ Placed(file)'
    BY <1>3 DEF SqlEnter, SqlLeave, SqlFail, SqlDie, sqlVars
  <1>4. ASSUME NEW id, NEW c, NEW stamp, SqlAppend(id, c, stamp) PROVE Placed(conn)' /\ Placed(file)'
    BY <1>1, <1>2, <1>4, PlacedWith DEF SqlAppend, SqlTaken
  <1>5. ASSUME NEW id, NEW why \in Why, SqlInvalidate(id, why) PROVE Placed(conn)' /\ Placed(file)'
    <2>1. \A i \in DOMAIN conn : Struck(conn, id, why)[i].at = conn[i].at
      BY <1>1, ContinuesStruck DEF Continues
    <2> QED
      BY <1>1, <1>2, <1>5, <2>1, BoardStruck, PlacedAlike DEF SqlInvalidate
  <1>6. ASSUME NEW ids, SqlRead(ids, clock) PROVE Placed(conn)' /\ Placed(file)'
    <2>1. \A i \in DOMAIN conn : Marked(conn, ids, clock)[i].at = conn[i].at
      BY <1>1, ContinuesMarked DEF Continues
    <2> QED
      BY <1>1, <1>2, <1>6, <2>1, BoardMarked, PlacedAlike DEF SqlRead
  <1> QED
    BY <1>3, <1>4, <1>5, <1>6 DEF StoreEvent, StoreCall

-----------------------------------------------------------------------------
\* The queries look through the marks.

LEMMA CheckedUnmarked ==
    ASSUME NEW r \in Row, NEW now, r.status = "ACTIVE" => r.reason = "none",
           r.status = "EXPIRED" => r.reason = "TTL_EXPIRED" /\ Past(r, now)
    PROVE  Checked(Unmark(r), now) = Checked(r, now)
  <1>1. CASE r.status # "EXPIRED"
    BY <1>1 DEF Unmark
  <1>2. CASE r.status = "EXPIRED"
    <2> DEFINE u == Judged(r, "ACTIVE", "none")
    <2>1. Unmark(r) = u /\ u \in Row /\ u.status = "ACTIVE" /\ u.content = r.content /\ u.stamp = r.stamp
      BY <1>2, JudgedRow DEF Unmark
    <2>2. Past(u, now)
      BY <1>2, <2>1 DEF Past
    <2>3. Checked(u, now) = Judged(u, "EXPIRED", "TTL_EXPIRED")
      BY <2>1, <2>2 DEF Checked
    <2>4. Judged(u, "EXPIRED", "TTL_EXPIRED") = Judged(r, r.status, r.reason)
      BY <1>2, JudgedTwice
    <2> QED
      BY <1>2, <2>1, <2>3, <2>4, JudgedTwice DEF Checked
  <1> QED
    BY <1>1, <1>2

\* Two boards that are one but for honest marks.
LEMMA AlikeRows ==
    ASSUME NEW b, IsBoard(b), NEW c, IsBoard(c), Unmarked(b) = Unmarked(c),
           NEW now, Honest(b, now), Honest(c, now)
    PROVE  /\ DOMAIN b = DOMAIN c
           /\ \A i \in DOMAIN b :
                /\ b[i] \in Row /\ c[i] \in Row
                /\ b[i].content = c[i].content /\ b[i].stamp = c[i].stamp /\ b[i].at = c[i].at
                /\ Checked(b[i], now) = Checked(c[i], now)
                /\ b[i].status = "INVALIDATED" <=> c[i].status = "INVALIDATED"
                /\ b[i].status = "INVALIDATED" => b[i].reason = c[i].reason
  <1>1. DOMAIN b = DOMAIN c
    BY UnmarkedDomain
  <1>2. ASSUME NEW i \in DOMAIN b PROVE Unmark(b[i]) = Unmark(c[i])
    BY <1>1 DEF Unmarked
  <1>3. ASSUME NEW i \in DOMAIN b
        PROVE  /\ b[i] \in Row /\ c[i] \in Row
               /\ Checked(b[i], now) = Checked(Unmark(b[i]), now)
               /\ Checked(c[i], now) = Checked(Unmark(c[i]), now)
    BY <1>1, RowFields, CheckedUnmarked DEF IsBoard, Honest
  <1>4. ASSUME NEW r \in Row
        PROVE  /\ Unmark(r).status = "INVALIDATED" <=> r.status = "INVALIDATED"
               /\ r.status = "INVALIDATED" => Unmark(r).reason = r.reason
    BY JudgedRow DEF Unmark
  <1>5. ASSUME NEW i \in DOMAIN b
        PROVE  /\ b[i].content = c[i].content /\ b[i].stamp = c[i].stamp /\ b[i].at = c[i].at
               /\ Checked(b[i], now) = Checked(c[i], now)
               /\ b[i].status = "INVALIDATED" <=> c[i].status = "INVALIDATED"
               /\ b[i].status = "INVALIDATED" => b[i].reason = c[i].reason
    <2>1. b[i] \in Row /\ c[i] \in Row /\ Unmark(b[i]) = Unmark(c[i])
      BY <1>2, <1>3
    <2>2. Checked(b[i], now) = Checked(c[i], now)
      BY <1>3, <2>1
    <2> QED
      BY <1>4, <2>1, <2>2, UnmarkRow
  <1> QED
    BY <1>1, <1>3, <1>5

\* The records find_active_by_kind may return.
LiveOnes(b, slot, kind, trace, now) == Live(b, Candidates(b, slot, kind, trace), now)

LEMMA LiveOnesAlike ==
    ASSUME NEW b, NEW c, NEW now, DOMAIN b = DOMAIN c,
           \A i \in DOMAIN b : /\ b[i] \in Row /\ c[i] \in Row
                               /\ b[i].content = c[i].content
                               /\ Checked(b[i], now) = Checked(c[i], now),
           NEW slot, NEW kind, NEW trace
    PROVE  LiveOnes(b, slot, kind, trace, now) = LiveOnes(c, slot, kind, trace, now)
  <1>1. ASSUME NEW r \in Row, Checked(r, now).status = "ACTIVE" PROVE r.status = "ACTIVE"
    BY <1>1, JudgedRow DEF Checked
  <1> QED
    BY <1>1 DEF LiveOnes, Live, Candidates

\* Of some records there is always an oldest, by either order, and they are the same
\* when the orders agree.
LEMMA Oldest ==
    ASSUME IsBoard(conn), NEW S \in SUBSET DOMAIN conn, S # {}
    PROVE  /\ \E i \in S : \A j \in S : conn[i].at <= conn[j].at
           /\ \E i \in S : \A j \in S : Before(i, j)
  <1>0. \A i \in S : conn[i].at \in Nat /\ conn[i].stamp \in Nat
    BY RowFields DEF Row, Times
  <1>1. ASSUME NEW T \in SUBSET S, T # {} PROVE \E i \in T : \A j \in T : conn[i].at <= conn[j].at
    <2> DEFINE places == {conn[i].at : i \in T}
    <2>1. places \in SUBSET Nat /\ places # {}
      BY <1>0, <1>1
    <2>2. PICK x \in places : \A y \in places : x <= y
      BY <2>1, NatHasLeast
    <2> QED
      BY <2>2
  <1>2. PICK t \in S : \A j \in S : conn[t].stamp <= conn[j].stamp
    <2> DEFINE stamps == {conn[i].stamp : i \in S}
    <2>1. stamps \in SUBSET Nat /\ stamps # {}
      BY <1>0
    <2>2. PICK x \in stamps : \A y \in stamps : x <= y
      BY <2>1, NatHasLeast
    <2> QED
      BY <2>2
  <1>3. PICK i \in {j \in S : conn[j].stamp = conn[t].stamp} :
           \A j \in {j \in S : conn[j].stamp = conn[t].stamp} : conn[i].at <= conn[j].at
    BY <1>1
  <1>4. ASSUME NEW j \in S PROVE Before(i, j)
    BY <1>0, <1>2, <1>3 DEF Before
  <1> QED
    BY <1>1, <1>3, <1>4

LEMMA OneOrder ==
    ASSUME IsBoard(conn), Placed(conn), InStampOrder, NEW i \in DOMAIN conn, NEW j \in DOMAIN conn
    PROVE  conn[i].at <= conn[j].at <=> Before(i, j)
  <1>1. /\ conn[i].at \in Nat /\ conn[i].stamp \in Nat
        /\ conn[j].at \in Nat /\ conn[j].stamp \in Nat
    BY RowFields DEF Row, Times
  <1>2. conn[i].at < conn[j].at => conn[i].stamp <= conn[j].stamp
    BY DEF InStampOrder
  <1>3. conn[j].at < conn[i].at => conn[j].stamp <= conn[i].stamp
    BY DEF InStampOrder
  <1>4. conn[i].at = conn[j].at => conn[i].stamp = conn[j].stamp
    BY DEF Placed
  <1> QED
    BY <1>1, <1>2, <1>3, <1>4 DEF Before

AgreeInv == StoresInv /\ Twin /\ HonestInv /\ Placed(conn) /\ Placed(file)

LEMMA AgreeFind ==
    ASSUME AgreeInv, paired, NEW slot, NEW kind, NEW trace
    PROVE  LET inMem  == MemFound(slot, kind, trace, clock)
               inConn == SqlFound(slot, kind, trace, clock)
           IN  /\ inMem = {} <=> inConn = {}
               /\ InStampOrder => inMem = inConn
  <1> DEFINE S == LiveOnes(conn, slot, kind, trace, clock)
             inMem  == MemFound(slot, kind, trace, clock)
             inConn == SqlFound(slot, kind, trace, clock)
  <1>1. /\ IsBoard(mem) /\ IsBoard(conn) /\ Placed(conn)
        /\ Unmarked(mem) = Unmarked(conn) /\ Honest(mem, clock) /\ Honest(conn, clock)
    BY DEF AgreeInv, StoresInv, MemoryInv, SqliteInv, Twin, HonestInv, MemPending, SqlPending
  <1>2. /\ DOMAIN mem = DOMAIN conn
        /\ \A i \in DOMAIN mem : /\ mem[i] \in Row /\ conn[i] \in Row
                                 /\ mem[i].content = conn[i].content /\ mem[i].at = conn[i].at
                                 /\ Checked(mem[i], clock) = Checked(conn[i], clock)
    BY <1>1, AlikeRows
  <1>3. LiveOnes(mem, slot, kind, trace, clock) = S
    BY <1>2, LiveOnesAlike
  <1>4. S \in SUBSET DOMAIN conn
    BY DEF LiveOnes, Live, Candidates
  <1>5. inMem = {i \in S : \A j \in S : conn[i].at <= conn[j].at}
    BY <1>2, <1>3, <1>4 DEF MemFound, LiveOnes
  <1>6. inConn = {i \in S : \A j \in S : Before(i, j)}
    BY DEF SqlFound, Earliest, LiveOnes
  <1> HIDE DEF S, inMem, inConn
  <1>7. inMem = {} <=> inConn = {}
    BY <1>1, <1>4, <1>5, <1>6, Oldest
  <1>8. ASSUME InStampOrder PROVE inMem = inConn
    <2>1. \A i, j \in S : conn[i].at <= conn[j].at <=> Before(i, j)
      BY <1>1, <1>4, <1>8, OneOrder
    <2> QED
      BY <1>5, <1>6, <2>1
  <1> QED
    BY <1>7, <1>8 DEF inMem, inConn

LEMMA AgreeNow ==
    ASSUME AgreeInv
    PROVE  StoresAgree
  <1> SUFFICES ASSUME paired
               PROVE  /\ Seen(mem, clock) = Seen(conn, clock)
                      /\ \A c \in Contents :
                           LET inMem  == MemFound(c.slot, c.kind, c.trace, clock)
                               inConn == SqlFound(c.slot, c.kind, c.trace, clock)
                           IN  /\ inMem = {} <=> inConn = {}
                               /\ InStampOrder => inMem = inConn
                      /\ \A why \in Why :
                           CountInvalidatedByReason(why)
                             = Cardinality({i \in DOMAIN mem : /\ mem[i].status = "INVALIDATED"
                                                              /\ mem[i].reason = why})
    BY DEF StoresAgree
  <1>1. /\ IsBoard(mem) /\ IsBoard(conn)
        /\ Unmarked(mem) = Unmarked(conn) /\ Honest(mem, clock) /\ Honest(conn, clock)
    BY DEF AgreeInv, StoresInv, MemoryInv, SqliteInv, Twin, HonestInv, MemPending, SqlPending
  <1>2. /\ DOMAIN mem = DOMAIN conn
        /\ \A i \in DOMAIN mem :
             /\ Checked(mem[i], clock) = Checked(conn[i], clock)
             /\ mem[i].status = "INVALIDATED" <=> conn[i].status = "INVALIDATED"
             /\ mem[i].status = "INVALIDATED" => mem[i].reason = conn[i].reason
    BY <1>1, AlikeRows
  <1>3. Seen(mem, clock) = Seen(conn, clock)
    BY <1>2 DEF Seen
  <1>4. ASSUME NEW why \in Why
        PROVE  CountInvalidatedByReason(why)
                 = Cardinality({i \in DOMAIN mem : /\ mem[i].status = "INVALIDATED"
                                                  /\ mem[i].reason = why})
    <2>1. {i \in ListByStatus("INVALIDATED") : conn[i].reason = why}
            = {i \in DOMAIN mem : mem[i].status = "INVALIDATED" /\ mem[i].reason = why}
      BY <1>2 DEF ListByStatus
    <2> QED
      BY <2>1 DEF CountInvalidatedByReason
  <1> QED
    BY <1>3, <1>4, AgreeFind

\* Both stores give the same answers as long as both are there to be asked.
THEOREM TheStoresAgree == StoresSpec => []StoresAgree
  <1>1. StoresInit => AgreeInv
    <2>1. Placed(Empty)
      BY DEF Placed, Empty
    <2> QED
      BY <2>1, StoresInvInit, TwinInit, HonestInit DEF AgreeInv, StoresInit, SqlInit
  <1>2. AgreeInv /\ [StoresNext]_storesVars => AgreeInv'
    <2> SUFFICES ASSUME AgreeInv, [StoresNext]_storesVars PROVE AgreeInv'
      OBVIOUS
    <2>1. StoresInv' /\ StoreEvent /\ StoresInv /\ SqliteInv
      BY StoresInvStep DEF AgreeInv, StoresInv
    <2>2. Twin' /\ HonestInv'
      BY <2>1, TwinStep, HonestStep DEF AgreeInv
    <2>3. Placed(conn)' /\ Placed(file)'
      BY <2>1, PlacedStep DEF AgreeInv
    <2> QED
      BY <2>1, <2>2, <2>3 DEF AgreeInv
  <1>3. AgreeInv => StoresAgree
    BY AgreeNow
  <1> QED
    BY <1>1, <1>2, <1>3, PTL DEF StoresSpec
=============================================================================
