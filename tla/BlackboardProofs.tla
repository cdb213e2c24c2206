--------------------------- MODULE BlackboardProofs ---------------------------
(***************************************************************************)
(* Lemmas on the operators of Blackboard: what the updates of the board do *)
(* to its records, for every board.                                        *)
(***************************************************************************)
EXTENDS Blackboard, SequenceTheorems, WellFoundedInduction, TLAPS

\* A record `write` accepts is a record: the range test makes its confidence one.
LEMMA PublishedIsRecord ==
    ASSUME NEW d \in Drafts, Permits(d), ConfidenceOK(d)
    PROVE  d \in Record /\ FreshRecord(d)
BY DraftsAssumption, ScaleAssumption DEF FreshRecord, ConfidenceOK, Record, RecordWith, NoConf

\* Two versions of one record: only status and reason may differ.
Kept(r, s) ==
    /\ s.role = r.role /\ s.slot = r.slot /\ s.mode = r.mode /\ s.kind = r.kind
    /\ s.trace = r.trace /\ s.conf = r.conf /\ s.ttl = r.ttl /\ s.scope = r.scope
    /\ s.body = r.body /\ s.evid = r.evid /\ s.src = r.src /\ s.since = r.since

\* What invalidate makes of the record.
Settle(r, why) == [r EXCEPT !.status = "INVALIDATED", !.reason = why]

\* invalidate touches the status and the reason of one record.
LEMMA InvalidateFacts ==
    ASSUME NEW rs \in Seq(Record), NEW p \in DOMAIN rs, NEW why \in Reasons
    PROVE  LET new == Invalidate(rs, p, why)
           IN  /\ new \in Seq(Record)
               /\ Len(new) = Len(rs)
               /\ DOMAIN new = DOMAIN rs
               /\ new[p].status = "INVALIDATED" /\ new[p].reason = why
               /\ \A i \in DOMAIN rs : i # p => new[i] = rs[i]
               /\ Kept(rs[p], new[p])
               /\ new[p] = Settle(rs[p], why)
  <1> DEFINE r == [rs[p] EXCEPT !.status = "INVALIDATED", !.reason = why]
  <1>1. rs[p] \in Record
    BY ElementOfSeq
  <1>2. r \in Record
    BY <1>1 DEF Record, RecordWith
  <1>3. Invalidate(rs, p, why) = [rs EXCEPT ![p] = r]
    BY <1>1 DEF Invalidate, Record, RecordWith
  <1>4. Invalidate(rs, p, why) \in Seq(Record) /\ Len(Invalidate(rs, p, why)) = Len(rs)
    BY <1>2, <1>3, ExceptSeq
  <1>5. r.status = "INVALIDATED" /\ r.reason = why /\ Kept(rs[p], r)
    BY <1>1 DEF Kept, Record, RecordWith
  <1>6. r = Settle(rs[p], why)
    BY DEF Settle
  <1> QED
    BY <1>3, <1>4, <1>5, <1>6

\* The same of the mark that a deadline has passed.
LEMMA ExpireFacts ==
    ASSUME NEW rs \in Seq(Record), NEW p \in DOMAIN rs
    PROVE  LET new == ExpireRecord(rs, p)
           IN  /\ new \in Seq(Record)
               /\ Len(new) = Len(rs)
               /\ DOMAIN new = DOMAIN rs
               /\ \A i \in DOMAIN rs : i # p => new[i] = rs[i]
               /\ new[p].status = "EXPIRED" /\ new[p].reason = "TTL_EXPIRED"
               /\ Kept(rs[p], new[p])
  <1> DEFINE r == [rs[p] EXCEPT !.status = "EXPIRED", !.reason = "TTL_EXPIRED"]
  <1>1. rs[p] \in Record
    BY ElementOfSeq
  <1>2. r \in Record
    BY <1>1 DEF Record, RecordWith, Reasons
  <1>3. ExpireRecord(rs, p) = [rs EXCEPT ![p] = r]
    BY <1>1 DEF ExpireRecord, Record, RecordWith
  <1>4. ExpireRecord(rs, p) \in Seq(Record) /\ Len(ExpireRecord(rs, p)) = Len(rs)
    BY <1>2, <1>3, ExceptSeq
  <1>5. r.status = "EXPIRED" /\ r.reason = "TTL_EXPIRED" /\ Kept(rs[p], r)
    BY <1>1 DEF Kept, Record, RecordWith
  <1> QED
    BY <1>3, <1>4, <1>5

\* The records a commit writes are records.
LEMMA WrittenAreRecords ==
    ASSUME NEW rs \in Seq(Record), NEW p \in DOMAIN rs, rs[p].kind \in Kinds,
           NEW trace \in Traces, NEW voucher \in Vouchers,
           NEW since \in Nat, NEW evid \in Nat
    PROVE  /\ CommittedFrom(rs, p, trace, evid, since) \in Record
           /\ EvidenceFor(rs, p, trace, voucher, since) \in Record
  <1>1. rs[p] \in Record /\ p \in Nat
    BY ElementOfSeq
  <1> QED
    BY <1>1, ScaleAssumption
    DEF CommittedFrom, EvidenceFor, Record, RecordWith, Roles, Slots, Modes, Reasons, NoConf, NoId

\* Invalidating an old record and appending a new one commute.
LEMMA InvalidateAppend ==
    ASSUME NEW rs \in Seq(Record), NEW p \in DOMAIN rs, NEW why \in Reasons, NEW e \in Record
    PROVE  Invalidate(Append(rs, e), p, why) = Append(Invalidate(rs, p, why), e)
  <1> DEFINE n == Len(rs)
             left == Invalidate(Append(rs, e), p, why)
             right == Append(Invalidate(rs, p, why), e)
  <1>1. DOMAIN rs = 1..n /\ n \in Nat
    BY LenProperties
  <1>2. /\ Append(rs, e) \in Seq(Record) /\ Len(Append(rs, e)) = n + 1
        /\ \A i \in 1..n : Append(rs, e)[i] = rs[i]
        /\ Append(rs, e)[n + 1] = e
        /\ DOMAIN Append(rs, e) = 1..(n + 1)
    BY AppendProperties, LenProperties
  <1>3. /\ Invalidate(rs, p, why) \in Seq(Record) /\ Len(Invalidate(rs, p, why)) = n
        /\ \A i \in 1..n : i # p => Invalidate(rs, p, why)[i] = rs[i]
    BY <1>1, InvalidateFacts
  <1>4. /\ right \in Seq(Record) /\ Len(right) = n + 1
        /\ \A i \in 1..n : right[i] = Invalidate(rs, p, why)[i]
        /\ right[n + 1] = e
    BY <1>3, AppendProperties
  <1>5. /\ left \in Seq(Record) /\ Len(left) = n + 1
        /\ \A i \in 1..(n + 1) : i # p => left[i] = Append(rs, e)[i]
        /\ left[p] = Settle(Append(rs, e)[p], why)
    <2> DEFINE a == Append(rs, e)
    <2>1. a \in Seq(Record) /\ p \in DOMAIN a /\ DOMAIN a = 1..(n + 1) /\ Len(a) = n + 1
      BY <1>1, <1>2
    <2> HIDE DEF a
    <2>2. /\ Invalidate(a, p, why) \in Seq(Record) /\ Len(Invalidate(a, p, why)) = n + 1
          /\ \A i \in 1..(n + 1) : i # p => Invalidate(a, p, why)[i] = a[i]
          /\ Invalidate(a, p, why)[p] = Settle(a[p], why)
      BY <2>1, InvalidateFacts
    <2> QED
      BY <2>2 DEF a
  <1>6. left[p] = Invalidate(rs, p, why)[p]
    BY <1>1, <1>2, <1>5, InvalidateFacts
  <1> HIDE DEF left, right
  <1>7. \A i \in 1..(n + 1) : left[i] = right[i]
    BY <1>1, <1>2, <1>3, <1>4, <1>5, <1>6
  <1>8. left = right
    BY <1>4, <1>5, <1>7, SeqEqual
  <1> QED
    BY <1>8 DEF left, right

\* The least of a set of ids or positions is one of them.
LEMMA MinIsMember ==
    ASSUME NEW S \in SUBSET Nat, S # {}
    PROVE  Min(S) \in S /\ \A y \in S : Min(S) <= y
  <1>1. PICK x \in S : \A y \in S : ~(<<y, x>> \in OpToRel(<, Nat))
    BY NatLessThanWellFounded, WFMin, Zenon
  <1>2. ASSUME NEW y \in S PROVE x =< y
    <2>1. x \in Nat /\ y \in Nat
      OBVIOUS
    <2>2. y < x => <<y, x>> \in OpToRel(<, Nat)
      BY <2>1 DEF OpToRel
    <2>3. ~(y < x)
      BY <1>1, <2>2, Zenon
    <2> QED
      BY <2>1, <2>3
  <1> QED
    BY <1>2, Zenon DEF Min

\* So is the greatest of a set of ids of a board.
LEMMA MaxIsMember ==
    ASSUME NEW n \in Nat, NEW S \in SUBSET (1..n), S # {}
    PROVE  Max(S) \in S /\ \A y \in S : y <= Max(S)
  <1> DEFINE above == {b \in Nat : \A y \in S : y <= b}
  <1>1. n \in above /\ above \in SUBSET Nat
    OBVIOUS
  <1>2. Min(above) \in above /\ \A b \in above : Min(above) <= b
    BY <1>1, MinIsMember
  <1> DEFINE m == Min(above)
  <1>3. m \in Nat /\ \A y \in S : y <= m
    BY <1>2
  <1>4. m \in S
    <2> SUFFICES ASSUME m \notin S PROVE FALSE
      OBVIOUS
    <2>1. PICK z \in S : TRUE
      OBVIOUS
    <2>2. m - 1 \in Nat /\ \A y \in S : y <= m - 1
      BY <1>3, <2>1
    <2>3. m <= m - 1
      BY <1>2, <2>2
    <2> QED
      BY <1>3, <2>3
  <1> HIDE DEF m
  <1>5. \A y \in S : m >= y
    BY <1>3
  <1> QED
    BY <1>3, <1>4, <1>5 DEF Max

\* What is proposed keeps the lists its pipeline walks.
LEMMA KeptWellFormed ==
    ASSUME NEW r, NEW s, Kept(r, s), WellFormed(r)
    PROVE  WellFormed(s)
BY Zenon DEF Kept, WellFormed

\* Boards of which one is a later state of the other.
Grown(rs, new) ==
    /\ new \in Seq(Record)
    /\ Len(rs) <= Len(new)
    /\ \A i \in DOMAIN rs : i \in DOMAIN new /\ Kept(rs[i], new[i])
    /\ \A i \in DOMAIN new : i \notin DOMAIN rs /\ new[i].mode = "PROPOSE" => WellFormed(new[i])

LEMMA GrownSame ==
    ASSUME NEW rs \in Seq(Record)
    PROVE  Grown(rs, rs)
BY DEF Grown, Kept

LEMMA UpdateGrows ==
    ASSUME NEW rs \in Seq(Record), NEW new \in Seq(Record), Len(new) = Len(rs), NEW p \in DOMAIN rs,
           Kept(rs[p], new[p]), \A i \in DOMAIN rs : i # p => new[i] = rs[i]
    PROVE  Grown(rs, new)
  <1>1. DOMAIN rs = 1..Len(rs) /\ DOMAIN new = 1..Len(rs) /\ Len(rs) \in Nat
    BY LenProperties
  <1>2. \A i \in DOMAIN rs : Kept(rs[i], new[i])
    BY DEF Kept
  <1> QED
    BY <1>1, <1>2 DEF Grown

LEMMA InvalidateGrows ==
    ASSUME NEW rs \in Seq(Record), NEW p \in DOMAIN rs, NEW why \in Reasons
    PROVE  Grown(rs, Invalidate(rs, p, why))
  <1> DEFINE new == Invalidate(rs, p, why)
  <1>1. /\ new \in Seq(Record) /\ Len(new) = Len(rs) /\ Kept(rs[p], new[p])
        /\ \A i \in DOMAIN rs : i # p => new[i] = rs[i]
    BY InvalidateFacts
  <1> HIDE DEF new
  <1> QED
    BY <1>1, UpdateGrows DEF new

LEMMA AppendGrows ==
    ASSUME NEW rs \in Seq(Record), NEW d \in Record, d.mode = "PROPOSE" => WellFormed(d)
    PROVE  Grown(rs, Append(rs, d))
  <1>1. /\ Append(rs, d) \in Seq(Record)
        /\ DOMAIN rs = 1..Len(rs) /\ DOMAIN Append(rs, d) = 1..(Len(rs) + 1) /\ Len(rs) \in Nat
        /\ Len(Append(rs, d)) = Len(rs) + 1
        /\ \A i \in 1..Len(rs) : Append(rs, d)[i] = rs[i]
        /\ Append(rs, d)[Len(rs) + 1] = d
    BY AppendProperties, LenProperties
  <1>2. \A i \in DOMAIN rs : i \in DOMAIN Append(rs, d) /\ Kept(rs[i], Append(rs, d)[i])
    BY <1>1 DEF Kept
  <1> HIDE DEF Grown
  <1>3. \A i \in DOMAIN Append(rs, d) : i \notin DOMAIN rs => Append(rs, d)[i] = d
    BY <1>1
  <1>4. Len(rs) <= Len(Append(rs, d))
    BY <1>1
  <1> QED
    BY <1>1, <1>2, <1>3, <1>4, Zenon DEF Grown

LEMMA GrownTwice ==
    ASSUME NEW rs, NEW mid, NEW new, Grown(rs, mid), Grown(mid, new), rs \in Seq(Record)
    PROVE  Grown(rs, new)
  <1>1. \A i \in DOMAIN rs : i \in DOMAIN new /\ Kept(rs[i], new[i])
    BY DEF Grown, Kept
  <1>2. \A i \in DOMAIN new : i \notin DOMAIN rs /\ new[i].mode = "PROPOSE" => WellFormed(new[i])
    <2> SUFFICES ASSUME NEW i \in DOMAIN new, i \notin DOMAIN rs, new[i].mode = "PROPOSE"
                 PROVE  WellFormed(new[i])
      OBVIOUS
    <2>1. CASE i \notin DOMAIN mid
      BY <2>1 DEF Grown
    <2>2. CASE i \in DOMAIN mid
      <3>1. Kept(mid[i], new[i]) /\ mid[i].mode = "PROPOSE"
        BY <2>2 DEF Grown, Kept
      <3>2. WellFormed(mid[i])
        BY <2>2, <3>1 DEF Grown
      <3> QED
        BY <3>1, <3>2, KeptWellFormed
    <2> QED
      BY <2>1, <2>2
  <1>3. Len(rs) <= Len(new)
    BY LenProperties DEF Grown
  <1> QED
    BY <1>1, <1>2, <1>3 DEF Grown

\* The record a commit writes is the same for two versions of its proposal.
LEMMA CommittedFromKept ==
    ASSUME NEW rs, NEW new, NEW p, Kept(rs[p], new[p]), NEW trace, NEW evid, NEW since
    PROVE  CommittedFrom(new, p, trace, evid, since) = CommittedFrom(rs, p, trace, evid, since)
BY Zenon DEF Kept, CommittedFrom

\* The board of a belief commit after its evidence and its invalidation.
LEMMA EvidenceThenInvalidate ==
    ASSUME NEW rs \in Seq(Record), NEW p \in DOMAIN rs, rs[p].kind \in Kinds,
           NEW trace \in Traces, NEW voucher \in Vouchers, NEW since \in Nat
    PROVE  LET e     == EvidenceFor(rs, p, trace, voucher, since)
               board == Invalidate(Append(rs, e), p, "SUPERSEDED_BY_COMMIT")
           IN  /\ e \in Record
               /\ board = Append(Invalidate(rs, p, "SUPERSEDED_BY_COMMIT"), e)
               /\ board \in Seq(Record)
               /\ Len(board) = Len(rs) + 1
               /\ Kept(rs[p], board[p])
  <1> DEFINE e    == EvidenceFor(rs, p, trace, voucher, since)
             gone == Invalidate(rs, p, "SUPERSEDED_BY_COMMIT")
  <1>1. e \in Record
    BY WrittenAreRecords, 0 \in Nat
  <1>2. "SUPERSEDED_BY_COMMIT" \in Reasons
    BY DEF Reasons
  <1>3. gone \in Seq(Record) /\ Len(gone) = Len(rs) /\ Kept(rs[p], gone[p])
    BY <1>2, InvalidateFacts
  <1>4. Invalidate(Append(rs, e), p, "SUPERSEDED_BY_COMMIT") = Append(gone, e)
    BY <1>1, <1>2, InvalidateAppend
  <1> HIDE DEF gone, e
  <1>5. p \in 1..Len(gone) /\ Len(gone) \in Nat
    BY <1>3, LenProperties
  <1>6. /\ Append(gone, e) \in Seq(Record) /\ Len(Append(gone, e)) = Len(gone) + 1
        /\ Append(gone, e)[p] = gone[p]
    BY <1>1, <1>3, <1>5, AppendProperties
  <1> QED
    BY <1>1, <1>3, <1>4, <1>6 DEF gone, e
=============================================================================
