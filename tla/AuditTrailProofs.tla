--------------------------- MODULE AuditTrailProofs ---------------------------
(***************************************************************************)
(* Proofs of what AuditTrail promises, for every set of drafts, kinds,     *)
(* episodes and payloads and every bound.                                  *)
(***************************************************************************)
EXTENDS AuditTrail, BlackboardProofs

-----------------------------------------------------------------------------
\* The invariant the promises rest on.  AtMostOneCommit is not inductive alone: a
\* second commit is ruled out because a committed proposal says so (VerdictsAgree)
\* and a settled proposal is not Open.
Inv == TypeOK /\ AtMostOneCommit /\ VerdictsAgree /\ EvidenceVouches /\ CommitsAreProposals

\* What each action does, one record at a time.
LEMMA PublishShape ==
    ASSUME TypeOK, NEW d \in Drafts, Publish(d)
    PROVE  /\ trail' \in Seq(Record)
           /\ Len(trail') = Len(trail) + 1
           /\ \A i \in 1..Len(trail) : trail'[i] = trail[i]
           /\ trail'[Len(trail) + 1] = d
           /\ FreshRecord(d) /\ d \in Record
  <1>1. FreshRecord(d) /\ d \in Record
    BY PublishedIsRecord DEF Publish
  <1> QED
    BY <1>1, AppendProperties DEF Publish, TypeOK

LEMMA LapseShape ==
    ASSUME TypeOK, NEW p \in DOMAIN trail, Lapse(p)
    PROVE  /\ trail' \in Seq(Record)
           /\ Len(trail') = Len(trail)
           /\ \A i \in 1..Len(trail) : i # p => trail'[i] = trail[i]
           /\ Kept(trail[p], trail'[p])
           /\ trail[p].status = "ACTIVE"
           /\ trail'[p].status = "EXPIRED" /\ trail'[p].reason = "TTL_EXPIRED"
  <1>1. trail[p] \in Record /\ DOMAIN trail = 1..Len(trail)
    BY ElementOfSeq, LenProperties DEF TypeOK
  <1> QED
    BY <1>1, ExpireFacts DEF Lapse, Active, TypeOK

LEMMA SettleShape ==
    ASSUME TypeOK, NEW p \in DOMAIN trail, NEW why \in Reasons
    PROVE  LET new == Invalidate(trail, p, why)
           IN  /\ new \in Seq(Record)
               /\ Len(new) = Len(trail)
               /\ \A i \in 1..Len(trail) : i # p => new[i] = trail[i]
               /\ Kept(trail[p], new[p])
               /\ new[p].status = "INVALIDATED" /\ new[p].reason = why
  <1>1. trail[p] \in Record /\ DOMAIN trail = 1..Len(trail)
    BY ElementOfSeq, LenProperties DEF TypeOK
  <1> QED
    BY <1>1, InvalidateFacts DEF TypeOK

LEMMA CommitOtherShape ==
    ASSUME TypeOK, NEW p \in DOMAIN trail, NEW trace \in Traces,
           NEW since \in 0..Len(trail), CommitOther(p, trace, since)
    PROVE  LET c == CommittedFrom(trail, p, trace, NoId, since)
           IN  /\ trail' \in Seq(Record)
               /\ Len(trail') = Len(trail) + 1
               /\ \A i \in 1..Len(trail) : i # p => trail'[i] = trail[i]
               /\ Kept(trail[p], trail'[p])
               /\ trail'[p].status = "INVALIDATED"
               /\ trail'[p].reason = "SUPERSEDED_BY_COMMIT"
               /\ trail'[Len(trail) + 1] = c
  <1> DEFINE gone == Invalidate(trail, p, "SUPERSEDED_BY_COMMIT")
             c == CommittedFrom(trail, p, trace, NoId, since)
  <1>1. /\ gone \in Seq(Record) /\ Len(gone) = Len(trail)
        /\ \A i \in 1..Len(trail) : i # p => gone[i] = trail[i]
        /\ Kept(trail[p], gone[p])
        /\ gone[p].status = "INVALIDATED" /\ gone[p].reason = "SUPERSEDED_BY_COMMIT"
    BY SettleShape DEF Reasons
  <1>2. trail[p].kind \in Kinds /\ Len(trail) \in Nat /\ p \in 1..Len(trail)
    BY LenProperties DEF TypeOK, CommitOther, Open
  <1>3. c \in Record
    <2>1. PICK voucher : voucher \in Vouchers
      BY [claims |-> TRUE, vetted |-> TRUE] \in Vouchers DEF Vouchers
    <2> QED
      BY <1>2, <2>1, WrittenAreRecords DEF TypeOK, NoId
  <1>4. trail' = Append(gone, c)
    BY DEF CommitOther
  <1> HIDE DEF gone, c
  <1> QED
    BY <1>1, <1>2, <1>3, <1>4, AppendProperties DEF gone, c

LEMMA CommitBeliefShape ==
    ASSUME TypeOK, NEW p \in DOMAIN trail, NEW trace \in Traces, NEW voucher \in Vouchers,
           NEW since \in 0..Len(trail), CommitBelief(p, trace, voucher, since)
    PROVE  LET e == EvidenceFor(trail, p, trace, voucher, since)
               c == CommittedFrom(trail, p, trace, Len(trail) + 1, since)
           IN  /\ trail' \in Seq(Record)
               /\ Len(trail') = Len(trail) + 2
               /\ \A i \in 1..Len(trail) : i # p => trail'[i] = trail[i]
               /\ Kept(trail[p], trail'[p])
               /\ trail'[p].status = "INVALIDATED"
               /\ trail'[p].reason = "SUPERSEDED_BY_COMMIT"
               /\ trail'[Len(trail) + 1] = e
               /\ trail'[Len(trail) + 2] = c
  <1> DEFINE gone == Invalidate(trail, p, "SUPERSEDED_BY_COMMIT")
             e == EvidenceFor(trail, p, trace, voucher, since)
             c == CommittedFrom(trail, p, trace, Len(trail) + 1, since)
  <1>1. /\ gone \in Seq(Record) /\ Len(gone) = Len(trail)
        /\ \A i \in 1..Len(trail) : i # p => gone[i] = trail[i]
        /\ Kept(trail[p], gone[p])
        /\ gone[p].status = "INVALIDATED" /\ gone[p].reason = "SUPERSEDED_BY_COMMIT"
    BY SettleShape DEF Reasons
  <1>2. trail[p].kind \in Kinds /\ Len(trail) \in Nat /\ p \in 1..Len(trail)
    BY LenProperties DEF TypeOK, CommitBelief, Open
  <1>3. e \in Record /\ c \in Record
    BY <1>2, WrittenAreRecords DEF TypeOK
  <1>4. trail' = Append(Append(gone, e), c)
    BY DEF CommitBelief
  <1> HIDE DEF gone, e, c
  <1>5. /\ Append(gone, e) \in Seq(Record)
        /\ Len(Append(gone, e)) = Len(trail) + 1
        /\ \A i \in 1..Len(trail) : Append(gone, e)[i] = gone[i]
        /\ Append(gone, e)[Len(trail) + 1] = e
    BY <1>1, <1>3, AppendProperties
  <1>6. /\ trail' \in Seq(Record)
        /\ Len(trail') = Len(trail) + 2
        /\ \A i \in 1..Len(trail) : trail'[i] = gone[i]
        /\ trail'[Len(trail) + 1] = e
        /\ trail'[Len(trail) + 2] = c
    BY <1>2, <1>3, <1>4, <1>5, AppendProperties
  <1> QED
    BY <1>1, <1>2, <1>6 DEF e, c

-----------------------------------------------------------------------------
\* The actions preserve the invariant.

LEMMA PublishInv ==
    ASSUME Inv, NEW d \in Drafts, Publish(d)
    PROVE  Inv'
  <1> DEFINE n == Len(trail)
  <1>1. /\ trail' \in Seq(Record) /\ trail \in Seq(Record)
        /\ Len(trail') = n + 1 /\ n \in Nat
        /\ \A i \in 1..n : trail'[i] = trail[i]
        /\ trail'[n + 1] = d
        /\ FreshRecord(d) /\ d \in Record
        /\ DOMAIN trail = 1..n /\ DOMAIN trail' = 1..(n + 1)
    BY PublishShape, LenProperties DEF Inv, TypeOK
  <1>2. /\ d.role # "kernel" /\ d.src = NoId /\ d.evid = NoId
        /\ d.mode = "PROPOSE" => d.kind \in Kinds
        /\ d.reason = "none"
    BY <1>1 DEF FreshRecord, WellFormed
  <1>3. ~(d.mode = "COMMIT" /\ d.slot \in {"beliefs", "actions"})
    BY <1>2 DEF Publish, Permits, Permissions
  <1> HIDE DEF n
  <1>4. TypeOK'
    BY <1>1, <1>2 DEF Inv, TypeOK, NoId
  <1>5. \A p \in 1..(n + 1) : CommitsOf(p)' = IF p = n + 1 THEN {} ELSE CommitsOf(p)
    <2> SUFFICES ASSUME NEW p \in 1..(n + 1), NEW i \in 1..(n + 1)
                 PROVE  trail'[i].role = "kernel" /\ trail'[i].src = p
                        <=> /\ p # n + 1 /\ i # n + 1
                            /\ trail[i].role = "kernel" /\ trail[i].src = p
      BY <1>1 DEF CommitsOf
    <2> QED
      BY <1>1, <1>2 DEF Inv, TypeOK
  <1>6. AtMostOneCommit'
    BY <1>1, <1>5 DEF Inv, AtMostOneCommit
  <1>7. VerdictsAgree'
    BY <1>1, <1>2, <1>5 DEF Inv, VerdictsAgree
  <1>8. EvidenceVouches'
    BY <1>1, <1>2 DEF Inv, EvidenceVouches, BeliefCites, TypeOK, CommitsOf, NoId
  <1>9. CommitsAreProposals'
    BY <1>1, <1>2, <1>3 DEF Inv, CommitsAreProposals, TypeOK
  <1> QED
    BY <1>4, <1>6, <1>7, <1>8, <1>9 DEF Inv

\* A step that changes nothing but the status and the reason of one record that
\* was not superseded, and does not claim it is.
LEMMA RestatusInv ==
    ASSUME Inv, NEW p \in 1..Len(trail),
           trail' \in Seq(Record), Len(trail') = Len(trail),
           \A i \in 1..Len(trail) : i # p => trail'[i] = trail[i],
           Kept(trail[p], trail'[p]),
           trail[p].status # "INVALIDATED",
           trail'[p].reason # "SUPERSEDED_BY_COMMIT"
    PROVE  Inv'
  <1> DEFINE n == Len(trail)
  <1>1. DOMAIN trail = 1..n /\ DOMAIN trail' = 1..n /\ n \in Nat
    BY LenProperties DEF Inv, TypeOK
  <1>2. \A i \in 1..n : Kept(trail[i], trail'[i])
    BY DEF Kept
  <1> HIDE DEF n
  <1>3. TypeOK'
    BY <1>1, <1>2 DEF Inv, TypeOK, Kept
  <1>4. \A q \in 1..n : CommitsOf(q)' = CommitsOf(q)
    BY <1>1, <1>2 DEF CommitsOf, Kept
  <1>5. AtMostOneCommit'
    BY <1>1, <1>4 DEF Inv, AtMostOneCommit
  <1>6. VerdictsAgree'
    BY <1>1, <1>4 DEF Inv, VerdictsAgree, n
  <1>7. EvidenceVouches'
    BY <1>1, <1>2 DEF Inv, EvidenceVouches, BeliefCites, TypeOK, CommitsOf, Kept, NoId
  <1>8. CommitsAreProposals'
    BY <1>1, <1>2 DEF Inv, CommitsAreProposals, Kept
  <1> QED
    BY <1>3, <1>5, <1>6, <1>7, <1>8 DEF Inv

\* The proposal a record came from is an earlier record.
LEMMA EarlierSource ==
    ASSUME TypeOK, NEW i \in DOMAIN trail
    PROVE  trail[i].src < i /\ trail[i].src \in Nat
  <1>1. trail[i] \in Record
    BY ElementOfSeq DEF TypeOK
  <1>2. trail[i].src \in Nat
    BY <1>1 DEF Record, RecordWith
  <1> QED
    BY <1>2 DEF TypeOK

LEMMA CommitOtherInv ==
    ASSUME Inv, NEW p \in DOMAIN trail, NEW trace \in Traces,
           NEW since \in 0..Len(trail), CommitOther(p, trace, since)
    PROVE  Inv'
  <1> DEFINE n == Len(trail)
             c == CommittedFrom(trail, p, trace, NoId, since)
  <1>1. /\ trail' \in Seq(Record) /\ trail \in Seq(Record)
        /\ Len(trail') = n + 1 /\ n \in Nat /\ p \in 1..n
        /\ \A i \in 1..n : Kept(trail[i], trail'[i])
        /\ \A i \in 1..n : i # p => trail'[i] = trail[i]
        /\ trail'[p].status = "INVALIDATED" /\ trail'[p].reason = "SUPERSEDED_BY_COMMIT"
        /\ trail'[n + 1] = c
        /\ DOMAIN trail = 1..n /\ DOMAIN trail' = 1..(n + 1)
    BY CommitOtherShape, LenProperties DEF Inv, TypeOK, Kept
  <1>2. /\ c.role = "kernel" /\ c.src = p /\ c.evid = NoId /\ c.mode = "COMMIT"
        /\ c.slot = trail[p].slot /\ c.kind = trail[p].kind
        /\ c.body = trail[p].body /\ c.conf = trail[p].conf
        /\ c.reason = "none"
    BY DEF CommittedFrom
  <1>3. /\ trail[p].mode = "PROPOSE" /\ trail[p].status # "INVALIDATED"
        /\ trail[p].slot \in {"predictions", "actions"}
    BY DEF CommitOther, Open, Committable
  <1> HIDE DEF n, c
  <1>4. TypeOK'
    BY <1>1, <1>2, <1>3 DEF Inv, TypeOK, Kept, NoId
  <1>5. \A q \in 1..(n + 1) : CommitsOf(q)' = IF q = n + 1 THEN {}
                                              ELSE IF q = p THEN CommitsOf(p) \cup {n + 1}
                                              ELSE CommitsOf(q)
    <2> SUFFICES ASSUME NEW q \in 1..(n + 1), NEW i \in 1..(n + 1)
                 PROVE  trail'[i].role = "kernel" /\ trail'[i].src = q
                        <=> \/ q = p /\ i = n + 1
                            \/ /\ q # n + 1 /\ i # n + 1
                               /\ trail[i].role = "kernel" /\ trail[i].src = q
      BY <1>1 DEF CommitsOf
    <2>1. CASE i = n + 1
      BY <2>1, <1>1, <1>2
    <2>2. CASE i # n + 1
      <3>1. i \in 1..n /\ trail'[i].role = trail[i].role /\ trail'[i].src = trail[i].src
        BY <2>2, <1>1 DEF Kept
      <3>2. trail[i].src < i /\ trail[i].src \in Nat
        BY <3>1, <1>1, EarlierSource DEF Inv
      <3> QED
        BY <3>1, <3>2, <1>1
    <2> QED
      BY <2>1, <2>2
  <1>6. CommitsOf(p) = {}
    BY <1>1, <1>3 DEF Inv, VerdictsAgree
  <1>7. AtMostOneCommit'
    BY <1>1, <1>5, <1>6 DEF Inv, AtMostOneCommit
  <1>8. VerdictsAgree'
    <2> SUFFICES ASSUME NEW q \in 1..(n + 1)
                 PROVE  /\ trail'[q].reason = "SUPERSEDED_BY_COMMIT" <=> CommitsOf(q)' # {}
                        /\ trail'[q].reason = "SUPERSEDED_BY_COMMIT"
                             => trail'[q].status = "INVALIDATED"
      BY <1>1 DEF VerdictsAgree
    <2>1. CASE q = p
      BY <2>1, <1>1, <1>2, <1>5
    <2>2. CASE q > n
      BY <2>2, <1>1, <1>2, <1>5
    <2>3. CASE q <= n /\ q # p
      BY <2>3, <1>1, <1>2, <1>5 DEF Inv, VerdictsAgree
    <2> QED
      BY <2>1, <2>2, <2>3, <1>1
  <1>9. EvidenceVouches'
    BY <1>1, <1>2, <1>3 DEF Inv, EvidenceVouches, BeliefCites, TypeOK, CommitsOf, Kept, NoId
  <1>10. CommitsAreProposals'
    BY <1>1, <1>2, <1>3 DEF Inv, CommitsAreProposals, Kept
  <1> QED
    BY <1>4, <1>7, <1>8, <1>9, <1>10 DEF Inv

LEMMA CommitBeliefInv ==
    ASSUME Inv, NEW p \in DOMAIN trail, NEW trace \in Traces, NEW voucher \in Vouchers,
           NEW since \in 0..Len(trail), CommitBelief(p, trace, voucher, since)
    PROVE  Inv'
  <1> DEFINE n == Len(trail)
             e == EvidenceFor(trail, p, trace, voucher, since)
             c == CommittedFrom(trail, p, trace, n + 1, since)
  <1>1. /\ trail' \in Seq(Record) /\ trail \in Seq(Record)
        /\ Len(trail') = n + 2 /\ n \in Nat /\ p \in 1..n
        /\ \A i \in 1..n : Kept(trail[i], trail'[i])
        /\ \A i \in 1..n : i # p => trail'[i] = trail[i]
        /\ trail'[p].status = "INVALIDATED" /\ trail'[p].reason = "SUPERSEDED_BY_COMMIT"
        /\ trail'[n + 1] = e /\ trail'[n + 2] = c
        /\ DOMAIN trail = 1..n /\ DOMAIN trail' = 1..(n + 2)
    <2>1. trail \in Seq(Record) /\ TypeOK
      BY DEF Inv, TypeOK
    <2>2. n \in Nat /\ p \in 1..n /\ DOMAIN trail = 1..n
      BY <2>1, LenProperties
    <2>3. /\ trail' \in Seq(Record) /\ Len(trail') = n + 2
          /\ \A i \in 1..n : i # p => trail'[i] = trail[i]
          /\ Kept(trail[p], trail'[p])
          /\ trail'[p].status = "INVALIDATED" /\ trail'[p].reason = "SUPERSEDED_BY_COMMIT"
          /\ trail'[n + 1] = e /\ trail'[n + 2] = c
      BY <2>1, CommitBeliefShape, Zenon
    <2> HIDE DEF n, e, c
    <2>4. DOMAIN trail' = 1..(n + 2)
      BY <2>2, <2>3, LenProperties
    <2>5. \A i \in 1..n : Kept(trail[i], trail'[i])
      BY <2>2, <2>3 DEF Kept
    <2> QED
      BY <2>1, <2>2, <2>3, <2>4, <2>5
  <1>2. /\ c.role = "kernel" /\ c.src = p /\ c.evid = n + 1 /\ c.mode = "COMMIT"
        /\ c.slot = trail[p].slot /\ c.kind = trail[p].kind /\ c.trace = trace
        /\ c.body = trail[p].body /\ c.conf = trail[p].conf
        /\ c.reason = "none"
    BY DEF CommittedFrom
  <1>3. /\ e.role = "evidence_validator" /\ e.src = p /\ e.evid = NoId /\ e.mode = "COMMIT"
        /\ e.slot = "evidence" /\ e.kind = ValidationOf(trail[p].kind) /\ e.trace = trace
        /\ e.reason = "none"
    BY DEF EvidenceFor
  <1>4. /\ trail[p].mode = "PROPOSE" /\ trail[p].status # "INVALIDATED"
        /\ trail[p].slot = "beliefs"
    BY DEF CommitBelief, Open
  <1> HIDE DEF n, e, c
  <1>5. TypeOK'
    <2> SUFFICES ASSUME NEW i \in 1..(n + 2)
                 PROVE  /\ trail'[i].evid < i /\ trail'[i].src < i
                        /\ trail'[i].mode = "PROPOSE" => trail'[i].kind \in Kinds
      BY <1>1 DEF TypeOK
    <2>1. CASE i = n + 1
      BY <2>1, <1>1, <1>3 DEF NoId
    <2>2. CASE i = n + 2
      BY <2>2, <1>1, <1>2
    <2>3. CASE i <= n
      BY <2>3, <1>1 DEF Inv, TypeOK, Kept
    <2> QED
      BY <2>1, <2>2, <2>3, <1>1
  <1>6. \A q \in 1..(n + 2) : CommitsOf(q)' = IF q > n THEN {}
                                              ELSE IF q = p THEN CommitsOf(p) \cup {n + 2}
                                              ELSE CommitsOf(q)
    <2> SUFFICES ASSUME NEW q \in 1..(n + 2), NEW i \in 1..(n + 2)
                 PROVE  trail'[i].role = "kernel" /\ trail'[i].src = q
                        <=> \/ q = p /\ i = n + 2
                            \/ /\ q <= n /\ i <= n
                               /\ trail[i].role = "kernel" /\ trail[i].src = q
      BY <1>1 DEF CommitsOf
    <2>1. CASE i = n + 2
      BY <2>1, <1>1, <1>2
    <2>2. CASE i = n + 1
      BY <2>2, <1>1, <1>3
    <2>3. CASE i <= n
      <3>1. i \in 1..n /\ trail'[i].role = trail[i].role /\ trail'[i].src = trail[i].src
        BY <2>3, <1>1 DEF Kept
      <3>2. trail[i].src < i /\ trail[i].src \in Nat
        BY <3>1, <1>1, EarlierSource DEF Inv
      <3> QED
        BY <3>1, <3>2, <1>1
    <2> QED
      BY <2>1, <2>2, <2>3, <1>1
  <1>7. CommitsOf(p) = {}
    BY <1>1, <1>4 DEF Inv, VerdictsAgree
  <1>8. AtMostOneCommit'
    BY <1>1, <1>6, <1>7 DEF Inv, AtMostOneCommit
  <1>9. VerdictsAgree'
    <2> SUFFICES ASSUME NEW q \in 1..(n + 2)
                 PROVE  /\ trail'[q].reason = "SUPERSEDED_BY_COMMIT" <=> CommitsOf(q)' # {}
                        /\ trail'[q].reason = "SUPERSEDED_BY_COMMIT"
                             => trail'[q].status = "INVALIDATED"
      BY <1>1 DEF VerdictsAgree
    <2>1. CASE q = p
      <3>1. n + 2 \in CommitsOf(q)'
        BY <2>1, <1>1, <1>6
      <3> QED
        BY <3>1, <2>1, <1>1
    <2>2. CASE q > n
      BY <2>2, <1>1, <1>2, <1>3, <1>6
    <2>3. CASE q <= n /\ q # p
      BY <2>3, <1>1, <1>2, <1>3, <1>6 DEF Inv, VerdictsAgree
    <2> QED
      BY <2>1, <2>2, <2>3, <1>1
  <1>10. EvidenceVouches'
    <2>1. ASSUME NEW i \in 1..(n + 2), trail'[i].role = "kernel", trail'[i].slot = "beliefs"
          PROVE  BeliefCites(i)'
      <3>1. CASE i <= n
        BY <3>1, <2>1, <1>1 DEF Inv, EvidenceVouches, BeliefCites, Kept
      <3>2. CASE i = n + 2
        BY <3>2, <1>1, <1>2, <1>3 DEF BeliefCites
      <3>3. CASE i = n + 1
        BY <3>3, <2>1, <1>1, <1>3
      <3> QED
        BY <3>1, <3>2, <3>3, <1>1
    <2>2. ASSUME NEW i \in 1..(n + 2), trail'[i].slot = "evidence", trail'[i].src # NoId
          PROVE  \E b \in 1..(n + 2) :
                    /\ trail'[b].role = "kernel" /\ trail'[b].src = trail'[i].src
                    /\ trail'[b].slot = "beliefs" /\ trail'[b].evid = i
      <3>1. CASE i <= n
        <4>1. PICK b \in 1..n : /\ trail[b].role = "kernel" /\ trail[b].src = trail[i].src
                                /\ trail[b].slot = "beliefs" /\ trail[b].evid = i
          BY <3>1, <2>2, <1>1 DEF Inv, EvidenceVouches, CommitsOf, Kept
        <4> QED
          BY <4>1, <3>1, <1>1 DEF Kept
      <3>2. CASE i = n + 2
        BY <3>2, <2>2, <1>1, <1>2, <1>4
      <3>3. CASE i = n + 1
        BY <3>3, <1>1, <1>2, <1>3, <1>4
      <3> QED
        BY <3>1, <3>2, <3>3, <1>1
    <2> QED
      BY <2>1, <2>2, <1>1 DEF EvidenceVouches, CommitsOf
  <1>11. CommitsAreProposals'
    BY <1>1, <1>2, <1>3, <1>4 DEF Inv, CommitsAreProposals, Kept
  <1> QED
    BY <1>5, <1>8, <1>9, <1>10, <1>11 DEF Inv

-----------------------------------------------------------------------------
LEMMA InitInv == Init => Inv
BY DEF Init, Inv, TypeOK, AtMostOneCommit, VerdictsAgree, EvidenceVouches, CommitsAreProposals

LEMMA NextInv == Inv /\ [Next]_trail => Inv'
  <1> SUFFICES ASSUME Inv, [Next]_trail PROVE Inv'
    OBVIOUS
  <1>1. ASSUME NEW d \in Drafts, Publish(d) PROVE Inv'
    BY <1>1, PublishInv
  <1>2. ASSUME NEW p \in DOMAIN trail, Lapse(p) PROVE Inv'
    <2>1. DOMAIN trail = 1..Len(trail)
      BY LenProperties DEF Inv, TypeOK
    <2> QED
      BY <1>2, <2>1, LapseShape, RestatusInv DEF Inv
  <1>3. ASSUME NEW p \in DOMAIN trail, Refuse(p) PROVE Inv'
    <2>1. DOMAIN trail = 1..Len(trail)
      BY LenProperties DEF Inv, TypeOK
    <2>2. PICK why \in Refusals : trail' = Invalidate(trail, p, why)
      BY <1>3 DEF Refuse
    <2>3. why \in Reasons /\ why # "SUPERSEDED_BY_COMMIT"
      BY <2>2 DEF Reasons, Refusals
    <2> QED
      BY <1>3, <2>1, <2>2, <2>3, SettleShape, RestatusInv DEF Inv, Refuse, Open
  <1>4. ASSUME NEW p \in DOMAIN trail, NEW trace \in Traces, NEW since \in 0..Len(trail),
               NEW voucher \in Vouchers, CommitBelief(p, trace, voucher, since)
        PROVE  Inv'
    BY <1>4, CommitBeliefInv
  <1>5. ASSUME NEW p \in DOMAIN trail, NEW trace \in Traces, NEW since \in 0..Len(trail),
               CommitOther(p, trace, since)
        PROVE  Inv'
    BY <1>5, CommitOtherInv
  <1>6. CASE UNCHANGED trail
    BY <1>6 DEF Inv, TypeOK, AtMostOneCommit, VerdictsAgree, EvidenceVouches,
                BeliefCites, CommitsAreProposals, CommitsOf
  <1> QED
    BY <1>1, <1>2, <1>3, <1>4, <1>5, <1>6 DEF Next, Land

\* The invariant holds throughout.
THEOREM TrailInvariant == Spec => []Inv
BY InitInv, NextInv, PTL DEF Spec

\* Every record on the board is one `write` accepts, or one the kernel built of it.
THEOREM TrailTypeOK == Spec => []TypeOK
BY TrailInvariant, PTL DEF Inv

\* A proposal is committed at most once.
THEOREM TrailAtMostOneCommit == Spec => []AtMostOneCommit
BY TrailInvariant, PTL DEF Inv

\* A proposal is marked superseded exactly when its commit is there.
THEOREM TrailVerdictsAgree == Spec => []VerdictsAgree
BY TrailInvariant, PTL DEF Inv

\* No belief without its evidence, no evidence of the kernel's without its belief.
THEOREM TrailEvidenceVouches == Spec => []EvidenceVouches
BY TrailInvariant, PTL DEF Inv

\* Nothing is committed that was not proposed.
THEOREM TrailCommitsAreProposals == Spec => []CommitsAreProposals
BY TrailInvariant, PTL DEF Inv

\* A step that leaves every record but p alone, and p too unless it is unsettled,
\* is a step of Settled.
LEMMA OneRecordSettles ==
    ASSUME TypeOK, NEW p \in 1..Len(trail),
           trail' \in Seq(Record), Len(trail') >= Len(trail),
           \A i \in 1..Len(trail) : i # p => trail'[i] = trail[i],
           Kept(trail[p], trail'[p]),
           trail[p].status # "INVALIDATED",
           trail'[p].status # "ACTIVE"
    PROVE  SettledStep
  <1>1. /\ DOMAIN trail = 1..Len(trail) /\ Len(trail) \in Nat
        /\ trail[p] \in Record /\ trail'[p] \in Record
    BY ElementOfSeq, LenProperties DEF TypeOK
  <1>2. [trail'[p] EXCEPT !.status = "ACTIVE", !.reason = "none"]
          = [trail[p] EXCEPT !.status = "ACTIVE", !.reason = "none"]
    BY <1>1 DEF Kept, Record, RecordWith
  <1> QED
    BY <1>1, <1>2 DEF SettledStep

\* So are all the steps.
LEMMA NextSettles == Inv /\ [Next]_trail => [SettledStep]_trail
  <1> SUFFICES ASSUME Inv, Next PROVE SettledStep
    OBVIOUS
  <1>0. DOMAIN trail = 1..Len(trail) /\ Len(trail) \in Nat /\ TypeOK
    BY LenProperties DEF Inv, TypeOK
  <1>1. ASSUME NEW d \in Drafts, Publish(d) PROVE SettledStep
    <2>1. Len(trail') = Len(trail) + 1 /\ \A i \in 1..Len(trail) : trail'[i] = trail[i]
      BY <1>0, <1>1, PublishShape
    <2>2. Len(trail) <= Len(trail')
      BY <1>0, <2>1
    <2>3. \A i \in DOMAIN trail : trail'[i] = trail[i]
      BY <1>0, <2>1
    <2> QED
      BY <2>2, <2>3, Zenon DEF SettledStep
  <1>2. ASSUME NEW p \in DOMAIN trail, Lapse(p) PROVE SettledStep
    BY <1>0, <1>2, LapseShape, OneRecordSettles
  <1>3. ASSUME NEW p \in DOMAIN trail, Refuse(p) PROVE SettledStep
    <2>1. PICK why \in Refusals : trail' = Invalidate(trail, p, why)
      BY <1>3 DEF Refuse
    <2> QED
      BY <1>0, <1>3, <2>1, SettleShape, OneRecordSettles DEF Refuse, Open, Reasons
  <1>4. ASSUME NEW p \in DOMAIN trail, NEW trace \in Traces, NEW since \in 0..Len(trail),
               NEW voucher \in Vouchers, CommitBelief(p, trace, voucher, since)
        PROVE  SettledStep
    <2>1. /\ trail' \in Seq(Record) /\ Len(trail') = Len(trail) + 2
          /\ \A i \in 1..Len(trail) : i # p => trail'[i] = trail[i]
          /\ Kept(trail[p], trail'[p]) /\ trail'[p].status = "INVALIDATED"
      BY <1>0, <1>4, CommitBeliefShape
    <2>2. trail[p].status # "INVALIDATED"
      BY <1>4 DEF CommitBelief, Open
    <2> QED
      BY <1>0, <2>1, <2>2, OneRecordSettles
  <1>5. ASSUME NEW p \in DOMAIN trail, NEW trace \in Traces, NEW since \in 0..Len(trail),
               CommitOther(p, trace, since)
        PROVE  SettledStep
    BY <1>0, <1>5, CommitOtherShape, OneRecordSettles DEF CommitOther, Open
  <1> QED
    BY <1>1, <1>2, <1>3, <1>4, <1>5 DEF Next, Land

\* Records are only added, and what is settled stays as it is.
THEOREM TrailSettled == Spec => Settled
BY NextSettles, TrailInvariant, PTL DEF Spec, Settled
=============================================================================
