--------------------------- MODULE CurrentViewProofs ---------------------------
(***************************************************************************)
(* Proofs of what CurrentView says of a view taken slot by slot while the  *)
(* board changes, for every set of drafts, kinds, episodes and payloads.   *)
(***************************************************************************)
EXTENDS CurrentView, AuditTrailProofs

\* What the kernel wrote stands for good: it has no deadline, and it is no proposal
\* that a commit could settle.  (A commit keeps neither the ttl nor the scope of
\* what it commits.)
Standing(i) ==
    /\ trail[i].mode = "COMMIT" /\ trail[i].status = "ACTIVE"
    /\ ~trail[i].ttl /\ trail[i].scope = "episode"

Writes(i) ==
    /\ trail[i].mode = "COMMIT" /\ trail[i].slot = "beliefs" => trail[i].role = "kernel"
    /\ trail[i].role = "kernel" =>
         /\ trail[i].src \in DOMAIN trail
         /\ trail[trail[i].src].slot = trail[i].slot
    /\ trail[i].src # NoId => Standing(i)

KernelWrites == \A i \in DOMAIN trail : Writes(i)

\* What a view that has listed some of its slots is.
ListedSlots == {SlotsInOrder[n] : n \in 1..listed}

Wanted(i) == Visible(trail[i], asked.trace, asked.includePersistent)

ViewTypeOK ==
    /\ live \in BOOLEAN /\ asked \in ViewCalls /\ listed \in 0..7
    /\ began \in 0..Len(trail) /\ seen \subseteq DOMAIN trail

\* The records of the loop are those of the slot listed last; copies were ACTIVE then.
UntestedAreListed ==
    /\ untested \subseteq DOMAIN trail
    /\ untested # {} => listed # 0
    /\ \A i \in untested : trail[i].slot = SlotsInOrder[listed]

\* A transaction is open on an open proposal, and the call that runs has it touched.
MarkedIsOpen ==
    marked # NoId =>
        /\ marked \in DOMAIN trail /\ Open(marked)
        /\ ~Taken => marked \in touched

SeenAreWanted == \A i \in seen : trail[i].slot \in ListedSlots /\ Wanted(i)

StandingAreSeen ==
    \A i \in 1..began :
        trail[i].status = "ACTIVE" /\ trail[i].slot \in ListedSlots /\ Wanted(i)
          => \/ i \in seen \cup untested
             \/ live /\ trail[i].mode = "PROPOSE" /\ i \in touched

EvidenceIsSeen ==
    "evidence" \in ListedSlots =>
        \A b \in seen : trail[b].mode = "COMMIT" /\ trail[b].slot = "beliefs"
                          => trail[b].evid \in seen \cup untested

\* The proposals that are in the view, or sure to be if they are visible.
Sure == IF live THEN seen ELSE seen \cup untested

SureAreOpen ==
    \A p \in Sure : trail[p].mode = "PROPOSE" => CommitsOf(p) \cap (seen \cup untested) = {}

\* The invariant the view properties rest on.  The three of them speak of a view
\* that is finished, or of records that changed after they were listed; what carries
\* them there is that no status becomes ACTIVE again and that what the kernel wrote
\* never ceases to be, nor is ever marked.
ViewInv ==
    /\ KernelWrites
    /\ ViewTypeOK
    /\ UntestedAreListed
    /\ MarkedIsOpen
    /\ SeenAreWanted
    /\ StandingAreSeen
    /\ EvidenceIsSeen
    /\ SureAreOpen
-----------------------------------------------------------------------------
\* What the kernel wrote stays, when the records are kept, those that stand stay
\* ACTIVE and the new ones are as KernelWrites asks.
LEMMA WritesKept ==
    ASSUME Inv, KernelWrites, NEW m \in Nat, NEW n \in Nat, m <= n,
           DOMAIN trail = 1..m, DOMAIN trail' = 1..n,
           \A i \in 1..m : Kept(trail[i], trail'[i]),
           \A i \in 1..m : Standing(i) => trail'[i].status = "ACTIVE",
           \A i \in (m + 1)..n : Writes(i)'
    PROVE  KernelWrites'
  <1> SUFFICES ASSUME NEW i \in 1..n PROVE Writes(i)'
    BY DEF KernelWrites
  <1>1. CASE i > m
    BY <1>1
  <1>2. CASE i <= m
    <2>1. Writes(i) /\ Kept(trail[i], trail'[i]) /\ i \in 1..m
      BY <1>2 DEF KernelWrites
    <2>2. trail'[i].mode = "COMMIT" /\ trail'[i].slot = "beliefs" => trail'[i].role = "kernel"
      BY <2>1 DEF Writes, Kept
    <2>3. trail'[i].role = "kernel" => /\ trail'[i].src \in 1..n
                                      /\ trail'[trail'[i].src].slot = trail'[i].slot
      <3> SUFFICES ASSUME trail'[i].role = "kernel"
                   PROVE  trail'[i].src \in 1..n /\ trail'[trail'[i].src].slot = trail'[i].slot
        OBVIOUS
      <3>1. trail[i].src \in 1..m /\ trail[trail[i].src].slot = trail[i].slot
        BY <2>1 DEF Writes, Kept
      <3>2. trail'[i].src = trail[i].src /\ trail'[i].slot = trail[i].slot
        BY <2>1 DEF Kept
      <3>3. trail'[trail[i].src].slot = trail[trail[i].src].slot
        BY <3>1 DEF Kept
      <3> QED
        BY <3>1, <3>2, <3>3
    <2>4. trail'[i].src # NoId => Standing(i)'
      <3> SUFFICES ASSUME trail'[i].src # NoId PROVE Standing(i)'
        OBVIOUS
      <3>1. Standing(i) /\ trail'[i].status = "ACTIVE"
        BY <2>1, Zenon DEF Writes, Kept
      <3> QED
        BY <2>1, <3>1, Zenon DEF Standing, Kept
    <2> QED
      BY <2>2, <2>3, <2>4 DEF Writes
  <1> QED
    BY <1>1, <1>2

\* A record that its deadline or a refusal may mark does not stand.
LEMMA OthersStand ==
    ASSUME NEW m \in Nat, NEW p \in 1..m,
           \A i \in 1..m : i # p => trail'[i] = trail[i],
           ~Standing(p)
    PROVE  \A i \in 1..m : Standing(i) => trail'[i].status = "ACTIVE"
BY Zenon DEF Standing

LEMMA NextWrites == Inv /\ KernelWrites /\ [Next]_trail => KernelWrites'
  <1> SUFFICES ASSUME Inv, KernelWrites, [Next]_trail PROVE KernelWrites'
    OBVIOUS
  <1>0. PICK m \in Nat : m = Len(trail) /\ DOMAIN trail = 1..m /\ TypeOK
    BY LenProperties DEF Inv, TypeOK
  <1>1. ASSUME NEW d \in Drafts, Publish(d) PROVE KernelWrites'
    <2>1. /\ trail' \in Seq(Record) /\ Len(trail') = m + 1
          /\ \A i \in 1..m : trail'[i] = trail[i]
          /\ trail'[m + 1] = d /\ FreshRecord(d)
      BY <1>0, <1>1, PublishShape
    <2>2. d.role # "kernel" /\ d.src = NoId /\ ~(d.mode = "COMMIT" /\ d.slot = "beliefs")
      BY <1>1, <2>1 DEF FreshRecord, Publish, Permits, Permissions
    <2>3. DOMAIN trail' = 1..(m + 1)
      BY <2>1, LenProperties
    <2>4. Writes(m + 1)'
      BY <2>1, <2>2 DEF Writes
    <2>5. /\ \A i \in 1..m : Kept(trail[i], trail'[i])
          /\ \A i \in 1..m : Standing(i) => trail'[i].status = "ACTIVE"
      BY <2>1, Zenon DEF Kept, Standing
    <2>6. \A i \in (m + 1)..(m + 1) : i = m + 1
      BY <1>0
    <2> QED
      BY <1>0, <2>3, <2>4, <2>5, <2>6, WritesKept
  <1>2. ASSUME NEW p \in 1..m, trail' \in Seq(Record), Len(trail') = m,
               \A i \in 1..m : i # p => trail'[i] = trail[i],
               Kept(trail[p], trail'[p]), ~Standing(p)
        PROVE  KernelWrites'
    <2>1. DOMAIN trail' = 1..m
      BY <1>2, LenProperties
    <2>2. /\ \A i \in 1..m : Kept(trail[i], trail'[i])
          /\ \A i \in 1..m : Standing(i) => trail'[i].status = "ACTIVE"
      BY <1>0, <1>2, OthersStand, Zenon DEF Kept
    <2>3. m <= m /\ \A i \in (m + 1)..m : Writes(i)'
      BY <1>0
    <2> QED
      BY <1>0, <2>1, <2>2, <2>3, WritesKept, Zenon
  <1>3. ASSUME NEW p \in DOMAIN trail, Lapse(p) PROVE KernelWrites'
    <2>1. ~Standing(p)
      BY <1>3, Zenon DEF Lapse, Standing
    <2> QED
      BY <1>0, <1>2, <1>3, <2>1, LapseShape
  <1>4. ASSUME NEW p \in DOMAIN trail, Refuse(p) PROVE KernelWrites'
    <2>1. PICK why \in Refusals : trail' = Invalidate(trail, p, why)
      BY <1>4 DEF Refuse
    <2>2. ~Standing(p)
      BY <1>4 DEF Refuse, Open, Standing
    <2> QED
      BY <1>0, <1>2, <2>1, <2>2, SettleShape DEF Reasons
  <1>5. ASSUME NEW p \in DOMAIN trail, NEW trace \in Traces, NEW since \in 0..Len(trail),
               CommitOther(p, trace, since)
        PROVE  KernelWrites'
    <2> DEFINE c == CommittedFrom(trail, p, trace, NoId, since)
    <2>1. /\ trail' \in Seq(Record) /\ Len(trail') = m + 1
          /\ \A i \in 1..m : i # p => trail'[i] = trail[i]
          /\ Kept(trail[p], trail'[p]) /\ trail'[m + 1] = c
      BY <1>0, <1>5, CommitOtherShape
    <2>2. /\ c.role = "kernel" /\ c.src = p /\ c.mode = "COMMIT" /\ c.status = "ACTIVE"
          /\ c.ttl = FALSE /\ c.scope = "episode" /\ c.slot = trail[p].slot
      BY Zenon DEF CommittedFrom
    <2>3. ~Standing(p) /\ p \in 1..m
      BY <1>0, <1>5 DEF CommitOther, Open, Standing
    <2> HIDE DEF c
    <2>4. DOMAIN trail' = 1..(m + 1)
      BY <2>1, LenProperties
    <2>5. /\ \A i \in 1..m : Kept(trail[i], trail'[i])
          /\ \A i \in 1..m : Standing(i) => trail'[i].status = "ACTIVE"
      BY <1>0, <2>1, <2>3, OthersStand, Zenon DEF Kept
    <2>6. Standing(m + 1)'
      BY <2>1, <2>2, Zenon DEF Standing
    <2>7. Writes(m + 1)'
      BY <1>0, <2>1, <2>2, <2>3, <2>4, <2>5, <2>6 DEF Writes, Kept
    <2>8. \A i \in (m + 1)..(m + 1) : i = m + 1
      BY <1>0
    <2> QED
      BY <1>0, <2>4, <2>5, <2>7, <2>8, WritesKept
  <1>6. ASSUME NEW p \in DOMAIN trail, NEW trace \in Traces, NEW voucher \in Vouchers,
               NEW since \in 0..Len(trail), CommitBelief(p, trace, voucher, since)
        PROVE  KernelWrites'
    <2> DEFINE e == EvidenceFor(trail, p, trace, voucher, since)
               c == CommittedFrom(trail, p, trace, Len(trail) + 1, since)
    <2>1. /\ trail' \in Seq(Record) /\ Len(trail') = m + 2
          /\ \A i \in 1..m : i # p => trail'[i] = trail[i]
          /\ Kept(trail[p], trail'[p]) /\ trail'[m + 1] = e /\ trail'[m + 2] = c
      BY <1>0, <1>6, CommitBeliefShape, Zenon
    <2>2. /\ c.role = "kernel" /\ c.src = p /\ c.mode = "COMMIT" /\ c.status = "ACTIVE"
          /\ c.ttl = FALSE /\ c.scope = "episode" /\ c.slot = trail[p].slot
          /\ e.role # "kernel" /\ e.slot # "beliefs" /\ e.mode = "COMMIT"
          /\ e.status = "ACTIVE" /\ e.ttl = FALSE /\ e.scope = "episode"
      BY DEF CommittedFrom, EvidenceFor
    <2>3. ~Standing(p) /\ p \in 1..m
      BY <1>0, <1>6 DEF CommitBelief, Open, Standing
    <2> HIDE DEF e, c
    <2>4. DOMAIN trail' = 1..(m + 2)
      BY <2>1, LenProperties
    <2>5. /\ \A i \in 1..m : Kept(trail[i], trail'[i])
          /\ \A i \in 1..m : Standing(i) => trail'[i].status = "ACTIVE"
      BY <1>0, <2>1, <2>3, OthersStand, Zenon DEF Kept
    <2>6. Standing(m + 1)' /\ Standing(m + 2)'
      BY <2>1, <2>2, Zenon DEF Standing
    <2>7. Writes(m + 1)'
      BY <2>1, <2>2, <2>6 DEF Writes
    <2>8. Writes(m + 2)'
      BY <1>0, <2>1, <2>2, <2>3, <2>4, <2>5, <2>6 DEF Writes, Kept
    <2>9. \A i \in (m + 1)..(m + 2) : i = m + 1 \/ i = m + 2
      BY <1>0
    <2> QED
      BY <1>0, <2>4, <2>5, <2>7, <2>8, <2>9, WritesKept
  <1>7. CASE UNCHANGED trail
    BY <1>7 DEF KernelWrites, Writes, Standing
  <1> QED
    BY <1>0, <1>1, <1>3, <1>4, <1>5, <1>6, <1>7 DEF Next, Land

-----------------------------------------------------------------------------
\* Whatever happens elsewhere, a record keeps all but its status and reason, and
\* one that is ACTIVE was.
LEMMA StepKeeps ==
    ASSUME Inv, [Next]_trail
    PROVE  \E m \in Nat, n \in Nat :
             /\ m <= n /\ m = Len(trail) /\ n = Len(trail')
             /\ DOMAIN trail = 1..m /\ DOMAIN trail' = 1..n
             /\ \A i \in 1..m :
                  /\ Kept(trail[i], trail'[i])
                  /\ trail'[i].status = "ACTIVE" => trail[i].status = "ACTIVE"
  <1>1. trail \in Seq(Record) /\ trail' \in Seq(Record)
    <2>1. Inv'
      BY NextInv
    <2> QED
      BY <2>1 DEF Inv, TypeOK
  <1>2. PICK m \in Nat : m = Len(trail) /\ DOMAIN trail = 1..m
    BY <1>1, LenProperties
  <1>3. PICK n \in Nat : n = Len(trail') /\ DOMAIN trail' = 1..n
    BY <1>1, LenProperties
  <1>4. [SettledStep]_trail
    BY NextSettles
  <1>5. CASE SettledStep
    <2>1. m <= n
      BY <1>2, <1>3, <1>5 DEF SettledStep
    <2>2. ASSUME NEW i \in 1..m PROVE Kept(trail[i], trail'[i])
      <3>1. i \in 1..n
        BY <1>2, <1>3, <2>1
      <3>2. trail[i] \in Record /\ trail'[i] \in Record
        BY <1>1, <1>2, <1>3, <2>2, <3>1, ElementOfSeq
      <3>3. [trail'[i] EXCEPT !.status = "ACTIVE", !.reason = "none"]
              = [trail[i] EXCEPT !.status = "ACTIVE", !.reason = "none"]
        BY <1>2, <1>5, <2>2 DEF SettledStep
      <3> DEFINE r == trail[i]
                 s == trail'[i]
      <3>4. r \in Record /\ s \in Record
            /\ [s EXCEPT !.status = "ACTIVE", !.reason = "none"]
                 = [r EXCEPT !.status = "ACTIVE", !.reason = "none"]
        BY <3>2, <3>3
      <3> HIDE DEF r, s
      <3>5. Kept(r, s)
        BY <3>4 DEF Kept, Record, RecordWith
      <3> QED
        BY <3>5 DEF r, s
    <2>3. \A i \in 1..m : trail'[i].status = "ACTIVE" => trail[i].status = "ACTIVE"
      BY <1>2, <1>5 DEF SettledStep
    <2> QED
      BY <1>2, <1>3, <2>1, <2>2, <2>3
  <1>6. CASE UNCHANGED trail
    <2>1. m = n /\ trail' = trail /\ m <= n
      BY <1>2, <1>3, <1>6
    <2>2. \A i \in 1..m : Kept(trail[i], trail'[i])
      BY <2>1, Zenon DEF Kept
    <2> QED
      BY <1>2, <1>3, <2>1, <2>2
  <1> QED
    BY <1>4, <1>5, <1>6

\* Nothing that happens on the board disturbs a view.
LEMMA BoardMoves ==
    ASSUME Inv, ViewInv, [Next]_trail, UNCHANGED <<live, callVars>>,
           touched \subseteq touched', MarkedIsOpen'
    PROVE  ViewInv'
  <1>1. PICK m \in Nat, n \in Nat :
             /\ m <= n /\ m = Len(trail) /\ n = Len(trail')
             /\ DOMAIN trail = 1..m /\ DOMAIN trail' = 1..n
             /\ \A i \in 1..m :
                  /\ Kept(trail[i], trail'[i])
                  /\ trail'[i].status = "ACTIVE" => trail[i].status = "ACTIVE"
    BY StepKeeps
  <1>2. /\ asked' = asked /\ listed' = listed /\ seen' = seen /\ began' = began
        /\ untested' = untested /\ live' = live
        /\ ListedSlots' = ListedSlots /\ Sure' = Sure
    BY DEF callVars, ListedSlots, Sure
  <1>3. KernelWrites'
    BY NextWrites DEF ViewInv
  <1>4. /\ seen \subseteq 1..m /\ began \in 0..m /\ asked \in ViewCalls /\ listed \in 0..7
        /\ live \in BOOLEAN /\ untested \subseteq 1..m
    BY <1>1 DEF ViewInv, ViewTypeOK, UntestedAreListed
  <1>5. ViewTypeOK'
    <2>1. seen \subseteq 1..n /\ began \in 0..n
      BY <1>1, <1>4
    <2> QED
      BY <1>1, <1>2, <1>4, <2>1 DEF ViewTypeOK
  <1>6. UntestedAreListed'
    <2>1. untested \subseteq 1..n
      BY <1>1, <1>4
    <2>2. SlotsInOrder[listed]' = SlotsInOrder[listed]
      BY <1>2 DEF SlotsInOrder
    <2> QED
      BY <1>1, <1>2, <1>4, <2>1, <2>2 DEF ViewInv, UntestedAreListed, Kept
  <1>7. \A i \in 1..m : Wanted(i)' <=> Wanted(i)
    BY <1>1, <1>2 DEF Wanted, Visible, Kept
  <1>8. SeenAreWanted'
    BY <1>1, <1>2, <1>4, <1>7 DEF ViewInv, SeenAreWanted, Kept
  <1>9. StandingAreSeen'
    <2>1. 1..began \subseteq 1..m
      BY <1>4
    <2> QED
      BY <1>1, <1>2, <1>7, <2>1 DEF ViewInv, StandingAreSeen, Kept
  <1>10. EvidenceIsSeen'
    BY <1>1, <1>2, <1>4 DEF ViewInv, EvidenceIsSeen, Kept
  <1>11. SureAreOpen'
    <2>1. \A p : CommitsOf(p)' \cap (seen \cup untested) = CommitsOf(p) \cap (seen \cup untested)
      BY <1>1, <1>4 DEF CommitsOf, Kept
    <2>2. Sure \subseteq 1..m
      BY <1>4 DEF Sure
    <2> QED
      BY <1>1, <1>2, <2>1, <2>2 DEF ViewInv, SureAreOpen, Kept
  <1> QED
    BY <1>3, <1>5, <1>6, <1>8, <1>9, <1>10, <1>11 DEF ViewInv

\* A slot is listed once.
LEMMA SlotsDiffer ==
    ASSUME NEW m \in 1..7, NEW n \in 1..7, SlotsInOrder[m] = SlotsInOrder[n]
    PROVE  m = n
BY DEF SlotsInOrder

LEMMA SlotsListed ==
    ASSUME listed \in 0..7
    PROVE  /\ Len(SlotsInOrder) = 7
           /\ "evidence" \in ListedSlots <=> listed >= 5
           /\ "beliefs" \in ListedSlots <=> listed >= 2
           /\ listed = 0 => ListedSlots = {}
           /\ listed = 7 => ListedSlots = Slots
  <1>1. SlotsInOrder[2] = "beliefs" /\ SlotsInOrder[5] = "evidence"
    BY DEF SlotsInOrder
  <1>2. "evidence" \in ListedSlots <=> listed >= 5
    BY <1>1, SlotsDiffer DEF ListedSlots
  <1>3. "beliefs" \in ListedSlots <=> listed >= 2
    BY <1>1, SlotsDiffer DEF ListedSlots
  <1>4. Len(SlotsInOrder) = 7
    BY DEF SlotsInOrder
  <1>5. ASSUME listed = 7 PROVE ListedSlots = Slots
    <2>1. ListedSlots = {SlotsInOrder[n] : n \in 1..7}
      BY <1>5 DEF ListedSlots
    <2>2. 1..7 = {1, 2, 3, 4, 5, 6, 7}
      OBVIOUS
    <2> QED
      BY <2>1, <2>2 DEF SlotsInOrder, Slots
  <1>6. listed = 0 => ListedSlots = {}
    BY DEF ListedSlots
  <1> QED
    BY <1>2, <1>3, <1>4, <1>5, <1>6

\* A call begins with an empty view.
LEMMA TakeViewInv ==
    ASSUME Inv, ViewInv, NEW arguments \in ViewCalls, TakeView(arguments)
    PROVE  ViewInv'
  <1>1. /\ trail' = trail /\ asked' = arguments /\ listed' = 0 /\ seen' = {}
        /\ began' = Len(trail) /\ live' = live /\ marked' = marked
        /\ untested' = {} /\ touched' = {marked} \ {NoId}
    BY DEF TakeView, Taken
  <1>2. Len(trail) \in Nat /\ listed' \in 0..7
    BY <1>1, LenProperties DEF Inv, TypeOK
  <1>3. KernelWrites'
    BY <1>1, NextWrites DEF ViewInv
  <1>4. ViewTypeOK' /\ UntestedAreListed'
    BY <1>1, <1>2 DEF ViewInv, ViewTypeOK, UntestedAreListed
  <1>5. MarkedIsOpen'
    BY <1>1 DEF ViewInv, MarkedIsOpen, Open
  <1>6. SeenAreWanted' /\ SureAreOpen'
    BY <1>1 DEF SeenAreWanted, SureAreOpen, Sure
  <1>7. ListedSlots' = {}
    BY <1>1 DEF ListedSlots
  <1>8. StandingAreSeen' /\ EvidenceIsSeen'
    BY <1>7 DEF StandingAreSeen, EvidenceIsSeen
  <1> QED
    BY <1>3, <1>4, <1>5, <1>6, <1>8 DEF ViewInv

\* The belief a view shows has ACTIVE evidence that the view may show.
LEMMA EvidenceStands ==
    ASSUME Inv, KernelWrites, NEW b \in DOMAIN trail, Wanted(b),
           trail[b].mode = "COMMIT", trail[b].slot = "beliefs"
    PROVE  LET e == trail[b].evid
           IN  /\ e \in DOMAIN trail /\ trail[e].slot = "evidence"
               /\ trail[e].kind = ValidationOf(trail[b].kind)
               /\ trail[e].mode = "COMMIT" /\ trail[e].status = "ACTIVE" /\ Wanted(e)
  <1> DEFINE e == trail[b].evid
  <1>1. trail[b].role = "kernel"
    BY DEF KernelWrites, Writes
  <1>2. BeliefCites(b)
    BY <1>1 DEF Inv, EvidenceVouches
  <1>3. trail[b].src # NoId
    BY <1>1, EarlierSource, LenProperties DEF KernelWrites, Writes, NoId, Inv, TypeOK
  <1>4. /\ e \in DOMAIN trail /\ trail[e].slot = "evidence"
        /\ trail[e].kind = ValidationOf(trail[b].kind)
        /\ trail[e].src # NoId /\ trail[e].trace = trail[b].trace
    BY <1>2, <1>3 DEF BeliefCites
  <1> HIDE DEF e
  <1>5. Standing(b) /\ Standing(e)
    BY <1>3, <1>4, Zenon DEF KernelWrites, Writes
  <1>6. trail[b].trace = asked.trace
    BY <1>5 DEF Standing, Wanted, Visible
  <1> QED
    BY <1>4, <1>5, <1>6, Zenon DEF Standing, Wanted, Visible, e

\* The next slot joins the records of the loop.
LEMMA ListNextInv ==
    ASSUME Inv, ViewInv, ListNext
    PROVE  ViewInv'
  <1>1. PICK m \in Nat : m = Len(trail) /\ DOMAIN trail = 1..m
    BY LenProperties DEF Inv, TypeOK
  <1>2. /\ seen \subseteq 1..m /\ began \in 0..m /\ asked \in ViewCalls /\ listed \in 0..7
        /\ live \in BOOLEAN /\ Len(SlotsInOrder) = 7
    BY <1>1, SlotsListed DEF ViewInv, ViewTypeOK
  <1>3. PICK k \in 1..7 : listed + 1 = k
    BY <1>2 DEF ListNext
  <1>4. PICK slot : slot = SlotsInOrder[k]
    OBVIOUS
  <1>5. PICK new : new = {i \in 1..m : trail[i].slot = slot /\ (live \/ Active(trail, i))}
    OBVIOUS
  <1>6. /\ trail' = trail /\ asked' = asked /\ began' = began /\ listed' = k
        /\ seen' = seen /\ live' = live /\ marked' = marked /\ touched' = touched
        /\ untested = {} /\ untested' = new
    BY <1>1, <1>3, <1>4, <1>5 DEF ListNext
  <1>7. \A i : i \in new <=> /\ i \in 1..m /\ trail[i].slot = slot
                             /\ live \/ trail[i].status = "ACTIVE"
    BY <1>5 DEF Active
  <1>8. slot \notin ListedSlots
    <2>1. \A n \in 1..listed : n \in 1..7 /\ n # k
      BY <1>2, <1>3
    <2> QED
      BY <1>4, <2>1, SlotsDiffer DEF ListedSlots
  <1>9. ListedSlots' = ListedSlots \cup {slot}
    <2>1. ListedSlots' = {SlotsInOrder[n] : n \in 1..k}
      BY <1>6 DEF ListedSlots
    <2>2. 1..k = 1..listed \cup {k}
      BY <1>2, <1>3
    <2> QED
      BY <1>4, <2>1, <2>2 DEF ListedSlots
  <1>10. \A i : Wanted(i)' <=> Wanted(i)
    BY <1>6 DEF Wanted
  <1>11. KernelWrites'
    BY <1>6, NextWrites DEF ViewInv
  <1>12. ViewTypeOK'
    <2>0. k \in 0..7
      OBVIOUS
    <2>1. DOMAIN trail' = 1..m /\ Len(trail') = m
      BY <1>1, <1>6
    <2> QED
      BY <1>2, <1>6, <2>0, <2>1 DEF ViewTypeOK
  <1>13. UntestedAreListed'
    <2>1. k # 0 /\ new \subseteq 1..m
      BY <1>7
    <2>2. \A i \in new : trail[i].slot = SlotsInOrder[k]
      BY <1>4, <1>7
    <2> QED
      BY <1>1, <1>6, <2>1, <2>2 DEF UntestedAreListed
  <1>14. MarkedIsOpen'
    <2>1. ~Taken
      BY <1>2, <1>3 DEF Taken
    <2> QED
      BY <1>6, <2>1 DEF ViewInv, MarkedIsOpen, Open
  <1>15. SeenAreWanted'
    BY <1>6, <1>9, <1>10 DEF ViewInv, SeenAreWanted
  <1>16. StandingAreSeen'
    <2>1. 1..began \subseteq 1..m
      BY <1>2
    <2> QED
      BY <1>6, <1>7, <1>9, <1>10, <2>1 DEF ViewInv, StandingAreSeen
  <1>17. EvidenceIsSeen'
    <2> SUFFICES ASSUME "evidence" \in ListedSlots', NEW b \in seen,
                        trail[b].mode = "COMMIT", trail[b].slot = "beliefs"
                 PROVE  trail[b].evid \in seen \cup new
      BY <1>6 DEF EvidenceIsSeen
    <2>1. b \in 1..m /\ Wanted(b)
      BY <1>2 DEF ViewInv, SeenAreWanted
    <2>2. CASE "evidence" \in ListedSlots
      BY <1>6, <2>2 DEF ViewInv, EvidenceIsSeen
    <2>3. CASE slot = "evidence"
      BY <1>1, <1>7, <2>1, <2>3, EvidenceStands DEF ViewInv
    <2> QED
      BY <1>9, <2>2, <2>3
  <1>18. SureAreOpen'
    <2> SUFFICES ASSUME NEW p \in Sure', trail[p].mode = "PROPOSE",
                        NEW c \in seen \cup new, c \in CommitsOf(p)
                 PROVE  FALSE
      BY <1>6, Zenon DEF SureAreOpen, CommitsOf
    <2>1. /\ c \in 1..m /\ trail[c].role = "kernel" /\ trail[c].src = p
          /\ p \in 1..m /\ trail[p].slot = trail[c].slot
      BY <1>1 DEF CommitsOf, ViewInv, KernelWrites, Writes
    <2>2. trail[p].status = "INVALIDATED"
      BY <1>1, <2>1 DEF Inv, VerdictsAgree
    <2>3. p \in seen \/ (p \in new /\ ~live)
      BY <1>6 DEF Sure
    <2>4. CASE p \in new /\ ~live
      BY <1>7, <2>2, <2>4
    <2>5. CASE p \in seen /\ c \in new
      BY <1>7, <1>8, <2>1, <2>5 DEF ViewInv, SeenAreWanted
    <2>6. CASE p \in seen /\ c \in seen
      BY <2>6 DEF ViewInv, SureAreOpen, Sure
    <2> QED
      BY <2>3, <2>4, <2>5, <2>6
  <1> QED
    BY <1>11, <1>12, <1>13, <1>14, <1>15, <1>16, <1>17, <1>18 DEF ViewInv

\* A record is tested: it joins the view or leaves the loop.
LEMMA TestNextInv ==
    ASSUME Inv, ViewInv, TestNext
    PROVE  ViewInv'
  <1>1. PICK m \in Nat : m = Len(trail) /\ DOMAIN trail = 1..m
    BY LenProperties DEF Inv, TypeOK
  <1>2. PICK i \in untested : /\ untested' = untested \ {i}
                              /\ seen' = seen \cup {j \in {i} : Passes(j)}
                              /\ UNCHANGED <<trail, live, marked, asked, listed, began, touched>>
    BY DEF TestNext
  <1>3. /\ trail' = trail /\ asked' = asked /\ began' = began /\ listed' = listed
        /\ live' = live /\ marked' = marked /\ touched' = touched
        /\ seen \subseteq seen' /\ seen' \subseteq seen \cup {i}
        /\ seen' \cup untested' \subseteq seen \cup untested
    BY <1>2
  <1>4. /\ untested \subseteq 1..m /\ i \in 1..m /\ listed \in 1..7
        /\ trail[i].slot = SlotsInOrder[listed]
        /\ seen \subseteq 1..m /\ live \in BOOLEAN /\ began \in 0..m
    BY <1>1 DEF ViewInv, ViewTypeOK, UntestedAreListed
  <1>5. trail[i].slot \in ListedSlots
    BY <1>4 DEF ListedSlots
  <1>6. ListedSlots' = ListedSlots /\ \A j : Wanted(j)' <=> Wanted(j)
    BY <1>3 DEF ListedSlots, Wanted
  <1>7. Passes(i) <=> /\ Wanted(i)
                      /\ live => trail[i].status = "ACTIVE" /\ i # marked
    BY DEF Passes, Wanted, Active
  <1>8. ~Taken
    BY DEF Taken
  <1>9. marked # NoId => trail[marked].mode = "PROPOSE" /\ marked \in touched
    BY <1>8 DEF ViewInv, MarkedIsOpen, Open
  <1>10. KernelWrites'
    BY <1>3, NextWrites DEF ViewInv
  <1>11. ViewTypeOK'
    BY <1>1, <1>3, <1>4 DEF ViewInv, ViewTypeOK
  <1>12. UntestedAreListed'
    BY <1>2, <1>3 DEF ViewInv, UntestedAreListed
  <1>13. MarkedIsOpen'
    BY <1>3, <1>8 DEF ViewInv, MarkedIsOpen, Open
  <1>14. SeenAreWanted'
    <2> SUFFICES ASSUME NEW j \in seen' PROVE trail[j].slot \in ListedSlots /\ Wanted(j)
      BY <1>3, <1>6 DEF SeenAreWanted
    <2>1. CASE j \in seen
      BY <2>1 DEF ViewInv, SeenAreWanted
    <2>2. CASE j = i /\ Passes(i)
      BY <1>5, <1>7, <2>2
    <2> QED
      BY <1>2, <2>1, <2>2
  <1>15. StandingAreSeen'
    <2> SUFFICES ASSUME NEW j \in 1..began, trail[j].status = "ACTIVE",
                        trail[j].slot \in ListedSlots, Wanted(j)
                 PROVE  \/ j \in seen' \cup untested'
                        \/ live /\ trail[j].mode = "PROPOSE" /\ j \in touched
      BY <1>3, <1>6 DEF StandingAreSeen
    <2>1. \/ j \in seen \cup untested
          \/ live /\ trail[j].mode = "PROPOSE" /\ j \in touched
      BY DEF ViewInv, StandingAreSeen
    <2>2. CASE j = i
      <3>1. CASE Passes(i)
        BY <1>2, <2>2, <3>1
      <3>2. CASE ~Passes(i)
        <4>1. live /\ i = marked
          BY <1>7, <2>2, <3>2
        <4>2. i # NoId
          BY <1>4 DEF NoId
        <4> QED
          BY <1>9, <2>2, <4>1, <4>2
      <3> QED
        BY <3>1, <3>2
    <2>3. CASE j # i
      BY <1>2, <2>1, <2>3
    <2> QED
      BY <2>2, <2>3
  <1>16. EvidenceIsSeen'
    <2> SUFFICES ASSUME "evidence" \in ListedSlots, NEW b \in seen',
                        trail[b].mode = "COMMIT", trail[b].slot = "beliefs"
                 PROVE  trail[b].evid \in seen' \cup untested'
      BY <1>3, <1>6 DEF EvidenceIsSeen
    <2>1. b \in seen
      <3>1. listed >= 5 /\ listed \in 0..7
        BY <1>4, SlotsListed
      <3>2. SlotsInOrder[2] = "beliefs" /\ listed # 2
        BY <3>1 DEF SlotsInOrder
      <3>3. trail[i].slot # "beliefs"
        BY <1>4, <3>2, SlotsDiffer
      <3> QED
        BY <1>2, <3>3
    <2>2. PICK e : e = trail[b].evid
      OBVIOUS
    <2>3. e \in seen \cup untested
      BY <2>1, <2>2 DEF ViewInv, EvidenceIsSeen
    <2>4. CASE e = i
      <3>1. b \in 1..m /\ Wanted(b)
        BY <1>4, <2>1 DEF ViewInv, SeenAreWanted
      <3>2. trail[e].mode = "COMMIT" /\ trail[e].status = "ACTIVE" /\ Wanted(e)
        BY <1>1, <2>2, <3>1, EvidenceStands DEF ViewInv
      <3>3. i # marked
        <4>1. i # NoId
          BY <1>4 DEF NoId
        <4> QED
          BY <1>9, <2>4, <3>2, <4>1
      <3>4. Passes(i)
        BY <1>7, <2>4, <3>2, <3>3
      <3> QED
        BY <1>2, <2>2, <2>4, <3>4
    <2>5. CASE e # i
      BY <1>2, <2>2, <2>3, <2>5
    <2> QED
      BY <2>4, <2>5
  <1>17. SureAreOpen'
    <2> SUFFICES ASSUME NEW p \in Sure', trail[p].mode = "PROPOSE",
                        NEW c \in seen \cup untested, c \in CommitsOf(p)
                 PROVE  FALSE
      BY <1>3, Zenon DEF SureAreOpen, CommitsOf
    <2>1. CASE p \in Sure
      BY <2>1 DEF ViewInv, SureAreOpen
    <2>2. CASE p = i /\ live /\ Passes(i)
      <3>1. trail[p].status = "ACTIVE"
        BY <1>7, <2>2
      <3>2. trail[p].status = "INVALIDATED"
        BY <1>1, <1>4, <2>2 DEF Inv, VerdictsAgree
      <3> QED
        BY <3>1, <3>2
    <2>3. p \in Sure \/ (p = i /\ live /\ Passes(i))
      BY <1>2, <1>3 DEF Sure
    <2> QED
      BY <2>1, <2>2, <2>3
  <1> QED
    BY <1>10, <1>11, <1>12, <1>13, <1>14, <1>15, <1>16, <1>17 DEF ViewInv

\* A commit marks its proposal; the board is not yet changed.
LEMMA MarkInv ==
    ASSUME Inv, ViewInv, NEW p \in DOMAIN trail, Mark(p)
    PROVE  ViewInv'
  <1>1. /\ trail' = trail /\ UNCHANGED <<live, callVars>> /\ touched \subseteq touched'
        /\ marked' = p /\ Open(p) /\ (Taken \/ p \in touched')
    BY DEF Mark
  <1>2. Taken' <=> Taken
    BY <1>1 DEF Taken, callVars
  <1>3. MarkedIsOpen'
    BY <1>1, <1>2 DEF MarkedIsOpen, Open
  <1> QED
    BY <1>1, <1>3, BoardMoves

\* What lands is a step of the trail.
LEMMA LandedIsNext == ViewInv /\ LandMarked => Next
BY DEF ViewInv, MarkedIsOpen, LandMarked, Next

LEMMA ElsewhereIsNext == Elsewhere => Next
BY DEF Elsewhere, Next

-----------------------------------------------------------------------------
LEMMA ViewInitInv == ViewInit => Inv /\ ViewInv
  <1> SUFFICES ASSUME ViewInit PROVE Inv /\ ViewInv
    OBVIOUS
  <1>1. /\ trail = << >> /\ listed = 0 /\ seen = {} /\ began = 0 /\ asked \in ViewCalls
        /\ live \in BOOLEAN /\ marked = NoId /\ untested = {}
    BY DEF ViewInit, Init
  <1>2. Inv
    BY InitInv DEF ViewInit
  <1>3. DOMAIN trail = {} /\ Len(trail) = 0
    BY <1>1
  <1>4. ListedSlots = {}
    BY <1>1 DEF ListedSlots
  <1>5. KernelWrites /\ ViewTypeOK
    <2>1. KernelWrites
      BY <1>3, Zenon DEF KernelWrites
    <2>2. listed \in 0..7 /\ began \in 0..0
      BY <1>1
    <2> QED
      BY <1>1, <1>3, <2>1, <2>2 DEF ViewTypeOK
  <1>6. SeenAreWanted /\ SureAreOpen /\ UntestedAreListed /\ MarkedIsOpen
    BY <1>1 DEF SeenAreWanted, SureAreOpen, Sure, UntestedAreListed, MarkedIsOpen
  <1>7. StandingAreSeen /\ EvidenceIsSeen
    BY <1>4 DEF StandingAreSeen, EvidenceIsSeen
  <1> QED
    BY <1>2, <1>5, <1>6, <1>7 DEF ViewInv

LEMMA ViewNextInv == Inv /\ ViewInv /\ [ViewNext]_<<trail, viewVars>> => Inv' /\ ViewInv'
  <1> SUFFICES ASSUME Inv, ViewInv, [ViewNext]_<<trail, viewVars>> PROVE Inv' /\ ViewInv'
    OBVIOUS
  <1>1. ASSUME NEW arguments \in ViewCalls, TakeView(arguments) PROVE Inv' /\ ViewInv'
    <2>1. UNCHANGED trail
      BY <1>1 DEF TakeView
    <2> QED
      BY <1>1, <2>1, NextInv, TakeViewInv
  <1>2. CASE ListNext
    <2>1. UNCHANGED trail
      BY <1>2 DEF ListNext
    <2> QED
      BY <1>2, <2>1, NextInv, ListNextInv
  <1>3. CASE TestNext
    <2>1. UNCHANGED trail
      BY <1>3 DEF TestNext
    <2> QED
      BY <1>3, <2>1, NextInv, TestNextInv
  <1>4. ASSUME NEW p \in DOMAIN trail, Mark(p) PROVE Inv' /\ ViewInv'
    <2>1. UNCHANGED trail
      BY <1>4 DEF Mark
    <2> QED
      BY <1>4, <2>1, NextInv, MarkInv
  <1>5. CASE LandMarked
    <2>1. MarkedIsOpen' /\ UNCHANGED <<live, callVars, touched>>
      BY <1>5 DEF LandMarked, MarkedIsOpen
    <2> QED
      BY <1>5, <2>1, LandedIsNext, NextInv, BoardMoves
  <1>6. CASE Undo
    <2>1. MarkedIsOpen' /\ UNCHANGED <<trail, live, callVars, touched>>
      BY <1>6 DEF Undo, MarkedIsOpen
    <2> QED
      BY <2>1, NextInv, BoardMoves
  <1>7. CASE Elsewhere
    <2>1. MarkedIsOpen' /\ UNCHANGED <<live, callVars, touched>>
      BY <1>7 DEF Elsewhere, MarkedIsOpen, viewVars
    <2> QED
      BY <1>7, <2>1, ElsewhereIsNext, NextInv, BoardMoves
  <1>8. CASE UNCHANGED <<trail, viewVars>>
    <2>1. UNCHANGED <<trail, live, callVars, touched, marked>>
      BY <1>8 DEF viewVars
    <2>2. MarkedIsOpen'
      BY <2>1 DEF ViewInv, MarkedIsOpen, Open, Taken, callVars
    <2> QED
      BY <2>1, <2>2, NextInv, BoardMoves
  <1> QED
    BY <1>1, <1>2, <1>3, <1>4, <1>5, <1>6, <1>7, <1>8 DEF ViewNext

\* The trail's invariant and the view's hold throughout.
THEOREM ViewInvariant == ViewSpec => [](Inv /\ ViewInv)
BY ViewInitInv, ViewNextInv, PTL DEF ViewSpec

\* A view that is complete shows with every belief the evidence it was committed
\* with, at least as recent under the key the evidence has.
THEOREM ViewBeliefsShownWithEvidence == ViewSpec => []BeliefsShownWithEvidence
  <1>1. Inv /\ ViewInv => BeliefsShownWithEvidence
    <2> SUFFICES ASSUME Inv, ViewInv, Taken, NEW kind \in Kinds,
                        NEW b, b = Held(trail, seen, "beliefs", kind), b # NoId
                 PROVE  /\ trail[b].evid \in seen
                        /\ Held(trail, seen, "evidence", ValidationOf(kind)) >= trail[b].evid
      BY Zenon DEF BeliefsShownWithEvidence
    <2>1. PICK m \in Nat : m = Len(trail) /\ DOMAIN trail = 1..m
      BY LenProperties DEF Inv, TypeOK
    <2>2. seen \subseteq 1..m /\ listed \in 0..7 /\ untested = {}
      BY <2>1 DEF ViewInv, ViewTypeOK, Taken
    <2>3. "evidence" \in ListedSlots
      BY <2>2, SlotsListed DEF Taken
    <2>4. b \in seen /\ trail[b].mode = "COMMIT" /\ trail[b].slot = "beliefs"
          /\ trail[b].kind = kind
      <3> DEFINE writers == {i \in Committed(trail, seen, "beliefs") : trail[i].kind = kind}
      <3>1. writers # {} /\ b = Max(writers)
        BY DEF Held
      <3>2. writers \subseteq 1..m
        BY <2>2 DEF Committed
      <3>3. b \in writers
        <4> HIDE DEF writers
        <4> QED
          BY <3>1, <3>2, MaxIsMember
      <3> QED
        BY <3>3 DEF Committed
    <2>5. PICK e : e = trail[b].evid
      OBVIOUS
    <2>6. e \in seen
      BY <2>2, <2>3, <2>4, <2>5 DEF ViewInv, EvidenceIsSeen
    <2>7. trail[e].slot = "evidence" /\ trail[e].kind = ValidationOf(kind)
          /\ trail[e].mode = "COMMIT"
      BY <2>1, <2>2, <2>4, <2>5, EvidenceStands DEF ViewInv, SeenAreWanted
    <2>8. Held(trail, seen, "evidence", ValidationOf(kind)) >= e
      <3> DEFINE writers == {i \in Committed(trail, seen, "evidence") :
                               trail[i].kind = ValidationOf(kind)}
      <3>1. e \in writers /\ writers \subseteq 1..m
        BY <2>2, <2>6, <2>7 DEF Committed
      <3>2. Held(trail, seen, "evidence", ValidationOf(kind)) = Max(writers)
        BY <3>1 DEF Held
      <3> HIDE DEF writers
      <3>3. Max(writers) \in writers /\ \A y \in writers : y <= Max(writers)
        BY <3>1, MaxIsMember
      <3> QED
        BY <3>1, <3>2, <3>3
    <2> QED
      BY <2>5, <2>6, <2>8
  <1> QED
    BY <1>1, ViewInvariant, PTL

\* A proposal and the commit that settled it are never both in a view.
THEOREM ViewProposalsShownAreOpen == ViewSpec => []ProposalsShownAreOpen
  <1>1. ViewInv => ProposalsShownAreOpen
    BY DEF ViewInv, SureAreOpen, Sure, ProposalsShownAreOpen
  <1> QED
    BY <1>1, ViewInvariant, PTL

\* A complete view has every record that stood from the beginning of the call, but
\* for proposals of a MemoryStore that a transaction had marked meanwhile.
THEOREM ViewNothingStandingMissed == ViewSpec => []NothingStandingMissed
  <1>1. Inv /\ ViewInv => NothingStandingMissed
    <2> SUFFICES ASSUME Inv, ViewInv, Taken, NEW i \in 1..began,
                        trail[i].status = "ACTIVE", Wanted(i)
                 PROVE  \/ i \in seen
                        \/ live /\ trail[i].mode = "PROPOSE" /\ i \in touched
      BY DEF NothingStandingMissed, Wanted, Visible
    <2>1. i \in DOMAIN trail
      BY LenProperties DEF Inv, TypeOK, ViewInv, ViewTypeOK
    <2>2. trail[i] \in Record
      BY <2>1, ElementOfSeq DEF Inv, TypeOK
    <2>3. trail[i].slot \in ListedSlots
      BY <2>2, SlotsListed DEF ViewInv, ViewTypeOK, Taken, Record, RecordWith
    <2>4. untested = {}
      BY DEF Taken
    <2> QED
      BY <2>3, <2>4 DEF ViewInv, StandingAreSeen
  <1> QED
    BY <1>1, ViewInvariant, PTL
=============================================================================
