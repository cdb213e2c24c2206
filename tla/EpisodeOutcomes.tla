---------------------------- MODULE EpisodeOutcomes ----------------------------
(***************************************************************************)
(* Proofs about how an episode of the demo ends when no store call fails:  *)
(* the run stops because nobody has anything left to do on the board as it *)
(* is, and its reading alone has decided what it came to, whatever the     *)
(* readings, the constraints learned and the episodes before it.           *)
(***************************************************************************)
EXTENDS EpisodesProofs

-----------------------------------------------------------------------------
\* What a worker is shown, and what a step of another one leaves of it.

\* The view of the whole board.
Seen(rs, trace) == {i \in DOMAIN rs : Active(rs, i) /\ Visible(rs[i], trace, TRUE)}

LEMMA WholeIsSeen ==
    ASSUME NEW rs \in Seq(Record), NEW trace
    PROVE  UNION {Listed(rs, slot, trace, TRUE) : slot \in Slots} = Seen(rs, trace)
  <1> DEFINE whole == UNION {Listed(rs, slot, trace, TRUE) : slot \in Slots}
  <1>1. \A i \in DOMAIN rs : rs[i].slot \in Slots
    <2>1. \A i \in DOMAIN rs : rs[i] \in Record
      BY ElementOfSeq, LenProperties
    <2> QED
      BY <2>1 DEF Record, RecordWith
  <1>2. \A i : i \in whole <=> \E slot \in Slots : i \in Listed(rs, slot, trace, TRUE)
    OBVIOUS
  <1> HIDE DEF whole
  <1>3. \A i : i \in whole <=> i \in Seen(rs, trace)
    BY <1>1, <1>2 DEF Listed, Seen
  <1>4. whole = Seen(rs, trace)
    BY <1>3
  <1> QED
    BY <1>4 DEF whole

\* Between two boards, only records of these slots are added or settled.
Touches(rs, new, slots) ==
    /\ \A i \in 1..Len(rs) : new[i] = rs[i] \/ rs[i].slot \in slots
    /\ \A i \in (Len(rs) + 1)..Len(new) : new[i].slot \in slots

\* What is shown of the other slots stays.
LEMMA SeenElsewhere ==
    ASSUME NEW rs, NEW new, NEW trace, NEW slots, NEW slot, slot \notin slots,
           News(rs, new, trace), Touches(rs, new, slots)
    PROVE  /\ \A i : i \in Seen(new, trace) /\ new[i].slot = slot
                     <=> i \in Seen(rs, trace) /\ rs[i].slot = slot
           /\ \A i \in Seen(rs, trace) : rs[i].slot = slot => new[i] = rs[i]
  <1>1. PICK m \in Nat, n \in Nat :
            /\ m = Len(rs) /\ n = Len(new) /\ m <= n
            /\ DOMAIN rs = 1..m /\ DOMAIN new = 1..n
    BY LenProperties DEF News
  <1>2. \A i \in 1..m : i \in 1..n /\ new[i].slot = rs[i].slot /\ (new[i] = rs[i] \/ rs[i].slot \in slots)
    BY <1>1 DEF News, Kept, Touches
  <1>3. \A i \in 1..n : i \in 1..m \/ new[i].slot # slot
    BY <1>1 DEF Touches
  <1> QED
    BY <1>1, <1>2, <1>3 DEF Seen, Active

LEMMA HeldElsewhere ==
    ASSUME NEW rs, NEW new, NEW trace, NEW slots, NEW slot, slot \notin slots, NEW kind,
           News(rs, new, trace), Touches(rs, new, slots)
    PROVE  /\ Held(new, Seen(new, trace), slot, kind) = Held(rs, Seen(rs, trace), slot, kind)
           /\ (\E i \in Seen(new, trace) : new[i].slot = slot)
              <=> (\E i \in Seen(rs, trace) : rs[i].slot = slot)
  <1>1. /\ \A i : i \in Seen(new, trace) /\ new[i].slot = slot
                  <=> i \in Seen(rs, trace) /\ rs[i].slot = slot
        /\ \A i \in Seen(rs, trace) : rs[i].slot = slot => new[i] = rs[i]
    BY SeenElsewhere
  <1>2. {i \in Committed(new, Seen(new, trace), slot) : new[i].kind = kind}
        = {i \in Committed(rs, Seen(rs, trace), slot) : rs[i].kind = kind}
    BY <1>1 DEF Committed
  <1> QED
    BY <1>1, <1>2, Zenon DEF Held

\* A proposal written adds itself to what is shown, and one refused takes itself out.
LEMMA SeenWritten ==
    ASSUME NEW rs \in Seq(Record), NEW d \in Record, NEW trace, d.trace = trace, d.status = "ACTIVE"
    PROVE  LET new == Append(rs, d)
           IN  Seen(rs, trace) = Seen(new, trace) \ {Len(new)} /\ Touches(rs, new, {d.slot})
  <1>1. PICK new : new = Append(rs, d)
    OBVIOUS
  <1>2. PICK m \in Nat : /\ m = Len(rs) /\ DOMAIN rs = 1..m /\ Len(new) = m + 1
                         /\ \A k \in 1..m : new[k] = rs[k]
                         /\ new[m + 1] = d
                         /\ \A i \in (m + 1)..(m + 1) : i = m + 1
    BY <1>1, OneMore
  <1>3. DOMAIN new = 1..(m + 1) /\ (1..(m + 1)) \ {m + 1} = 1..m
    BY <1>1, <1>2, AppendProperties, LenProperties
  <1>4. Seen(rs, trace) = Seen(new, trace) \ {m + 1}
    BY <1>2, <1>3 DEF Seen, Active
  <1>5. Touches(rs, new, {d.slot})
    BY <1>2 DEF Touches
  <1> QED
    BY <1>1, <1>2, <1>4, <1>5

LEMMA SeenRefused ==
    ASSUME NEW rs \in Seq(Record), NEW p \in DOMAIN rs, NEW why \in Reasons, NEW trace
    PROVE  LET new == Invalidate(rs, p, why)
           IN  Seen(new, trace) = Seen(rs, trace) \ {p} /\ Touches(rs, new, {rs[p].slot})
  <1>1. PICK new : new = Invalidate(rs, p, why)
    OBVIOUS
  <1>2. /\ Len(new) = Len(rs) /\ DOMAIN new = DOMAIN rs /\ new[p].status = "INVALIDATED"
        /\ \A i \in DOMAIN rs : i # p => new[i] = rs[i]
    BY <1>1, InvalidateFacts
  <1>3. Seen(new, trace) = Seen(rs, trace) \ {p}
    BY <1>2 DEF Seen, Active
  <1>4. Len(rs) \in Nat /\ DOMAIN rs = 1..Len(rs)
    BY LenProperties
  <1>5. Touches(rs, new, {rs[p].slot})
    BY <1>2, <1>4 DEF Touches
  <1> QED
    BY <1>1, <1>3, <1>5

\* What a commit makes of the board: the proposal of call j is superseded by its last
\* record, with the proposal's payload; a belief's evidence comes before it.
LandsAs(rs, new, j) ==
    /\ Len(rs) < Len(new)
    /\ new[j.prop].status = "INVALIDATED"
    /\ \A i \in 1..Len(rs) : i # j.prop => new[i] = rs[i]
    /\ LET c == new[Len(new)]
       IN  /\ c.slot = rs[j.prop].slot /\ c.kind = rs[j.prop].kind /\ c.body = rs[j.prop].body
           /\ c.trace = j.trace /\ c.mode = "COMMIT" /\ c.status = "ACTIVE"
    /\ \A i \in (Len(rs) + 1)..Len(new) :
         /\ new[i].mode = "COMMIT" /\ new[i].ttl = FALSE
         /\ i = Len(new) \/ (new[i].slot = "evidence" /\ j.op = "belief")

LEMMA LandedLandsAs ==
    ASSUME NEW rs \in Seq(Record), NEW j \in Job, j.prop \in DOMAIN rs,
           WellFormed(rs[j.prop]), j.trace \in Traces
    PROVE  LandsAs(rs, Landed(rs, j), j)
  <1> DEFINE n == Len(rs)
             p == j.prop
             gone == Invalidate(rs, p, "SUPERSEDED_BY_COMMIT")
             e == EvidenceFor(rs, p, j.trace, Voucher(j), j.since)
             b == CommittedFrom(rs, p, j.trace, n + 1, j.since)
             c == CommittedFrom(rs, p, j.trace, NoId, j.since)
             Copy(r) == /\ r.slot = rs[p].slot /\ r.kind = rs[p].kind /\ r.body = rs[p].body
                        /\ r.trace = j.trace /\ r.mode = "COMMIT" /\ r.status = "ACTIVE"
  <1>1. /\ n \in Nat /\ DOMAIN rs = 1..n /\ gone \in Seq(Record) /\ Len(gone) = n
        /\ \A i \in 1..n : i # p => gone[i] = rs[i]
        /\ gone[p].status = "INVALIDATED" /\ p \in 1..n
    BY LenProperties, InvalidateFacts DEF Reasons
  <1>2. Voucher(j) \in Vouchers /\ j.since \in Nat /\ rs[p].kind \in Kinds /\ n + 1 \in Nat
    BY <1>1 DEF Job, Voucher, Vouchers, WellFormed
  <1>3. e \in Record /\ b \in Record /\ c \in Record
    BY <1>2, WrittenAreRecords DEF NoId
  <1>4. /\ Copy(b) /\ Copy(c) /\ e.slot = "evidence" /\ e.mode = "COMMIT"
        /\ b.ttl = FALSE /\ c.ttl = FALSE /\ e.ttl = FALSE
    BY DEF EvidenceFor, CommittedFrom
  <1>5. Landed(rs, j) = IF j.op = "belief" THEN Append(Append(gone, e), b) ELSE Append(gone, c)
    BY LandedIsCommit
  <1> HIDE DEF gone, e, b, c
  <1>6. CASE j.op = "belief"
    <2> DEFINE mid == Append(gone, e)
               new == Append(mid, b)
    <2>1. /\ mid \in Seq(Record) /\ Len(mid) = n + 1
          /\ \A i \in 1..n : mid[i] = gone[i]
          /\ mid[n + 1] = e
      BY <1>1, <1>3, AppendProperties
    <2> HIDE DEF mid
    <2>2. /\ new \in Seq(Record) /\ Len(new) = n + 2
          /\ \A i \in 1..(n + 1) : new[i] = mid[i]
          /\ new[n + 2] = b
      BY <1>1, <1>3, <2>1, AppendProperties
    <2> HIDE DEF new
    <2>3. /\ n < n + 2 /\ \A i \in 1..n : new[i] = gone[i]
          /\ \A i \in (n + 1)..(n + 2) : i = n + 2 \/ new[i] = e
      BY <1>1, <2>1, <2>2
    <2>4. Landed(rs, j) = new
      BY <1>5, <1>6 DEF new, mid
    <2>5. LandsAs(rs, new, j)
      BY <1>1, <1>4, <1>6, <2>2, <2>3 DEF LandsAs
    <2> QED
      BY <2>4, <2>5
  <1>7. CASE j.op # "belief"
    <2> DEFINE new == Append(gone, c)
    <2>1. /\ new \in Seq(Record) /\ Len(new) = n + 1
          /\ \A i \in 1..n : new[i] = gone[i]
          /\ new[n + 1] = c
      BY <1>1, <1>3, AppendProperties
    <2>2. Landed(rs, j) = new
      BY <1>5, <1>7
    <2> HIDE DEF new
    <2>3. n < n + 1 /\ \A i \in (n + 1)..(n + 1) : i = n + 1
      BY <1>1
    <2>4. LandsAs(rs, new, j)
      BY <1>1, <1>4, <1>7, <2>1, <2>3 DEF LandsAs
    <2> QED
      BY <2>2, <2>4
  <1> QED
    BY <1>6, <1>7

\* What a step inside a pipeline does to the board and to the answer: it commits the
\* proposal, or refuses it, or leaves it as it is and goes on.
Commits(t) ==
    /\ LandsAs(recs, recs', job[t])
    /\ pc'[t] = "return" /\ job'[t].code = "COMMITTED"

Refuses(t) ==
    /\ pc[t] = "refuse" /\ job'[t] = job[t]
    /\ recs' = Invalidate(recs, job[t].prop, job[t].code)
    /\ pc'[t] = "return" /\ job'[t].code \in Refusals

GoesOn(t) == recs' = recs /\ pc'[t] # "return"

LEMMA PipelineDoes ==
    ASSUME Inv, NEW t \in Threads, Step(t), ~At(t, "return"),
           IsProposal(recs, job[t].prop, job[t].op), job[t].op # "plan"
    PROVE  Commits(t) \/ Refuses(t) \/ GoesOn(t)
  <1>1. /\ job[t] \in Job /\ job \in [Threads -> Job] /\ DOMAIN pc = Threads /\ pc[t] \in Labels
        /\ recs \in Seq(Record)
    BY ThreadFacts DEF Inv, TypeOK
  <1>2. ASSUME recs' = recs, NEW label, label # "return", Goto(t, label) PROVE GoesOn(t)
    BY <1>1, <1>2 DEF GoesOn, Goto
  <1>3. CASE Refuse(t)
    <2>1. pc[t] = "refuse" /\ job[t].code \in Refusals
      BY <1>3, ThreadFacts DEF Refuse, At, Fit
    <2> QED
      BY <1>1, <1>3, <2>1 DEF Refuse, Goto, Refuses
  <1>4. CASE EndTx(t)
    <2>1. pc[t] \in Pending /\ recs' = Landed(recs, job[t])
      BY <1>4, InTransaction DEF EndTx, At, Inv, Safe, Ready, Writing, InTx
    <2>2. WellFormed(recs[job[t].prop]) /\ job[t].trace \in Traces /\ job[t].prop \in DOMAIN recs
      BY <2>1, AcceptedBoards
    <2>3. pc'[t] = "return" /\ job'[t].code = "COMMITTED"
      BY <1>1, <1>4 DEF EndTx, Goto, Job
    <2> QED
      BY <1>1, <2>1, <2>2, <2>3, LandedLandsAs DEF Commits
  <1>5. CASE Fetch(t)
    BY <1>2, <1>5, Zenon DEF Fetch
  <1>6. CASE JudgePlan(t)
    BY <1>6 DEF JudgePlan
  <1>7. CASE Acquire(t) \/ ListSlot(t) \/ JudgeBelief(t) \/ Arbitrate(t) \/ Gate(t) \/ Claims(t)
    BY <1>2, <1>7 DEF Acquire, ListSlot, JudgeBelief, Arbitrate, Gate, Claims, Reject
  <1>8. CASE JudgeAction(t) \/ CheckNeeds(t) \/ BeginTx(t) \/ WriteEvidence(t) \/ Supersede(t)
             \/ WriteRecord(t)
    BY <1>2, <1>8 DEF JudgeAction, CheckNeeds, BeginTx, WriteEvidence, Supersede, WriteRecord, Reject
  <1>9. ~Return(t)
    BY DEF Return
  <1> QED
    BY <1>3, <1>4, <1>5, <1>6, <1>7, <1>8, <1>9, Zenon DEF Step

-----------------------------------------------------------------------------
\* Nobody is forgotten by a run.

\* Who would activate on a view; Wanting are those who do on the view they are shown.
WantsOn(v, w) ==
    /\ w \notin done
    /\ \/ w = "sensor" /\ SensorWants
       \/ w = "analyst" /\ Held(recs, v, "percepts", temperature) # NoId
                        /\ Held(recs, v, "beliefs", anomaly_detected) = NoId
       \/ w = "adaptive" /\ AdaptiveWants
       \/ w = "simulator" /\ SimulatorWants(recs, v)
       \/ w = "actuator" /\ Held(recs, v, "beliefs", anomaly_detected) # NoId
                         /\ Held(recs, v, "actions", alert) = NoId

\* The round is past a worker.
Past(w) == round > 1 \/ DependencyKey(w) < turn \/ stage = "final"

\* Those the round is past have nothing left to do, on the board as it is.
PastAreQuiet == \A w \in Workers : Past(w) => ~WantsOn(Seen(recs, Trace), w)

\* The second round, if there is one, finds nobody.
Rounds ==
    /\ turn \in Nat
    /\ round = 1 \/ (round = 2 /\ ~produced /\ stage \in {"look", "ask", "final"})

AtStep == stage \in {"step", "call", "inside"}

\* A one-shot worker in its step is done, and what it proposed is unsettled until its
\* pipeline answers, with a verdict on it.
Flying ==
    /\ AtStep => \A w \in OneShot : AtWork(w) => w \in done
    /\ stage = "call" => \E w \in DOMAIN OpOf : AtWork(w) /\ IsProposal(recs, Len(recs), OpOf[w])
    /\ stage = "inside" =>
         \E w \in DOMAIN OpOf :
           /\ AtWork(w) /\ job[Main].op = OpOf[w]
           /\ pc[Main] # "return" => IsProposal(recs, job[Main].prop, job[Main].op)
           /\ pc[Main] = "return" => job[Main].code \in Refusals \cup {"COMMITTED"}

\* A worker whose step may yet turn out to have produced nothing, so that no view is
\* taken after it.
Unproductive == AtWork("analyst") \/ (AtWork("simulator") /\ ~local.gain)

\* The view the workers judge by is that of the board, but for the proposal in flight.
Fresh ==
    /\ stage \in {"ask", "final"} => view = Seen(recs, Trace)
    /\ Unproductive =>
         /\ stage = "step" => view = Seen(recs, Trace)
         /\ stage = "call" => view = Seen(recs, Trace) \ {Len(recs)}
         /\ stage = "inside" /\ pc[Main] # "return" => view = Seen(recs, Trace) \ {job[Main].prop}
         /\ stage = "inside" /\ pc[Main] = "return" /\ job[Main].code # "COMMITTED" =>
              view = Seen(recs, Trace)

QuietInv ==
    /\ stage = "between" => RunsEndQuiet
    /\ stage # "between" /\ ~errors => Rounds /\ Flying /\ Fresh /\ PastAreQuiet

\* The order in which the workers are asked.
LEMMA Keys ==
    /\ Workers = {"sensor", "analyst", "adaptive", "simulator", "actuator"}
    /\ DependencyKey("sensor") = 0 /\ DependencyKey("analyst") = 1
    /\ DependencyKey("adaptive") = 2 /\ DependencyKey("simulator") = 5
    /\ DependencyKey("actuator") = 6
  <1>1. ASSUME NEW n \in Nat PROVE Min({n}) = n
    BY MinIsMember
  <1>2. Writes = DemoWrites
    BY EpisodesAssumption
  <1>3. /\ {SlotOrder[s] : s \in Writes["sensor"]} = {0}
        /\ {SlotOrder[s] : s \in Writes["analyst"]} = {1}
        /\ {SlotOrder[s] : s \in Writes["adaptive"]} = {2}
        /\ {SlotOrder[s] : s \in Writes["simulator"]} = {5}
        /\ {SlotOrder[s] : s \in Writes["actuator"]} = {6}
    BY <1>2 DEF DemoWrites, SlotOrder
  <1>4. Workers = {"sensor", "analyst", "adaptive", "simulator", "actuator"}
    BY <1>2 DEF Workers, DemoWrites
  <1> QED
    BY <1>1, <1>3, <1>4 DEF DependencyKey

LEMMA WantingOnView == Wanting = {w \in Workers : WantsOn(view, w)}
BY DEF Wanting, WantsOn, SensorWants, AnalystWants, AdaptiveWants, ActuatorWants, Shows

\* The slots that change in the step of a worker, those its pipeline writes among them.
Touched == [sensor |-> {"percepts"}, analyst |-> {"beliefs", "evidence"}, adaptive |-> {"constraints"},
            simulator |-> {"predictions"}, actuator |-> {"actions"}]

\* The step of a worker gives those before it nothing to do.
LEMMA QuietStays ==
    ASSUME News(recs, recs', Trace), Trace' = Trace,
           NEW x \in Workers, AtWork(x), Touches(recs, recs', Touched[x]),
           NEW w \in Workers, DependencyKey(w) < turn, ~WantsOn(Seen(recs, Trace), w),
           done \subseteq done', queued' \subseteq queued, reading' = reading
    PROVE  ~WantsOn(Seen(recs, Trace), w)'
  <1> DEFINE v == Seen(recs, Trace)
  <1>0. v' = Seen(recs', Trace)
    OBVIOUS
  <1>1. \A slot : slot \notin Touched[x] =>
          /\ \A kind : Held(recs', v', slot, kind) = Held(recs, v, slot, kind)
          /\ (\E i \in v' : recs'[i].slot = slot) <=> (\E i \in v : recs[i].slot = slot)
    BY <1>0, HeldElsewhere
  <1> HIDE DEF v
  <1>2. w # x /\ DependencyKey(w) < DependencyKey(x)
    BY Keys DEF AtWork
  <1>3. CASE w = "sensor" \/ w = "adaptive"
    <2>1. ~WantsOn(v, w)'
      BY <1>3 DEF WantsOn, SensorWants, AdaptiveWants, v
    <2> QED
      BY <2>1 DEF v
  <1>4. CASE w = "analyst"
    <2>1. "percepts" \notin Touched[x] /\ "beliefs" \notin Touched[x]
      BY <1>2, <1>4, Keys DEF Touched
    <2>2. ~WantsOn(v, w)
      BY DEF v
    <2>3. ~WantsOn(v, w)'
      BY <1>1, <1>4, <2>1, <2>2 DEF WantsOn
    <2> QED
      BY <2>3 DEF v
  <1>5. CASE w = "simulator"
    <2>1. "beliefs" \notin Touched[x]
      BY <1>2, <1>5, Keys DEF Touched
    <2>2. ~WantsOn(v, w)
      BY DEF v
    <2>3. ~WantsOn(v, w)'
      BY <1>1, <1>5, <2>1, <2>2 DEF WantsOn, SimulatorWants
    <2> QED
      BY <2>3 DEF v
  <1>6. w # "actuator"
    BY <1>2, Keys
  <1> QED
    BY <1>3, <1>4, <1>5, <1>6, Keys

\* While the board stays, those who have nothing to do get nothing to do.
LEMMA QuietAsBefore ==
    ASSUME recs' = recs, Trace' = Trace, NEW w, ~WantsOn(Seen(recs, Trace), w),
           done \subseteq done', queued' \subseteq queued, reading' = reading
    PROVE  ~WantsOn(Seen(recs, Trace), w)'
BY DEF WantsOn, SensorWants, AdaptiveWants, SimulatorWants

\* Running in an episode without an exception.
Running == stage # "between" /\ ~errors

\* Looking and asking.
LEMMA QuietBegins ==
    ASSUME NEW n, NEW r, BeginEpisode(n, r)
    PROVE  QuietInv'
  <1>1. stage' = "look" /\ round' = 1 /\ turn' = 0
    BY DEF BeginEpisode, StartRun
  <1>2. \A w \in Workers : ~Past(w)'
    BY <1>1, Keys DEF Past
  <1>3. Rounds' /\ Flying' /\ Fresh' /\ PastAreQuiet'
    BY <1>1, <1>2 DEF Rounds, Flying, Fresh, PastAreQuiet, AtStep
  <1> QED
    BY <1>1, <1>3 DEF QuietInv

LEMMA QuietLooks ==
    ASSUME Inv, QuietInv, Running, Look
    PROVE  QuietInv'
  <1>1. /\ stage = "look" /\ stage' = "ask" /\ recs' = recs /\ view' = WholeView(Trace)
        /\ UNCHANGED <<round, turn, produced, errors, workerVars, episode>>
    BY DEF Look, LookAround, vars, driverVars
  <1>2. Rounds /\ PastAreQuiet
    BY DEF QuietInv, Running
  <1>3. Trace' = Trace /\ view' = Seen(recs, Trace)
    BY <1>1, WholeIsSeen DEF Trace, WholeView, Inv, TypeOK
  <1>4. Rounds' /\ Flying' /\ Fresh'
    BY <1>1, <1>2, <1>3 DEF Rounds, Flying, Fresh, AtStep
  <1>5. PastAreQuiet'
    <2> SUFFICES ASSUME NEW w \in Workers, Past(w)' PROVE ~WantsOn(Seen(recs, Trace), w)'
      BY DEF PastAreQuiet
    <2>1. Past(w)
      BY <1>1 DEF Past
    <2> QED
      BY <1>1, <1>2, <1>3, <2>1, QuietAsBefore DEF workerVars, PastAreQuiet
  <1> QED
    BY <1>1, <1>4, <1>5 DEF QuietInv

\* Nobody the round passes over, and nobody of the second round, wants to act.
LEMMA PassedOver ==
    ASSUME QuietInv, Running, stage = "ask", NEW w \in Workers,
           Past(w) \/ DependencyKey(w) \notin Willing(Wanting)
    PROVE  ~WantsOn(Seen(recs, Trace), w)
  <1>1. Fresh /\ PastAreQuiet /\ view = Seen(recs, Trace)
    BY DEF QuietInv, Running, Fresh
  <1>2. CASE Past(w)
    BY <1>1, <1>2 DEF PastAreQuiet
  <1>3. CASE ~Past(w) /\ DependencyKey(w) \notin Willing(Wanting)
    <2>1. turn \in Nat /\ DependencyKey(w) \in Nat
      BY Keys DEF QuietInv, Running, Rounds
    <2>2. DependencyKey(w) >= turn
      BY <1>3, <2>1 DEF Past
    <2>3. w \notin Wanting
      BY <1>3, <2>2 DEF Willing
    <2> QED
      BY <1>1, <2>3, WantingOnView
  <1> QED
    BY <1>2, <1>3

LEMMA QuietStarts ==
    ASSUME QuietInv, Running, StartStep
    PROVE  QuietInv'
  <1> DEFINE keys == Willing(Wanting)
  <1>1. /\ stage = "ask" /\ stage' = "step" /\ recs' = recs /\ keys # {} /\ turn' = Min(keys)
        /\ done' = done \cup {w \in OneShot : DependencyKey(w) = turn'}
        /\ UNCHANGED <<round, view, produced, errors, reading, queued, episode>>
    BY DEF StartStep, EnterStep, vars, driverVars
  <1>2. Rounds /\ Fresh /\ Trace' = Trace /\ view = Seen(recs, Trace)
    BY <1>1 DEF QuietInv, Running, Trace, Fresh
  <1>3. keys \subseteq {DependencyKey(w) : w \in Wanting} /\ Wanting \subseteq Workers
    BY DEF Willing, Wanting
  <1>4. keys \in SUBSET Nat
    BY <1>3, Keys
  <1>5. turn' \in keys /\ turn' \in Nat /\ \A k \in keys : turn' <= k
    BY <1>1, <1>4, MinIsMember
  <1>6. round = 1
    <2> SUFFICES ASSUME round > 1 PROVE FALSE
      BY <1>2 DEF Rounds
    <2>1. PICK w \in Workers : WantsOn(view, w)
      BY <1>1, <1>3, WantingOnView
    <2>2. Past(w)
      BY DEF Past
    <2> QED
      BY <1>1, <1>2, <2>1, <2>2, PassedOver
  <1>7. Rounds' /\ Fresh'
    BY <1>1, <1>2, <1>5, <1>6 DEF Rounds, Fresh
  <1>8. Flying'
    BY <1>1 DEF Flying, AtWork
  <1>9. PastAreQuiet'
    <2> SUFFICES ASSUME NEW w \in Workers, Past(w)' PROVE ~WantsOn(Seen(recs, Trace), w)'
      BY DEF PastAreQuiet
    <2>1. DependencyKey(w) < turn' /\ DependencyKey(w) \in Nat
      BY <1>1, <1>6, Keys DEF Past
    <2>2. DependencyKey(w) \notin keys
      BY <1>4, <1>5, <2>1
    <2>3. ~WantsOn(Seen(recs, Trace), w)
      BY <1>1, <2>2, PassedOver
    <2> QED
      BY <1>1, <1>2, <2>3, QuietAsBefore
  <1> QED
    BY <1>1, <1>7, <1>8, <1>9 DEF QuietInv

LEMMA QuietTurns ==
    ASSUME QuietInv, Running, GoRound
    PROVE  QuietInv'
  <1>1. /\ stage = "ask" /\ recs' = recs /\ Willing(Wanting) = {}
        /\ UNCHANGED <<view, errors, workerVars, episode>>
        /\ \/ /\ produced /\ stage' = "look" /\ round' = round + 1 /\ turn' = 0 /\ produced' = FALSE
           \/ /\ stage' = "final" /\ UNCHANGED <<round, turn, produced>>
    BY DEF GoRound, EndRound, vars, driverVars
  <1>2. Rounds /\ Fresh /\ Trace' = Trace /\ view = Seen(recs, Trace)
    BY <1>1 DEF QuietInv, Running, Trace, Fresh
  <1>3. Rounds' /\ Fresh' /\ Flying'
    BY <1>1, <1>2 DEF Rounds, Fresh, Flying, AtStep
  <1>4. PastAreQuiet'
    <2> SUFFICES ASSUME NEW w \in Workers PROVE ~WantsOn(Seen(recs, Trace), w)'
      BY DEF PastAreQuiet
    <2>1. ~WantsOn(Seen(recs, Trace), w)
      BY <1>1, PassedOver
    <2> QED
      BY <1>1, <1>2, <2>1, QuietAsBefore DEF workerVars
  <1> QED
    BY <1>1, <1>3, <1>4 DEF QuietInv

LEMMA QuietEnds ==
    ASSUME Inv, QuietInv, Running, EndEpisode, MaxRounds > 2
    PROVE  QuietInv'
  <1>1. /\ stage = "final" /\ stage' = "between" /\ recs' = recs /\ view' = WholeView(Trace)
        /\ UNCHANGED <<round, turn, produced, errors, workerVars, episode>>
    BY DEF EndEpisode, FinishRun, vars, driverVars
  <1>2. Rounds /\ PastAreQuiet /\ Trace' = Trace
    BY <1>1 DEF QuietInv, Running, Trace
  <1>3. view' = Seen(recs, Trace)'
    BY <1>1, <1>2, WholeIsSeen DEF WholeView, Inv, TypeOK
  <1>4. \A w \in Workers : ~WantsOn(Seen(recs, Trace), w)'
    <2> SUFFICES ASSUME NEW w \in Workers PROVE ~WantsOn(Seen(recs, Trace), w)'
      OBVIOUS
    <2>1. ~WantsOn(Seen(recs, Trace), w)
      BY <1>1, <1>2 DEF PastAreQuiet, Past
    <2> QED
      BY <1>1, <1>2, <2>1, QuietAsBefore DEF workerVars
  <1>5. Wanting' = {}
    <2>1. (Wanting = {w \in Workers : WantsOn(view, w)})'
      BY WantingOnView, PTL
    <2>2. Workers' = Workers
      BY DEF Workers
    <2>3. \A w \in Workers : ~WantsOn(view, w)'
      BY <1>3, <1>4 DEF WantsOn
    <2> QED
      BY <2>1, <2>2, <2>3
  <1>6. round' < MaxRounds
    BY <1>1, <1>2, OrchestratorAssumption DEF Rounds
  <1> QED
    BY <1>1, <1>5, <1>6 DEF QuietInv, RunsEndQuiet

\* A step of the worker at work, which goes on with its step or leaves it with nothing
\* left for itself to do.
LEMMA QuietAfterStep ==
    ASSUME QuietInv, Running, AtStep, News(recs, recs', Trace), Trace' = Trace,
           NEW x \in Workers, AtWork(x), Touches(recs, recs', Touched[x]),
           round' = round, stage' # "final",
           done \subseteq done', queued' \subseteq queued, reading' = reading,
           turn' = turn \/ (turn' = turn + 1 /\ (x \in done' \/ (x = "adaptive" /\ queued' = {})))
    PROVE  /\ PastAreQuiet' /\ round' = 1 /\ turn' \in Nat
           /\ stage' \notin {"call", "inside"} => Rounds'
  <1>1. Rounds /\ round = 1 /\ turn \in Nat /\ PastAreQuiet
    BY DEF QuietInv, Running, Rounds, AtStep
  <1>2. ASSUME NEW w \in Workers, Past(w)' PROVE ~WantsOn(Seen(recs, Trace), w)'
    <2>1. DependencyKey(w) < turn' /\ DependencyKey(w) \in Nat
      BY <1>1, <1>2, Keys DEF Past
    <2>2. CASE DependencyKey(w) < turn
      <3>1. ~WantsOn(Seen(recs, Trace), w)
        BY <1>1, <2>2 DEF PastAreQuiet, Past
      <3> QED
        BY <2>2, <3>1, QuietStays
    <2>3. CASE ~(DependencyKey(w) < turn)
      <3>1. DependencyKey(w) = turn /\ turn' = turn + 1
        BY <1>1, <2>1, <2>3
      <3>2. w = x
        BY <3>1, Keys DEF AtWork
      <3> QED
        BY <3>1, <3>2, <1>1 DEF WantsOn, AdaptiveWants
    <2> QED
      BY <2>2, <2>3
  <1>3. turn' \in Nat /\ round' = 1
    BY <1>1
  <1> QED
    BY <1>2, <1>3 DEF PastAreQuiet, Rounds

\* A record written touches its slot only.
LEMMA WriteTouches ==
    ASSUME Inv, NEW d \in Drafts, Write(d), d.trace = Trace, d.status = "ACTIVE",
           NEW slots, d.slot \in slots
    PROVE  /\ Touches(recs, recs', slots)
           /\ Seen(recs, Trace) = Seen(recs', Trace) \ {Len(recs')}
           /\ Len(recs') \in DOMAIN recs' /\ recs'[Len(recs')] = d
  <1>1. recs \in Seq(Record) /\ d \in Record /\ recs' = Append(recs, d)
    BY PublishedIsRecord DEF Write, Inv, TypeOK
  <1>2. /\ Touches(recs, recs', {d.slot})
        /\ Seen(recs, Trace) = Seen(recs', Trace) \ {Len(recs')}
    BY <1>1, SeenWritten
  <1>3. /\ Len(recs') = Len(recs) + 1 /\ Len(recs) \in Nat /\ DOMAIN recs' = 1..Len(recs')
        /\ recs'[Len(recs) + 1] = d
    BY <1>1, AppendProperties, LenProperties
  <1>4. Touches(recs, recs', slots)
    BY <1>2 DEF Touches
  <1> QED
    BY <1>2, <1>3, <1>4

LEMMA QuietSenses ==
    ASSUME Inv, OneKernel, DemoInv, BoardInv, OwnProposal, QuietInv, Running, SensorStep
    PROVE  QuietInv'
  <1> DEFINE d == Percept(reading, Trace)
  <1>1. /\ stage = "step" /\ AtWork("sensor") /\ Write(d) /\ stage' = "look" /\ turn' = turn + 1
        /\ UNCHANGED <<round, errors, workerVars, episode>>
    BY DEF SensorStep, LeaveStep, driverVars
  <1>2. d \in Drafts /\ d.slot = "percepts" /\ d.trace = Trace /\ d.status = "ACTIVE"
    BY <1>1, WrittenIsDraft DEF Percept, Proposal
  <1> HIDE DEF d
  <1>3. "sensor" \in Workers /\ Touched["sensor"] = {"percepts"} /\ Trace' = Trace
    BY <1>1, Keys DEF Touched, Trace
  <1>4. Touches(recs, recs', Touched["sensor"])
    BY <1>1, <1>2, <1>3, WriteTouches
  <1>5. News(recs, recs', Trace)
    <2>1. [DemoNext]_demoVars
      BY DEF DemoNext, Proceed
    <2> QED
      BY <2>1, DemoNews
  <1>6. Flying /\ "sensor" \in done'
    BY <1>1 DEF QuietInv, Running, Flying, AtStep, OneShot, workerVars
  <1>7. PastAreQuiet' /\ Rounds'
    BY <1>1, <1>3, <1>4, <1>5, <1>6, QuietAfterStep DEF AtStep, workerVars
  <1>8. Flying' /\ Fresh'
    BY <1>1 DEF Flying, Fresh, AtStep
  <1> QED
    BY <1>1, <1>7, <1>8 DEF QuietInv

LEMMA QuietTeaches ==
    ASSUME Inv, OneKernel, DemoInv, BoardInv, OwnProposal, QuietInv, Running,
           NEW base \in BaseReasons, AdaptiveWrites(base)
    PROVE  QuietInv'
  <1> DEFINE d == LessonRecord(base, Trace)
  <1>1. /\ stage = "step" /\ AtWork("adaptive") /\ Write(d)
        /\ \/ queued' = {} /\ stage' = "look" /\ turn' = turn + 1
           \/ UNCHANGED <<queued, stage, turn>>
        /\ UNCHANGED <<round, errors, done, reading, episode>>
    BY DEF AdaptiveWrites, LeaveStep, driverVars, orchVars
  <1>2. d \in Drafts /\ d.slot = "constraints" /\ d.trace = Trace /\ d.status = "ACTIVE"
    BY <1>1, WrittenIsDraft DEF LessonRecord
  <1> HIDE DEF d
  <1>3. "adaptive" \in Workers /\ Touched["adaptive"] = {"constraints"} /\ Trace' = Trace
    BY <1>1, Keys DEF Touched, Trace
  <1>4. Touches(recs, recs', Touched["adaptive"])
    BY <1>1, <1>2, <1>3, WriteTouches
  <1>5. News(recs, recs', Trace)
    <2>1. [DemoNext]_demoVars
      BY DEF DemoNext, Proceed
    <2> QED
      BY <2>1, DemoNews
  <1>6. PastAreQuiet' /\ Rounds'
    BY <1>1, <1>3, <1>4, <1>5, QuietAfterStep DEF AtStep
  <1>7. Flying'
    <2>1. \A w \in OneShot : ~AtWork(w)
      BY <1>1, Keys DEF AtWork, OneShot
    <2>2. stage' = "step" => turn' = turn
      BY <1>1
    <2> QED
      BY <1>1, <2>1, <2>2 DEF Flying, AtStep, AtWork
  <1>8. Fresh'
    <2>1. ~AtWork("analyst") /\ ~AtWork("simulator")
      BY <1>1, Keys DEF AtWork
    <2> QED
      BY <1>1, <2>1 DEF Fresh, Unproductive, AtWork
  <1> QED
    BY <1>1, <1>6, <1>7, <1>8 DEF QuietInv

\* A proposal is written.
LEMMA QuietProposes ==
    ASSUME Inv, OneKernel, DemoInv, BoardInv, OwnProposal, QuietInv, Running, [DemoNext]_demoVars,
           stage = "step", NEW x \in DOMAIN OpOf, AtWork(x),
           NEW d \in Drafts, Propose(d), d.slot = SlotOf[OpOf[x]], d.mode = "PROPOSE",
           d.status = "ACTIVE", d.trace = Trace,
           UNCHANGED <<done, reading, queued>>, local'.gain = local.gain
    PROVE  QuietInv'
  <1>1. /\ Write(d) /\ stage' = "call"
        /\ UNCHANGED <<round, turn, view, produced, errors, episode>>
    BY DEF Propose, driverVars
  <1>2. x \in Workers /\ d.slot \in Touched[x] /\ Trace' = Trace
    BY <1>1, Keys DEF OpOf, SlotOf, Touched, Trace
  <1>3. /\ Touches(recs, recs', Touched[x])
        /\ Seen(recs, Trace) = Seen(recs', Trace) \ {Len(recs')}
        /\ Len(recs') \in DOMAIN recs' /\ recs'[Len(recs')] = d
    BY <1>1, <1>2, WriteTouches
  <1>4. News(recs, recs', Trace)
    BY DemoNews
  <1>5. PastAreQuiet' /\ round' = 1 /\ turn' \in Nat
    BY <1>1, <1>2, <1>3, <1>4, QuietAfterStep DEF AtStep
  <1>6. Rounds'
    BY <1>5 DEF Rounds
  <1>7. Flying'
    <2>1. IsProposal(recs', Len(recs'), OpOf[x])
      BY <1>3 DEF IsProposal, Active
    <2>2. Flying
      BY DEF QuietInv, Running
    <2>3. AtStep' => \A w \in OneShot : AtWork(w)' => w \in done'
      BY <1>1, <2>2 DEF Flying, AtStep, AtWork
    <2>4. AtWork(x)' /\ stage' # "inside"
      BY <1>1 DEF AtWork
    <2> QED
      BY <2>1, <2>3, <2>4, Zenon DEF Flying
  <1>8. Fresh'
    <2>1. Unproductive' => Unproductive
      BY <1>1 DEF Unproductive, AtWork
    <2>2. Unproductive => view = Seen(recs, Trace)
      BY DEF QuietInv, Running, Fresh
    <2> QED
      BY <1>1, <1>2, <1>3, <2>1, <2>2 DEF Fresh
  <1> QED
    BY <1>1, <1>5, <1>6, <1>7, <1>8 DEF QuietInv

LEMMA QuietWorks ==
    ASSUME Inv, OneKernel, DemoInv, BoardInv, OwnProposal, QuietInv, Running,
           AnalystStep \/ SimulatorPredicts \/ ActuatorStep
    PROVE  QuietInv'
  <1>0. [DemoNext]_demoVars
    BY DEF DemoNext, Proceed
  <1>1. CASE AnalystStep
    <2> DEFINE d == Suspicion(Trace)
    <2>1. stage = "step" /\ AtWork("analyst") /\ Propose(d) /\ UNCHANGED workerVars
      BY <1>1 DEF AnalystStep
    <2>2. d \in Drafts /\ d.slot = "beliefs" /\ d.mode = "PROPOSE" /\ d.status = "ACTIVE" /\ d.trace = Trace
      BY <2>1, WrittenIsDraft DEF Suspicion, Proposal
    <2> HIDE DEF d
    <2>3. "analyst" \in DOMAIN OpOf /\ d.slot = SlotOf[OpOf["analyst"]]
      BY <2>2 DEF OpOf, SlotOf
    <2> QED
      BY <1>0, <2>1, <2>2, <2>3, QuietProposes DEF workerVars
  <1>2. CASE SimulatorPredicts
    <2> DEFINE d == PredictionFrom(Rules[Min(FiringNow)], Trace)
    <2>1. /\ stage = "step" /\ AtWork("simulator") /\ FiringNow # {} /\ Propose(d)
          /\ local' = [local EXCEPT !.rule = Min(FiringNow) + 1]
          /\ UNCHANGED <<done, reading, queued>>
      BY <1>2 DEF SimulatorPredicts
    <2>2. d \in Drafts
      BY <2>1, FiringRule, WrittenIsDraft DEF DemoInv
    <2>3. d.slot = "predictions" /\ d.mode = "PROPOSE" /\ d.status = "ACTIVE" /\ d.trace = Trace
      BY DEF PredictionFrom
    <2> HIDE DEF d
    <2>4. "simulator" \in DOMAIN OpOf /\ d.slot = SlotOf[OpOf["simulator"]]
      BY <2>3 DEF OpOf, SlotOf
    <2>5. local'.gain = local.gain
      BY <2>1 DEF DemoInv, Locals
    <2> QED
      BY <1>0, <2>1, <2>2, <2>3, <2>4, <2>5, QuietProposes
  <1>3. CASE ActuatorStep
    <2> DEFINE d == IF local.safe THEN Review(Trace) ELSE Alert(Trace)
    <2>1. stage = "step" /\ AtWork("actuator") /\ Propose(d) /\ UNCHANGED workerVars
      BY <1>3 DEF ActuatorStep
    <2>2. d \in Drafts
      BY <2>1, WrittenIsDraft
    <2>3. d.slot = "actions" /\ d.mode = "PROPOSE" /\ d.status = "ACTIVE" /\ d.trace = Trace
      BY DEF Alert, Review, Proposal
    <2> HIDE DEF d
    <2>4. "actuator" \in DOMAIN OpOf /\ d.slot = SlotOf[OpOf["actuator"]]
      BY <2>3 DEF OpOf, SlotOf
    <2> QED
      BY <1>0, <2>1, <2>2, <2>3, <2>4, QuietProposes DEF workerVars
  <1> QED
    BY <1>1, <1>2, <1>3

\* The simulator has no rule left.
LEMMA QuietSimulated ==
    ASSUME Inv, OneKernel, DemoInv, BoardInv, OwnProposal, QuietInv, Running, SimulatorEnds
    PROVE  QuietInv'
  <1>1. /\ stage = "step" /\ AtWork("simulator") /\ recs' = recs /\ turn' = turn + 1
        /\ stage' = (IF local.gain THEN "look" ELSE "ask")
        /\ UNCHANGED <<round, view, errors, workerVars, episode>>
    BY DEF SimulatorEnds, LeaveStep, vars, driverVars
  <1>2. Trace' = Trace /\ "simulator" \in Workers /\ Flying /\ Fresh
    BY <1>1, Keys DEF Trace, QuietInv, Running
  <1>3. Touches(recs, recs', Touched["simulator"]) /\ News(recs, recs', Trace)
    <2>1. [DemoNext]_demoVars
      BY DEF DemoNext, Proceed
    <2>2. News(recs, recs', Trace)
      BY <2>1, DemoNews
    <2>3. \A i \in (Len(recs) + 1)..Len(recs) : FALSE
      BY LenProperties DEF Inv, TypeOK
    <2> QED
      BY <1>1, <2>2, <2>3 DEF Touches
  <1>4. "simulator" \in done'
    BY <1>1, <1>2 DEF Flying, AtStep, OneShot, workerVars
  <1>5. PastAreQuiet' /\ Rounds'
    BY <1>1, <1>2, <1>3, <1>4, QuietAfterStep DEF AtStep, workerVars
  <1>6. Flying'
    BY <1>1 DEF Flying, AtStep
  <1>7. Fresh'
    <2>1. ~local.gain => view = Seen(recs, Trace)
      BY <1>1, <1>2 DEF Fresh, Unproductive
    <2> QED
      BY <1>1, <1>2, <2>1 DEF Fresh
  <1> QED
    BY <1>1, <1>5, <1>6, <1>7 DEF QuietInv

\* Workers of one key are one worker.
LEMMA SameWorker ==
    ASSUME NEW w \in Workers, NEW x \in Workers, AtWork(w), AtWork(x)
    PROVE  w = x
BY OrchestratorAssumption DEF AtWork

\* The proposal just written is taken to its pipeline.
LEMMA QuietCalls ==
    ASSUME Inv, QuietInv, Running, NEW x \in DOMAIN OpOf, CallPipeline(x)
    PROVE  QuietInv'
  <1> DEFINE need == x = "actuator" /\ ~local.safe
             j == [NoJob EXCEPT !.op = OpOf[x], !.prop = Len(recs), !.trace = Trace, !.need = need]
  <1>1. /\ stage = "call" /\ stage' = "inside" /\ recs' = recs /\ AtWork(x)
        /\ job' = [job EXCEPT ![Main] = j] /\ pc' = [pc EXCEPT ![Main] = "acquire"]
        /\ UNCHANGED <<round, turn, view, produced, errors, workerVars, episode>>
    BY DEF CallPipeline, Call, Goto, driverVars
  <1>2. Main \in Threads /\ DOMAIN job = Threads /\ DOMAIN pc = Threads
    BY EpisodesAssumption DEF Inv, TypeOK
  <1>3. j.prop = Len(recs) /\ j.op = OpOf[x]
    BY DEF NoJob
  <1> HIDE DEF j
  <1>4. job'[Main] = j /\ pc'[Main] = "acquire"
    BY <1>1, <1>2
  <1>5. Rounds /\ Flying /\ Fresh /\ PastAreQuiet /\ Trace' = Trace
    BY <1>1 DEF QuietInv, Running, Trace
  <1>6. IsProposal(recs, Len(recs), OpOf[x])
    <2>1. PICK w \in DOMAIN OpOf : AtWork(w) /\ IsProposal(recs, Len(recs), OpOf[w])
      BY <1>1, <1>5 DEF Flying
    <2>2. w = x
      BY <1>1, <2>1, SameWorker, Keys DEF OpOf
    <2> QED
      BY <2>1, <2>2
  <1>7. Flying'
    <2>1. AtStep' => \A w \in OneShot : AtWork(w)' => w \in done'
      BY <1>1, <1>5 DEF Flying, AtStep, AtWork, workerVars
    <2>2. AtWork(x)' /\ job'[Main].op = OpOf[x] /\ IsProposal(recs', job'[Main].prop, job'[Main].op)
      BY <1>1, <1>3, <1>4, <1>6 DEF AtWork
    <2> QED
      BY <1>1, <1>4, <2>1, <2>2, Zenon DEF Flying
  <1>8. Fresh'
    BY <1>1, <1>3, <1>4, <1>5 DEF Fresh, Unproductive, AtWork, workerVars
  <1>9. PastAreQuiet'
    <2> SUFFICES ASSUME NEW w \in Workers, Past(w)' PROVE ~WantsOn(Seen(recs, Trace), w)'
      BY DEF PastAreQuiet
    <2>1. Past(w)
      BY <1>1 DEF Past
    <2> QED
      BY <1>1, <1>5, <2>1, QuietAsBefore DEF workerVars, PastAreQuiet
  <1>10. Rounds'
    BY <1>1, <1>5 DEF Rounds
  <1> QED
    BY <1>1, <1>7, <1>8, <1>9, <1>10 DEF QuietInv

\* Inside a pipeline.
LEMMA QuietPipeline ==
    ASSUME Inv, OneKernel, DemoInv, BoardInv, OwnProposal, QuietInv, Running, PipelineStep
    PROVE  QuietInv'
  <1> DEFINE p == job[Main].prop
  <1>1. /\ stage = "inside" /\ Step(Main) /\ ~At(Main, "return") /\ Main \in Threads
        /\ UNCHANGED <<orchVars, workerVars, episode>>
    BY EpisodesAssumption DEF PipelineStep, driverVars
  <1>2. Rounds /\ Flying /\ Fresh /\ Trace' = Trace
    BY <1>1 DEF QuietInv, Running, Trace
  <1>3. PICK x \in DOMAIN OpOf : AtWork(x) /\ job[Main].op = OpOf[x] /\ IsProposal(recs, p, job[Main].op)
    BY <1>1, <1>2 DEF Flying, At
  <1>4. job[Main].op # "plan" /\ x \in Workers
    BY <1>3, Keys DEF OpOf
  <1>5. Commits(Main) \/ Refuses(Main) \/ GoesOn(Main)
    BY <1>1, <1>3, <1>4, PipelineDoes
  <1>6. job'[Main].op = job[Main].op /\ job'[Main].prop = p
    BY <1>1, SameJob DEF KeepsToCall
  <1>7. /\ recs \in Seq(Record) /\ DOMAIN recs = 1..Len(recs) /\ p \in DOMAIN recs
        /\ recs[p].slot = SlotOf[OpOf[x]]
    BY <1>3, LenProperties DEF Inv, TypeOK, IsProposal
  <1>8. SlotOf[OpOf[x]] \in Touched[x] /\ (OpOf[x] = "belief" => "evidence" \in Touched[x])
    BY DEF OpOf, SlotOf, Touched
  <1>9. Refuses(Main) => /\ Seen(recs', Trace) = Seen(recs, Trace) \ {p}
                         /\ Touches(recs, recs', {SlotOf[OpOf[x]]})
    <2> SUFFICES ASSUME Refuses(Main)
                 PROVE  /\ Seen(recs', Trace) = Seen(recs, Trace) \ {p}
                        /\ Touches(recs, recs', {SlotOf[OpOf[x]]})
      OBVIOUS
    <2>1. job[Main].code \in Reasons /\ recs' = Invalidate(recs, p, job[Main].code)
      BY DEF Refuses, Reasons
    <2>2. PICK code \in Reasons : recs' = Invalidate(recs, p, code)
      BY <2>1
    <2>3. recs \in Seq(Record) /\ p \in DOMAIN recs
      BY <1>7
    <2> HIDE DEF p
    <2>4. /\ Seen(Invalidate(recs, p, code), Trace) = Seen(recs, Trace) \ {p}
          /\ Touches(recs, Invalidate(recs, p, code), {recs[p].slot})
      BY <2>3, SeenRefused
    <2> QED
      BY <1>7, <2>2, <2>4
  <1>10. Touches(recs, recs', Touched[x])
    <2>1. CASE Refuses(Main)
      BY <1>8, <1>9, <2>1 DEF Touches
    <2>2. CASE Commits(Main)
      <3>1. LandsAs(recs, recs', job[Main])
        BY <2>2 DEF Commits
      <3> QED
        BY <1>3, <1>7, <1>8, <3>1 DEF LandsAs, Touches
    <2>3. CASE GoesOn(Main)
      <3>1. \A i \in (Len(recs) + 1)..Len(recs) : FALSE
        BY <1>7, LenProperties
      <3> QED
        BY <2>3, <3>1 DEF GoesOn, Touches
    <2> QED
      BY <1>5, <2>1, <2>2, <2>3
  <1>11. News(recs, recs', Trace)
    <2>1. [DemoNext]_demoVars
      BY DEF DemoNext, Proceed
    <2> QED
      BY <2>1, DemoNews
  <1>12. PastAreQuiet' /\ Rounds'
    <2>1. PastAreQuiet' /\ round' = 1 /\ turn' \in Nat
      BY <1>1, <1>2, <1>3, <1>4, <1>10, <1>11, QuietAfterStep DEF AtStep, orchVars, workerVars
    <2> QED
      BY <2>1 DEF Rounds
  <1>13. Flying'
    <2>1. AtStep' => \A w \in OneShot : AtWork(w)' => w \in done'
      BY <1>1, <1>2 DEF Flying, AtStep, AtWork, workerVars, orchVars
    <2>2. AtWork(x)' /\ job'[Main].op = OpOf[x]
      BY <1>1, <1>3, <1>6 DEF AtWork, orchVars
    <2>3. pc'[Main] # "return" => IsProposal(recs', job'[Main].prop, job'[Main].op)
      BY <1>3, <1>5, <1>6 DEF Commits, Refuses, GoesOn
    <2>4. pc'[Main] = "return" => job'[Main].code \in Refusals \cup {"COMMITTED"}
      BY <1>5 DEF Commits, Refuses, GoesOn
    <2> QED
      BY <1>1, <2>1, <2>2, <2>3, <2>4 DEF Flying, orchVars
  <1>14. Fresh'
    <2>1. Unproductive' => Unproductive
      BY <1>1 DEF Unproductive, AtWork, orchVars, workerVars
    <2>2. Unproductive => view = Seen(recs, Trace) \ {p}
      BY <1>1, <1>2 DEF Fresh, At
    <2>3. stage' = "inside" /\ view' = view
      BY <1>1 DEF orchVars
    <2>4. CASE Refuses(Main)
      BY <1>2, <1>9, <2>1, <2>2, <2>3, <2>4 DEF Fresh, Refuses
    <2>5. CASE Commits(Main)
      BY <2>3, <2>5 DEF Fresh, Commits
    <2>6. CASE GoesOn(Main)
      BY <1>2, <1>6, <2>1, <2>2, <2>3, <2>6 DEF Fresh, GoesOn
    <2> QED
      BY <1>5, <2>4, <2>5, <2>6
  <1> QED
    BY <1>1, <1>12, <1>13, <1>14 DEF QuietInv, orchVars

\* The answer: a step that produced nothing leaves the board as it was shown.
LEMMA QuietAnswers ==
    ASSUME Inv, OneKernel, DemoInv, BoardInv, OwnProposal, QuietInv, Running, Answer
    PROVE  QuietInv'
  <1> DEFINE ok == job[Main].code = "COMMITTED"
  <1>1. /\ stage = "inside" /\ pc[Main] = "return" /\ recs' = recs
        /\ UNCHANGED <<round, view, errors, done, reading, queued, episode>>
    BY DEF Answer, LeaveStep, Return, At, driverVars
  <1>2. \/ /\ AtWork("analyst") /\ stage' = (IF ok THEN "look" ELSE "ask") /\ turn' = turn + 1
        \/ /\ AtWork("simulator") /\ stage' = "step" /\ turn' = turn
           /\ local' = [local EXCEPT !.gain = @ \/ ok]
        \/ /\ AtWork("actuator") /\ stage' = "look" /\ turn' = turn + 1
        \/ /\ AtWork("actuator") /\ stage' = "step" /\ turn' = turn
    BY DEF Answer, LeaveStep
  <1>3. Rounds /\ Flying /\ Fresh /\ Trace' = Trace
    BY <1>1 DEF QuietInv, Running, Trace
  <1>4. PICK x \in OneShot \cap Workers : AtWork(x)
    BY <1>2, Keys DEF OneShot
  <1>5. x \in done'
    BY <1>1, <1>3, <1>4 DEF Flying, AtStep
  <1>6. Touches(recs, recs', Touched[x]) /\ News(recs, recs', Trace)
    <2>1. [DemoNext]_demoVars
      BY DEF DemoNext, Proceed
    <2>2. News(recs, recs', Trace)
      BY <2>1, DemoNews
    <2>3. \A i \in (Len(recs) + 1)..Len(recs) : FALSE
      BY LenProperties DEF Inv, TypeOK
    <2> QED
      BY <1>1, <2>2, <2>3 DEF Touches
  <1>7. /\ turn' = turn \/ turn' = turn + 1
        /\ stage' \in {"look", "ask", "step"}
    BY <1>2
  <1>8. PastAreQuiet' /\ Rounds'
    BY <1>1, <1>3, <1>4, <1>5, <1>6, <1>7, QuietAfterStep DEF AtStep
  <1>9. Flying'
    <2>1. stage' = "step" => turn' = turn
      BY <1>2
    <2> QED
      BY <1>1, <1>3, <1>7, <2>1 DEF Flying, AtStep, AtWork
  <1>10. Fresh'
    <2>1. Unproductive /\ ~ok => view = Seen(recs, Trace)
      BY <1>1, <1>3 DEF Fresh
    <2>2. CASE AtWork("analyst") /\ stage' = (IF ok THEN "look" ELSE "ask")
      BY <1>1, <1>3, <2>1, <2>2 DEF Fresh, Unproductive
    <2>3. CASE /\ AtWork("simulator") /\ stage' = "step" /\ turn' = turn
               /\ local' = [local EXCEPT !.gain = @ \/ ok]
      <3>1. local'.gain = (local.gain \/ ok)
        BY <2>3 DEF DemoInv, Locals
      <3>2. ~AtWork("analyst")'
        BY <2>3, Keys DEF AtWork
      <3>3. Unproductive' => Unproductive /\ ~ok
        BY <2>3, <3>1, <3>2 DEF Unproductive
      <3> QED
        BY <1>1, <1>3, <2>1, <2>3, <3>3 DEF Fresh
    <2>4. CASE AtWork("actuator") /\ stage' = "look"
      BY <2>4 DEF Fresh
    <2>5. CASE AtWork("actuator") /\ stage' = "step" /\ turn' = turn
      <3>1. ~AtWork("analyst")' /\ ~AtWork("simulator")'
        BY <2>5, Keys DEF AtWork
      <3> QED
        BY <2>5, <3>1 DEF Fresh, Unproductive
    <2> QED
      BY <1>2, <2>2, <2>3, <2>4, <2>5
  <1> QED
    BY <1>1, <1>7, <1>8, <1>9, <1>10 DEF QuietInv

LEMMA QuietInit == DemoInit => QuietInv
BY DEF DemoInit, QuietInv, RunsEndQuiet, Completed

\* An exception in a run is counted among its errors.
LEMMA QuietFails ==
    ASSUME WriteFails \/ PipelineFails \/ Restart
    PROVE  QuietInv'
  <1>1. errors' = TRUE
    BY DEF WriteFails, PipelineFails, StepFailed, Restart
  <1> QED
    BY <1>1 DEF QuietInv, RunsEndQuiet, Completed

LEMMA ProceedKeeps ==
    ASSUME Proceed
    PROVE  stage # "between" /\ errors' = errors
  <1>1. CASE Look \/ StartStep \/ GoRound \/ EndEpisode
    BY <1>1 DEF Look, StartStep, GoRound, EndEpisode, LookAround, EnterStep, EndRound, FinishRun
  <1>2. CASE SensorStep \/ AnalystStep \/ SimulatorPredicts \/ SimulatorEnds \/ ActuatorStep
    BY <1>2 DEF SensorStep, AnalystStep, SimulatorPredicts, SimulatorEnds, ActuatorStep, Propose,
       LeaveStep
  <1>3. CASE \E base \in BaseReasons : AdaptiveWrites(base)
    BY <1>3 DEF AdaptiveWrites, LeaveStep, orchVars
  <1>4. CASE (\E w \in DOMAIN OpOf : CallPipeline(w)) \/ PipelineStep \/ Answer
    BY <1>4 DEF CallPipeline, PipelineStep, Answer, LeaveStep, orchVars
  <1> QED
    BY <1>1, <1>2, <1>3, <1>4 DEF Proceed

LEMMA QuietNext ==
    ASSUME Inv, OneKernel, DemoInv, BoardInv, OwnProposal, QuietInv, MaxRounds > 2,
           [DemoNext]_demoVars
    PROVE  QuietInv'
  <1>1. CASE UNCHANGED demoVars
    <2>1. Trace' = Trace /\ Workers' = Workers
      BY <1>1 DEF Trace, Workers, demoVars, driverVars
    <2>2. RunsEndQuiet => RunsEndQuiet'
      BY <1>1 DEF RunsEndQuiet, Completed, Wanting, SensorWants, AnalystWants, AdaptiveWants,
         SimulatorWants, ActuatorWants, Shows, demoVars, vars, orchVars, workerVars, driverVars
    <2>3. Rounds /\ Flying /\ Fresh => Rounds' /\ Flying' /\ Fresh'
      BY <1>1, <2>1 DEF Rounds, Flying, Fresh, Unproductive, AtStep, AtWork, demoVars, vars, orchVars,
         workerVars
    <2>4. PastAreQuiet => PastAreQuiet'
      BY <1>1, <2>1, QuietAsBefore DEF PastAreQuiet, Past, demoVars, vars, orchVars, workerVars
    <2> QED
      BY <1>1, <2>2, <2>3, <2>4 DEF QuietInv, demoVars, orchVars
  <1>2. CASE \E n \in DOMAIN Readings : \E r \in Readings[n] : BeginEpisode(n, r)
    BY <1>2, QuietBegins
  <1>3. CASE WriteFails \/ PipelineFails \/ Restart
    BY <1>3, QuietFails
  <1>4. CASE Proceed
    <2>1. stage # "between" /\ errors' = errors
      BY <1>4, ProceedKeeps
    <2>2. CASE errors
      BY <2>1, <2>2 DEF QuietInv, RunsEndQuiet, Completed
    <2>3. CASE ~errors
      <3>1. Running
        BY <2>1, <2>3 DEF Running
      <3>2. ASSUME NEW base \in BaseReasons, AdaptiveWrites(base) PROVE QuietInv'
        BY <3>1, <3>2, QuietTeaches
      <3>3. ASSUME NEW w \in DOMAIN OpOf, CallPipeline(w) PROVE QuietInv'
        BY <3>1, <3>3, QuietCalls
      <3> QED
        BY <1>4, <3>1, <3>2, <3>3, QuietLooks, QuietStarts, QuietTurns, QuietEnds, QuietSenses,
           QuietWorks, QuietSimulated, QuietPipeline, QuietAnswers, Zenon DEF Proceed
    <2> QED
      BY <2>2, <2>3
  <1> QED
    BY <1>1, <1>2, <1>3, <1>4 DEF DemoNext

LEMMA QuietInvariant ==
    ASSUME OneKernel, MaxRounds > 2
    PROVE  DemoSpec => []QuietInv
  <1>1. DemoInit => QuietInv
    BY QuietInit
  <1>2. Inv /\ DemoInv /\ LessonsInv /\ QuietInv /\ [DemoNext]_demoVars => QuietInv'
    BY QuietNext DEF LessonsInv
  <1>3. DemoSpec => []Inv
    <2>1. DemoSpec => Spec
      BY DemoUsesKernel DEF UsesKernel
    <2> QED
      BY <2>1, KernelInv, PTL
  <1>4. DemoSpec => [](DemoInv /\ LessonsInv)
    BY LessonsInvariant
  <1> QED
    BY <1>1, <1>2, <1>3, <1>4, PTL DEF DemoSpec

\* A run without an exception stops because nobody has anything left to do on the board
\* as it is, not because a worker judged by an old view, and before the last round it
\* may have: whatever the readings, the rules and what was learned, two rounds will do
\* (Orchestrator.run, whose max_rounds is 20 unless it is told otherwise).
THEOREM DemoRunsEndQuiet ==
    ASSUME OneKernel, MaxRounds > 2
    PROVE  DemoSpec => []RunsEndQuiet
  <1>1. QuietInv => RunsEndQuiet
    BY DEF QuietInv, RunsEndQuiet, Completed
  <1>2. DemoSpec => []QuietInv
    BY QuietInvariant
  <1> QED
    BY <1>1, <1>2, PTL

-----------------------------------------------------------------------------
\* Decisions.  What an episode has come to, wherever it is: its readings, then its
\* belief, then its predictions, then its action.

Own(i)      == recs[i].trace = Trace
Stepping(w) == AtStep /\ AtWork(w)

\* The pipeline has done with the proposal, or is to refuse it.
Returned == stage = "inside" /\ pc[Main] = "return"
Declined == pc[Main] = "refuse" \/ (pc[Main] = "return" /\ job[Main].code # "COMMITTED")

\* The proposal a worker waits for.
InFlight(i) ==
    \/ stage = "call" /\ i = Len(recs)
    \/ stage = "inside" /\ pc[Main] # "return" /\ i = job[Main].prop

Percepts == CommittedAs(Trace, "percepts", temperature)
Beliefs  == CommittedAs(Trace, "beliefs", anomaly_detected)
Acts     == Of(Trace, "actions", "COMMIT")

\* A prediction made by rule n, or by another one that foresees the same.
Predicted(n) ==
    \E i \in DOMAIN recs :
        /\ Own(i) /\ Active(recs, i)
        /\ recs[i].slot = "predictions" /\ recs[i].kind = PredKind(alert)
        /\ recs[i].body.expected_outcome = Rules[n].expected_outcome

\* The actuator has acted.
Acted ==
    /\ "actuator" \in done
    /\ Stepping("actuator") => Returned /\ job[Main].code = "COMMITTED"

\* The records of the episode are of workers that stepped, and nothing else is
\* proposed than what is in flight.
OwnRecords ==
    \A i \in DOMAIN recs : Own(i) =>
        /\ ~recs[i].ttl
        /\ recs[i].mode = "PROPOSE" /\ Active(recs, i) => InFlight(i)
        /\ recs[i].slot = "beliefs" => recs[i].body.value /\ "analyst" \in done
        /\ recs[i].slot = "predictions" => "simulator" \in done
        /\ recs[i].slot = "actions" => "actuator" \in done

\* What is in flight is what the worker's step proposes.
Proposed ==
    \A i \in DOMAIN recs : InFlight(i) =>
        /\ AtWork("simulator") =>
             local.rule - 1 \in DOMAIN Rules /\ recs[i] = PredictionFrom(Rules[local.rule - 1], Trace)
        /\ AtWork("actuator") => recs[i] = IF local.safe THEN Review(Trace) ELSE Alert(Trace)

Evident ==
    /\ "sensor" \in done /\ ~Stepping("sensor") => Percepts # {}
    /\ "analyst" \in done => Percepts # {}

Believed ==
    /\ "simulator" \in done \/ "actuator" \in done => Beliefs # {}
    /\ "analyst" \in done /\ GoodEvidence /\ (Stepping("analyst") => Returned) => Beliefs # {}

\* The view the simulator judges its rules by, all through its step.
SimulatorSees ==
    /\ Held(recs, view, "percepts", temperature) # NoId
    /\ Held(recs, view, "beliefs", anomaly_detected) # NoId
    /\ \A i \in view : recs[i].slot # "predictions"

\* Every rule the reading meets is predicted by, up to the one the simulator has got to.
Predicting ==
    /\ Stepping("simulator") => SimulatorSees
    /\ "simulator" \in done =>
         \A n \in DOMAIN Rules :
             Meets(reading, n) /\ (Stepping("simulator") => n < local.rule) => Predicted(n)

\* The actuator acts once: by an alert if one is promised to be of use.
Acting ==
    /\ IF Acted THEN \E c \in DOMAIN recs : Acts = {c} /\ (Promised => recs[c].kind = alert)
       ELSE Acts = {}
    /\ Stepping("actuator") /\ local.safe => ~Promised

\* Why a pipeline refuses, if it does.
Judging ==
    stage = "inside" =>
        /\ pc[Main] = "needs" => job[Main].pos = 1
        /\ pc[Main] = "arbitrate" => reading.conflict
        /\ job[Main].op = "belief" /\ Declined => ~GoodEvidence
        /\ job[Main].op = "prediction" => ~Declined
        /\ job[Main].op = "action" => /\ local.safe => ~job[Main].need
                                      /\ Declined => ~local.safe /\ ~Promised

Outcome ==
    /\ OwnRecords /\ Proposed
    /\ Evident /\ Believed /\ Predicting /\ Acting
    /\ Judging

DecidedInv ==
    /\ stage = "between" => EpisodeDecided
    /\ Running => Outcome

\* What is proved above of every state of the demo.
Established ==
    /\ Inv /\ Known /\ DemoInv /\ BoardInv /\ OwnProposal
    /\ GroundsInv /\ QuietInv

\* What the records of the running episode are.
LEMMA OwnAre ==
    ASSUME Established, DemoRules, stage # "between", NEW i \in DOMAIN recs, Own(i)
    PROVE  /\ recs[i].slot = "percepts" =>
                i \in Percepts /\ recs[i].body = Payload(reading) /\ recs[i].conf = reading.conf
           /\ recs[i].slot = "beliefs" =>
                /\ recs[i].kind = anomaly_detected /\ recs[i].body.depends_on = <<temperature>>
                /\ recs[i].mode = "COMMIT" => i \in Beliefs
           /\ recs[i].slot = "predictions" =>
                /\ recs[i].kind = PredKind(alert) /\ recs[i].body.action_type = alert
                /\ \E n \in DOMAIN Rules :
                     Meets(reading, n) /\ recs[i].body.expected_outcome = Rules[n].expected_outcome
           /\ recs[i].mode = "COMMIT" /\ ~recs[i].ttl => Active(recs, i)
           /\ i # NoId
  <1>1. /\ Sound(recs, i) /\ EpisodeSound /\ StandsOrExpires(recs)
        /\ recs \in Seq(Record)
    BY DEF Established, GroundsInv, Known, Inv, TypeOK
  <1>2. /\ \A k \in DOMAIN recs : recs[k].slot = "percepts" /\ Own(k) =>
             recs[k].body = Payload(reading) /\ recs[k].conf = reading.conf
    BY <1>1 DEF EpisodeSound, Percept, Proposal, Own
  <1>3. DOMAIN recs = 1..Len(recs) /\ Len(recs) \in Nat /\ i \in 1..Len(recs)
    BY <1>1, LenProperties
  <1>4. recs[i].slot = "percepts" =>
          i \in Percepts /\ recs[i].body = Payload(reading) /\ recs[i].conf = reading.conf
    BY <1>1, <1>2 DEF Sound, PerceptSound, Percepts, CommittedAs, Of, Own
  <1>5. recs[i].slot = "beliefs" =>
          /\ recs[i].kind = anomaly_detected /\ recs[i].body.depends_on = <<temperature>>
          /\ recs[i].mode = "COMMIT" => i \in Beliefs
    BY <1>1 DEF Sound, BeliefSound, Beliefs, CommittedAs, Of, Own
  <1>6. ASSUME recs[i].slot = "predictions"
        PROVE  /\ recs[i].kind = PredKind(alert) /\ recs[i].body.action_type = alert
               /\ \E n \in DOMAIN Rules :
                    Meets(reading, n) /\ recs[i].body.expected_outcome = Rules[n].expected_outcome
    <2>1. PICK n \in DOMAIN Rules :
            /\ recs[i].kind = PredKind(Rules[n].action_type)
            /\ recs[i].body.action_type = Rules[n].action_type
            /\ recs[i].body.expected_outcome = Rules[n].expected_outcome
            /\ Rules[n].action_type = alert => Grounded(recs, i, n)
      BY <1>1, <1>6 DEF Sound, PredictionSound
    <2>2. Rules[n].action_type = alert
      BY DEF DemoRules
    <2>3. PICK p \in 1..(i - 1) :
            /\ recs[p].slot = "percepts" /\ recs[p].trace = recs[i].trace
            /\ MeetsConditions(recs[p].body, Rules[n].percept_conditions[temperature])
      BY <2>1, <2>2 DEF Grounded
    <2>4. p \in DOMAIN recs
      BY <1>3
    <2>5. Meets(reading, n)
      BY <1>2, <2>3, <2>4 DEF Meets, Own
    <2> QED
      BY <2>1, <2>2, <2>5
  <1>7. recs[i].mode = "COMMIT" /\ ~recs[i].ttl => Active(recs, i)
    BY <1>1 DEF StandsOrExpires, Active
  <1>8. i # NoId
    BY <1>3 DEF NoId
  <1> QED
    BY <1>4, <1>5, <1>6, <1>7, <1>8

\* What a worker is shown of the episode is all that was committed.
LEMMA ShownIsCommitted ==
    ASSUME Established, DemoRules, stage # "between", OwnRecords, NEW slot, NEW kind, slot # "constraints"
    PROVE  /\ Held(recs, Seen(recs, Trace), slot, kind) # NoId <=> CommittedAs(Trace, slot, kind) # {}
           /\ \A i \in Seen(recs, Trace) : recs[i].slot = slot => i \in DOMAIN recs /\ Own(i)
  <1> DEFINE v == Seen(recs, Trace)
  <1>1. recs \in Seq(Record) /\ Len(recs) \in Nat /\ DOMAIN recs = 1..Len(recs)
    BY LenProperties DEF Established, Inv, TypeOK
  <1>2. \A i \in v : i \in DOMAIN recs /\ (recs[i].slot = slot => Own(i))
    BY DEF Seen, Visible, Own, Established, GroundsInv, Sound, ScopeSound
  <1>3. \A i \in DOMAIN recs : Own(i) /\ recs[i].mode = "COMMIT" => i \in v
    BY OwnAre DEF Seen, Visible, Own, OwnRecords
  <1> HIDE DEF v
  <1>4. {i \in Committed(recs, v, slot) : recs[i].kind = kind} = CommittedAs(Trace, slot, kind)
    BY <1>2, <1>3 DEF Committed, CommittedAs, Of, Own
  <1>5. Held(recs, v, slot, kind) # NoId <=> CommittedAs(Trace, slot, kind) # {}
    <2> DEFINE S == CommittedAs(Trace, slot, kind)
    <2>1. S \in SUBSET (1..Len(recs))
      BY <1>1 DEF CommittedAs, Of
    <2>2. Held(recs, v, slot, kind) = IF S = {} THEN NoId ELSE Max(S)
      BY <1>4 DEF Held
    <2> HIDE DEF S
    <2>3. S # {} => Max(S) \in S
      BY <1>1, <2>1, MaxIsMember
    <2>4. NoId \notin S
      BY <1>1, <2>1 DEF NoId
    <2> QED
      BY <2>2, <2>3, <2>4 DEF S
  <1> QED
    BY <1>2, <1>5 DEF v

\* What stays of the episode as it goes on.
LEMMA EpisodeGoesOn ==
    ASSUME Established, OneKernel, [DemoNext]_demoVars, Trace' = Trace
    PROVE  /\ News(recs, recs', Trace)
           /\ \A i \in DOMAIN recs : i \in DOMAIN recs' /\ Kept(recs[i], recs'[i])
           /\ \A i \in DOMAIN recs' : i \in DOMAIN recs \/ i \in (Len(recs) + 1)..Len(recs')
           /\ \A i \in (Len(recs) + 1)..Len(recs') :
                /\ i \in DOMAIN recs' /\ i \notin DOMAIN recs
                /\ recs'[i].trace = Trace /\ recs'[i].status = "ACTIVE"
           /\ DOMAIN recs = 1..Len(recs) /\ Len(recs) \in Nat
           /\ DOMAIN recs' = 1..Len(recs') /\ Len(recs') \in Nat
           /\ Percepts \subseteq Percepts' /\ Beliefs \subseteq Beliefs' /\ Acts \subseteq Acts'
  <1>1. News(recs, recs', Trace)
    BY DemoNews DEF Established
  <1>2. PICK m \in Nat, n \in Nat :
            /\ m = Len(recs) /\ n = Len(recs') /\ m <= n
            /\ DOMAIN recs = 1..m /\ DOMAIN recs' = 1..n
    BY <1>1, LenProperties DEF News
  <1>3. \A i \in 1..m : i \in 1..n /\ Kept(recs[i], recs'[i])
    BY <1>1, <1>2 DEF News
  <1>4. \A i \in (m + 1)..n : i \in 1..n /\ i \notin 1..m
    BY <1>2
  <1>5. \A i \in 1..n : i \in 1..m \/ i \in (m + 1)..n
    BY <1>2
  <1>6. \A i \in (m + 1)..n : recs'[i].trace = Trace /\ recs'[i].status = "ACTIVE"
    BY <1>1, <1>2 DEF News
  <1>7. Percepts \subseteq Percepts' /\ Beliefs \subseteq Beliefs' /\ Acts \subseteq Acts'
    BY <1>2, <1>3 DEF Percepts, Beliefs, Acts, CommittedAs, Of, Kept
  <1> QED
    BY <1>1, <1>2, <1>3, <1>4, <1>5, <1>6, <1>7

LEMMA SameEpisode ==
    ASSUME recs' = recs, Trace' = Trace
    PROVE  /\ Percepts' = Percepts /\ Beliefs' = Beliefs /\ Acts' = Acts
           /\ \A i : Own(i)' <=> Own(i)
           /\ \A n \in DOMAIN Rules : Predicted(n)' <=> Predicted(n)
BY DEF Percepts, Beliefs, Acts, CommittedAs, Of, Own, Predicted

\* A step that looks on, or one that leaves its step with what it was to find out found.
LEMMA OutcomeRests ==
    ASSUME Outcome, recs' = recs, Trace' = Trace, UNCHANGED <<done, reading>>,
           stage' \notin {"step", "call", "inside"},
           \A i : ~InFlight(i), ~Stepping("sensor"),
           Stepping("analyst") => Returned,
           Stepping("simulator") => \A n \in DOMAIN Rules : Meets(reading, n) => Predicted(n),
           Stepping("actuator") => Acted
    PROVE  Outcome'
  <1>1. \A w : ~Stepping(w)'
    BY DEF Stepping, AtStep
  <1>2. \A i : ~InFlight(i)'
    BY DEF InFlight
  <1>3. OwnRecords' /\ Proposed'
    BY <1>2 DEF Outcome, OwnRecords, Proposed, Own
  <1>4. Evident' /\ Believed'
    BY <1>1, SameEpisode DEF Outcome, Evident, Believed, GoodEvidence
  <1>5. Predicting'
    <2>1. ASSUME "simulator" \in done, NEW n \in DOMAIN Rules, Meets(reading, n) PROVE Predicted(n)
      BY <2>1 DEF Outcome, Predicting
    <2>2. \A n \in DOMAIN Rules : "simulator" \in done /\ Meets(reading, n) => Predicted(n)'
      BY <2>1, SameEpisode
    <2> QED
      BY <1>1, <2>2 DEF Predicting
  <1>6. Acting'
    <2>1. Acted' <=> Acted
      BY <1>1 DEF Acted
    <2>2. Promised' <=> Promised
      BY DEF Promised
    <2> QED
      BY <1>1, <2>1, <2>2, SameEpisode DEF Outcome, Acting
  <1>7. Judging'
    BY DEF Judging
  <1> QED
    BY <1>3, <1>4, <1>5, <1>6, <1>7 DEF Outcome

LEMMA DecidesLooks ==
    ASSUME Outcome, Running, Look \/ GoRound
    PROVE  DecidedInv'
  <1>1. /\ stage \in {"look", "ask"} /\ stage' \in {"look", "ask", "final"} /\ recs' = recs
        /\ UNCHANGED <<errors, workerVars, episode>>
    BY DEF Look, GoRound, LookAround, EndRound, vars, driverVars
  <1>2. Trace' = Trace
    BY <1>1 DEF Trace
  <1>3. \A w : ~Stepping(w)
    BY <1>1 DEF Stepping, AtStep
  <1>4. \A i : ~InFlight(i)
    BY <1>1 DEF InFlight
  <1>5. Outcome'
    BY <1>1, <1>2, <1>3, <1>4, OutcomeRests DEF workerVars
  <1> QED
    BY <1>1, <1>5 DEF DecidedInv

\* The rules that fire are those the reading meets.
LEMMA FiringMeets ==
    ASSUME Established, DemoRules, Running, Stepping("simulator"), Predicting,
           NEW n \in DOMAIN Rules, local.rule <= n
    PROVE  n \in FiringNow <=> Meets(reading, n)
  <1> DEFINE held == Held(recs, view, "percepts", temperature)
  <1>1. /\ held # NoId /\ Held(recs, view, "beliefs", anomaly_detected) # NoId
        /\ \A i \in view : recs[i].slot # "predictions"
    BY DEF Predicting, SimulatorSees
  <1>2. /\ recs \in Seq(Record) /\ Len(recs) \in Nat /\ DOMAIN recs = 1..Len(recs)
        /\ stage # "between"
        /\ \A i \in view : i \in DOMAIN recs /\ (recs[i].slot # "constraints" => Own(i))
    BY LenProperties DEF Established, Inv, TypeOK, GroundsInv, EpisodeSound, Running, Own
  <1>3. recs[held].body = Payload(reading)
    <2>1. PICK m \in Nat : m = Len(recs) /\ DOMAIN recs = 1..m
      BY <1>2
    <2>2. view \subseteq 1..m
      BY <1>2, <2>1
    <2>3. held \in Committed(recs, view, "percepts")
      BY <1>1, <2>2, HeldIsListed
    <2> HIDE DEF held
    <2>4. held \in DOMAIN recs /\ recs[held].slot = "percepts" /\ Own(held)
      BY <1>2, <2>3 DEF Committed
    <2> QED
      BY <1>2, <2>4, OwnAre
  <1>4. Held(recs, view, "predictions", PredKind(Rules[n].action_type)) = NoId
    <2>1. Committed(recs, view, "predictions") = {}
      BY <1>1 DEF Committed
    <2> QED
      BY <2>1 DEF Held
  <1>5. RuleMatches(recs, view, Rules[n]) <=> Meets(reading, n)
    <2>1. /\ Rules[n].requires_beliefs = <<anomaly_detected>>
          /\ DOMAIN Rules[n].belief_conditions = {}
          /\ DOMAIN Rules[n].percept_conditions = {temperature}
      BY DEF DemoRules
    <2>2. \A i \in DOMAIN Rules[n].requires_beliefs :
             Held(recs, view, "beliefs", Rules[n].requires_beliefs[i]) # NoId
      <3>1. \A i \in DOMAIN <<anomaly_detected>> : <<anomaly_detected>>[i] = anomaly_detected
        OBVIOUS
      <3> QED
        BY <1>1, <2>1, <3>1
    <2>3. SlotMeets(recs, view, "beliefs", Rules[n].belief_conditions)
      BY <2>1 DEF SlotMeets
    <2>4. SlotMeets(recs, view, "percepts", Rules[n].percept_conditions)
            <=> MeetsConditions(Payload(reading), Rules[n].percept_conditions[temperature])
      BY <1>1, <1>3, <2>1 DEF SlotMeets
    <2> QED
      BY <2>2, <2>3, <2>4 DEF RuleMatches, Meets
  <1>6. n \in local.rule..Len(Rules)
    <2>1. local.rule \in Nat /\ Len(Rules) \in Nat /\ n \in 1..Len(Rules)
      BY EpisodesAssumption DEF Established, DemoInv, Locals
    <2> QED
      BY <2>1
  <1> QED
    BY <1>4, <1>5, <1>6 DEF FiringNow, Firing

LEMMA DecidesSimulated ==
    ASSUME Established, DemoRules, Outcome, Running, SimulatorEnds
    PROVE  DecidedInv'
  <1>1. /\ stage = "step" /\ AtWork("simulator") /\ FiringNow = {} /\ recs' = recs
        /\ stage' \in {"look", "ask"}
        /\ UNCHANGED <<errors, workerVars, episode>>
    BY DEF SimulatorEnds, LeaveStep, vars, driverVars
  <1>2. Trace' = Trace
    BY <1>1 DEF Trace
  <1>3. Stepping("simulator") /\ ~Stepping("sensor") /\ ~Stepping("analyst") /\ ~Stepping("actuator")
    BY <1>1, Keys DEF Stepping, AtStep, AtWork
  <1>4. \A i : ~InFlight(i)
    BY <1>1 DEF InFlight
  <1>5. ASSUME NEW n \in DOMAIN Rules, Meets(reading, n) PROVE Predicted(n)
    <2>1. local.rule \in Nat /\ n \in Nat
      BY EpisodesAssumption DEF Established, DemoInv, Locals
    <2>2. n < local.rule
      BY <1>1, <1>3, <1>5, <2>1, FiringMeets DEF Outcome
    <2>3. "simulator" \in done
      BY <1>1, <1>3 DEF Established, QuietInv, Running, Flying, AtStep, OneShot
    <2> QED
      BY <1>5, <2>2, <2>3 DEF Outcome, Predicting
  <1>6. Outcome'
    BY <1>1, <1>2, <1>3, <1>4, <1>5, OutcomeRests DEF workerVars
  <1> QED
    BY <1>1, <1>6 DEF DecidedInv

\* An episode begins with nothing of its own on the board.
LEMMA DecidesBegins ==
    ASSUME Established, OneKernel, [DemoNext]_demoVars, NEW e, NEW r, BeginEpisode(e, r)
    PROVE  DecidedInv'
  <1>1. /\ recs' = recs /\ stage' = "look" /\ episode' = episode + 1 /\ done' = {}
    BY DEF BeginEpisode, StartRun, vars
  <1>2. /\ episode \in Nat /\ episode' \in DOMAIN TraceIds
        /\ DOMAIN TraceIds = 1..Len(TraceIds) /\ Len(TraceIds) \in Nat
    <2>1. DemoInv'
      BY DemoKeepsInv DEF Established
    <2>2. Len(TraceIds) \in Nat /\ DOMAIN TraceIds = 1..Len(TraceIds)
      BY EpisodesAssumption
    <2> QED
      BY <1>1, <2>1, <2>2 DEF DemoInv, Established
  <1>3. ASSUME NEW i \in DOMAIN recs PROVE recs[i].trace # Trace'
    <2>1. PICK k \in 1..episode : recs[i].trace = TraceIds[k]
      BY <1>3 DEF Established, BoardInv
    <2>2. k \in DOMAIN TraceIds /\ k # episode'
      BY <1>1, <1>2
    <2>3. TraceIds[k] # TraceIds[episode']
      BY <1>2, <2>2, EpisodesAssumption
    <2> QED
      BY <2>1, <2>3 DEF Trace
  <1>4. /\ \A i \in DOMAIN recs' : ~Own(i)'
        /\ \A w : ~Stepping(w)'
        /\ \A i : ~InFlight(i)'
        /\ ~Acted'
    BY <1>1, <1>3 DEF Own, Stepping, AtStep, InFlight, Acted
  <1>5. Acts' = {}
    BY <1>4 DEF Acts, Of, Own
  <1>6. Outcome'
    BY <1>1, <1>4, <1>5
    DEF Outcome, OwnRecords, Proposed, Evident, Believed, Predicting, Acting, Judging
  <1> QED
    BY <1>1, <1>6 DEF DecidedInv

\* What the episode has come to when nobody has anything left to do is what its reading
\* decides.
LEMMA QuietIsDecided ==
    ASSUME Established, DemoRules, DependenciesJudged, WeakEvidenceRefused, AlertsAreGrounded,
           Outcome, Running, stage = "final"
    PROVE  /\ Beliefs # {} <=> GoodEvidence
           /\ Cardinality(Acts) = IF GoodEvidence THEN 1 ELSE 0
           /\ CommittedAs(Trace, "actions", alert) # {} <=> GoodEvidence /\ Promised
           /\ \A slot \in Slots : \A i \in Of(Trace, slot, "PROPOSE") : ~Active(recs, i)
  <1> DEFINE v == Seen(recs, Trace)
  <1>1. \A w : ~Stepping(w)
    BY DEF Stepping, AtStep
  <1>2. \A i : ~InFlight(i)
    BY DEF InFlight
  <1>3. \A w \in Workers : ~WantsOn(v, w)
    BY DEF Established, QuietInv, Running, PastAreQuiet, Past
  <1>4. /\ Held(recs, v, "percepts", temperature) # NoId <=> Percepts # {}
        /\ Held(recs, v, "beliefs", anomaly_detected) # NoId <=> Beliefs # {}
        /\ Held(recs, v, "actions", alert) # NoId <=> CommittedAs(Trace, "actions", alert) # {}
    BY ShownIsCommitted DEF Outcome, Running, Percepts, Beliefs
  <1> HIDE DEF v
  <1>5. Percepts # {}
    <2>1. reading \in Readings[episode] /\ episode \in DOMAIN Readings
      BY EpisodesAssumption DEF Established, DemoInv, Running
    <2>2. reading # NoReading
      <3>1. reading.conf \in 0..MaxConf
        BY <2>1, GroundsAssumption
      <3>2. NoReading.conf = -1
        BY DEF NoReading, NoConf
      <3> QED
        BY <3>1, <3>2, ScaleAssumption
    <2>3. "sensor" \in done
      BY <1>3, <2>2, Keys DEF WantsOn, SensorWants
    <2> QED
      BY <1>1, <2>3 DEF Outcome, Evident
  <1>6. GoodEvidence => Beliefs # {}
    <2>1. "analyst" \in done \/ Beliefs # {}
      BY <1>3, <1>4, <1>5, Keys DEF WantsOn
    <2> QED
      BY <1>1, <2>1 DEF Outcome, Believed
  <1>7. ASSUME Beliefs # {} PROVE GoodEvidence
    <2>1. PICK b \in DOMAIN recs : recs[b].slot = "beliefs" /\ recs[b].mode = "COMMIT" /\ Own(b)
      BY <1>7 DEF Beliefs, CommittedAs, Of, Own
    <2>2. PICK p \in CommittedAs(Trace, "percepts", temperature) :
            /\ ~recs[p].body.stale
            /\ recs[p].conf >= (IF recs[p].body.conflict THEN ArbConf ELSE MinConf)
      <3>1. /\ \A i \in DOMAIN recs : Sound(recs, i)
            /\ recs \in Seq(Record)
        BY DEF Established, GroundsInv, Inv, TypeOK
      <3>2. \E p \in CommittedAs(recs[b].trace, "percepts", temperature) :
               /\ p < b /\ ~recs[p].body.stale
               /\ recs[p].conf >= (IF recs[p].body.conflict THEN ArbConf ELSE MinConf)
        BY <2>1, <3>1, BeliefsAreGrounded
      <3> QED
        BY <2>1, <3>2 DEF Own
    <2>3. p \in DOMAIN recs /\ recs[p].slot = "percepts" /\ Own(p)
      BY <2>2 DEF CommittedAs, Of, Own
    <2>4. recs[p].body = Payload(reading) /\ recs[p].conf = reading.conf
      BY <2>3, OwnAre DEF Running
    <2>5. recs[p].body.stale = reading.stale /\ recs[p].body.conflict = reading.conflict
      BY <2>4 DEF Payload
    <2> QED
      BY <2>2, <2>4, <2>5 DEF GoodEvidence
  <1>8. Acted <=> GoodEvidence
    <2>1. GoodEvidence => "actuator" \in done
      <3>1. "actuator" \in done \/ Beliefs = {} \/ CommittedAs(Trace, "actions", alert) # {}
        BY <1>3, <1>4, Keys DEF WantsOn
      <3>2. CommittedAs(Trace, "actions", alert) # {} => "actuator" \in done
        BY DEF CommittedAs, Of, Own, Outcome, OwnRecords
      <3> QED
        BY <1>6, <3>1, <3>2
    <2>2. "actuator" \in done => GoodEvidence
      BY <1>7 DEF Outcome, Believed
    <2> QED
      BY <1>1, <2>1, <2>2 DEF Acted
  <1>9. ASSUME NEW c \in CommittedAs(Trace, "actions", alert) PROVE Promised
    <2>1. c \in DOMAIN recs /\ recs[c].mode = "COMMIT" /\ recs[c].slot = "actions" /\ recs[c].kind = alert
          /\ recs[c].trace = Trace
      BY DEF CommittedAs, Of
    <2>2. PICK p \in CommittedAs(Trace, "percepts", temperature), n \in DOMAIN Rules :
            /\ Rules[n].expected_outcome >= 0
            /\ MeetsConditions(recs[p].body, Rules[n].percept_conditions[temperature])
      BY <2>1 DEF AlertsAreGrounded
    <2>3. p \in DOMAIN recs /\ recs[p].slot = "percepts" /\ Own(p)
      BY DEF CommittedAs, Of, Own
    <2>4. recs[p].body = Payload(reading)
      BY <2>3, OwnAre DEF Running
    <2> QED
      BY <2>2, <2>4 DEF Promised, Meets
  <1>10. CASE GoodEvidence
    <2>1. PICK c \in DOMAIN recs : Acts = {c} /\ (Promised => recs[c].kind = alert)
      BY <1>8, <1>10 DEF Outcome, Acting
    <2>2. Cardinality(Acts) = 1
      BY <2>1, FS_Singleton
    <2>3. Promised => c \in CommittedAs(Trace, "actions", alert)
      BY <2>1 DEF CommittedAs, Acts
    <2> QED
      BY <1>2, <1>6, <1>9, <1>10, <2>2, <2>3 DEF Outcome, OwnRecords, Of, Own
  <1>11. CASE ~GoodEvidence
    <2>1. Acts = {}
      BY <1>8, <1>11 DEF Outcome, Acting
    <2>2. Cardinality(Acts) = 0
      BY <2>1, FS_EmptySet
    <2>3. CommittedAs(Trace, "actions", alert) = {}
      BY <2>1 DEF CommittedAs, Acts
    <2> QED
      BY <1>2, <1>7, <1>11, <2>2, <2>3 DEF Outcome, OwnRecords, Of, Own
  <1> QED
    BY <1>10, <1>11

LEMMA DecidesEnds ==
    ASSUME Established, DemoRules, DependenciesJudged, WeakEvidenceRefused, AlertsAreGrounded,
           Outcome, Running, EndEpisode
    PROVE  DecidedInv'
  <1>1. /\ stage = "final" /\ stage' = "between" /\ recs' = recs
        /\ UNCHANGED <<errors, reading, episode>>
    BY DEF EndEpisode, FinishRun, vars, workerVars, driverVars
  <1>2. Trace' = Trace
    BY <1>1 DEF Trace
  <1>3. EpisodeDecided'
    <2>1. /\ \A trace, slot, kind : CommittedAs(trace, slot, kind)' = CommittedAs(trace, slot, kind)
          /\ \A trace, slot, mode : Of(trace, slot, mode)' = Of(trace, slot, mode)
          /\ \A i : Active(recs, i)' <=> Active(recs, i)
          /\ GoodEvidence' <=> GoodEvidence
          /\ Promised' <=> Promised
      BY <1>1 DEF CommittedAs, Of, Active, GoodEvidence, Promised
    <2>2. /\ CommittedAs(Trace, "beliefs", anomaly_detected)'
               = CommittedAs(Trace, "beliefs", anomaly_detected)
          /\ Of(Trace, "actions", "COMMIT")' = Of(Trace, "actions", "COMMIT")
          /\ CommittedAs(Trace, "actions", alert)' = CommittedAs(Trace, "actions", alert)
          /\ \A slot : Of(Trace, slot, "PROPOSE")' = Of(Trace, slot, "PROPOSE")
      BY <1>1, <1>2 DEF CommittedAs, Of
    <2> QED
      BY <1>1, <2>1, <2>2, QuietIsDecided DEF EpisodeDecided, Beliefs, Acts
  <1> QED
    BY <1>1, <1>3 DEF DecidedInv, Running

\* The first of those who want to act steps.
LEMMA DecidesStarts ==
    ASSUME Established, DemoRules, Outcome, Running, StartStep
    PROVE  DecidedInv'
  <1> DEFINE keys == Willing(Wanting)
  <1>1. /\ stage = "ask" /\ stage' = "step" /\ recs' = recs /\ keys # {} /\ turn' = Min(keys)
        /\ done' = done \cup {w \in OneShot : DependencyKey(w) = turn'}
        /\ local' = NoLocals
        /\ UNCHANGED <<errors, reading, view, episode>>
    BY DEF StartStep, EnterStep, vars, driverVars
  <1>2. Trace' = Trace /\ view = Seen(recs, Trace)
    BY <1>1 DEF Trace, Established, QuietInv, Running, Fresh
  <1>3. PICK x \in Workers : WantsOn(view, x) /\ turn' = DependencyKey(x)
    <2>1. keys \subseteq {DependencyKey(w) : w \in Wanting} /\ Wanting \subseteq Workers
      BY DEF Willing, Wanting
    <2>2. keys \in SUBSET Nat
      BY <2>1, Keys
    <2> HIDE DEF keys
    <2>3. turn' \in keys
      BY <1>1, <2>2, MinIsMember
    <2> QED
      BY <2>1, <2>3, WantingOnView
  <1> HIDE DEF keys
  <1>4. /\ \A w \in Workers : Stepping(w)' <=> w = x
        /\ \A w : ~Stepping(w)
        /\ \A i : ~InFlight(i) /\ ~InFlight(i)'
        /\ ~Returned'
    BY <1>1, <1>3, OrchestratorAssumption DEF Stepping, AtStep, AtWork, InFlight, Returned
  <1>5. /\ x \notin done /\ done \subseteq done'
        /\ \A w \in OneShot : w \in done' => w \in done \/ w = x
    BY <1>1, <1>3, Keys DEF WantsOn, OneShot
  <1>6. stage # "between" /\ OwnRecords
    BY DEF Outcome, Running
  <1>7. /\ Held(recs, view, "percepts", temperature) # NoId <=> Percepts # {}
        /\ Held(recs, view, "beliefs", anomaly_detected) # NoId <=> Beliefs # {}
        /\ \A i \in view : recs[i].slot \in {"beliefs", "predictions"} => i \in DOMAIN recs /\ Own(i)
    BY <1>2, <1>6, ShownIsCommitted DEF Percepts, Beliefs
  <1>8. OwnRecords' /\ Proposed'
    <2>1. OwnRecords'
      BY <1>1, <1>2, <1>4, <1>5 DEF Outcome, OwnRecords, Own, Active
    <2>2. Proposed'
      BY <1>4 DEF Proposed
    <2> QED
      BY <2>1, <2>2
  <1>9. Evident'
    <2>1. x = "analyst" => Percepts # {}
      BY <1>3, <1>7 DEF WantsOn
    <2>2. "analyst" \in done' => Percepts # {}
      BY <1>5, <2>1 DEF Outcome, Evident, OneShot
    <2>3. "sensor" \in done' /\ x # "sensor" => Percepts # {}
      BY <1>4, <1>5 DEF Outcome, Evident, OneShot
    <2>4. Stepping("sensor")' <=> x = "sensor"
      BY <1>4, Keys
    <2> QED
      BY <1>1, <1>2, <2>2, <2>3, <2>4, SameEpisode DEF Evident
  <1>10. x = "simulator" => Beliefs # {}
    <2> SUFFICES ASSUME x = "simulator" PROVE Beliefs # {}
      OBVIOUS
    <2>1. PICK i \in view : recs[i].slot = "beliefs"
      BY <1>3 DEF WantsOn, SimulatorWants
    <2>2. i \in DOMAIN recs /\ Own(i) /\ Active(recs, i)
      BY <1>2, <1>7, <2>1 DEF Seen
    <2>3. recs[i].mode # "PROPOSE"
      BY <1>4, <2>2 DEF Outcome, OwnRecords
    <2>4. recs[i].mode \in Modes
      <3>1. recs[i] \in Record
        BY <2>2, ElementOfSeq, LenProperties DEF Established, Inv, TypeOK
      <3> QED
        BY <3>1 DEF Record, RecordWith
    <2> QED
      BY <1>6, <2>1, <2>2, <2>3, <2>4, OwnAre DEF Modes
  <1>11. Believed'
    <2>1. x = "actuator" => Beliefs # {}
      BY <1>3, <1>7 DEF WantsOn
    <2>2. "simulator" \in done' \/ "actuator" \in done' => Beliefs # {}
      BY <1>5, <1>10, <2>1 DEF Outcome, Believed, OneShot
    <2>3. "analyst" \in done' /\ GoodEvidence /\ x # "analyst" => Beliefs # {}
      BY <1>4, <1>5 DEF Outcome, Believed, OneShot
    <2>4. Stepping("analyst")' <=> x = "analyst"
      BY <1>4, Keys
    <2>5. GoodEvidence' <=> GoodEvidence
      BY <1>1 DEF GoodEvidence
    <2> QED
      BY <1>1, <1>2, <1>4, <2>2, <2>3, <2>4, <2>5, SameEpisode DEF Believed
  <1>12. Predicting'
    <2>1. Stepping("simulator")' <=> x = "simulator"
      BY <1>4, Keys
    <2>2. ASSUME x = "simulator" PROVE SimulatorSees'
      <3>1. PICK b \in DOMAIN recs : Own(b) /\ recs[b].slot = "beliefs"
        BY <1>10, <2>2 DEF Beliefs, CommittedAs, Of, Own
      <3>2. Percepts # {}
        BY <3>1 DEF Outcome, OwnRecords, Evident
      <3>3. \A i \in view : recs[i].slot # "predictions"
        BY <1>5, <1>7, <2>2 DEF Outcome, OwnRecords
      <3> QED
        BY <1>1, <1>7, <1>10, <2>2, <3>2, <3>3 DEF SimulatorSees
    <2>3. ASSUME NEW n \in DOMAIN Rules, Meets(reading, n), "simulator" \in done',
                 x = "simulator" => n < local'.rule
          PROVE  Predicted(n)'
      <3>1. x # "simulator"
        <4>1. n \in 1..Len(Rules) /\ Len(Rules) \in Nat /\ local'.rule = 1
          BY <1>1, EpisodesAssumption DEF NoLocals
        <4> QED
          BY <2>3, <4>1
      <3>2. "simulator" \in done
        BY <1>5, <2>3, <3>1 DEF OneShot
      <3>3. Predicted(n)
        BY <1>4, <2>3, <3>2 DEF Outcome, Predicting
      <3> QED
        BY <1>1, <1>2, <3>3, SameEpisode
    <2> QED
      BY <1>1, <2>1, <2>2, <2>3 DEF Predicting
  <1>13. Acting'
    <2>1. Stepping("actuator")' <=> x = "actuator"
      BY <1>4, Keys
    <2>2. Acted' <=> Acted
      BY <1>4, <1>5, <2>1 DEF Acted, OneShot
    <2>3. Promised' <=> Promised
      BY <1>1 DEF Promised
    <2>4. ~local'.safe
      BY <1>1 DEF NoLocals
    <2> QED
      BY <1>1, <1>2, <2>2, <2>3, <2>4, SameEpisode DEF Outcome, Acting
  <1>14. Judging'
    BY <1>1 DEF Judging
  <1>15. Outcome'
    BY <1>8, <1>9, <1>11, <1>12, <1>13, <1>14 DEF Outcome
  <1> QED
    BY <1>1, <1>15 DEF DecidedInv

\* The simulator goes on seeing what it saw.
LEMMA StillSees ==
    ASSUME Established, Running, SimulatorSees, view' = view,
           \A i \in DOMAIN recs : i \in DOMAIN recs' /\ Kept(recs[i], recs'[i])
    PROVE  SimulatorSees'
  <1>1. \A i \in view : recs'[i].slot = recs[i].slot /\ recs'[i].mode = recs[i].mode
                        /\ recs'[i].kind = recs[i].kind
    BY DEF Established, GroundsInv, EpisodeSound, Running, Kept
  <1>2. ASSUME NEW slot, NEW kind PROVE Held(recs', view, slot, kind) = Held(recs, view, slot, kind)
    <2>1. {i \in Committed(recs', view, slot) : recs'[i].kind = kind}
          = {i \in Committed(recs, view, slot) : recs[i].kind = kind}
      BY <1>1 DEF Committed
    <2> QED
      BY <2>1, Zenon DEF Held
  <1> QED
    BY <1>1, <1>2 DEF SimulatorSees

\* A record is added at the end of the board.
Added(d) ==
    /\ DOMAIN recs = 1..Len(recs) /\ DOMAIN recs' = 1..(Len(recs) + 1)
    /\ Len(recs) \in Nat /\ Len(recs') = Len(recs) + 1
    /\ \A i \in 1..Len(recs) : recs'[i] = recs[i]
    /\ recs'[Len(recs')] = d

LEMMA WriteAdds ==
    ASSUME Inv, NEW d \in Drafts, Write(d)
    PROVE  Added(d)
  <1>1. recs \in Seq(Record) /\ d \in Record /\ recs' = Append(recs, d)
    BY PublishedIsRecord DEF Write, Inv, TypeOK
  <1>2. /\ DOMAIN recs' = 1..Len(recs') /\ Len(recs') = Len(recs) + 1 /\ Len(recs) \in Nat
        /\ DOMAIN recs = 1..Len(recs) /\ recs'[Len(recs) + 1] = d
        /\ \A i \in 1..Len(recs) : recs'[i] = recs[i]
    BY <1>1, AppendProperties, LenProperties
  <1> QED
    BY <1>2 DEF Added

\* What was predicted stays so, and only actions that are committed add to the acts.
LEMMA AddedKeeps ==
    ASSUME NEW d, Added(d), Trace' = Trace, d.trace = Trace
    PROVE  /\ \A n \in DOMAIN Rules : Predicted(n) => Predicted(n)'
           /\ d.slot # "actions" \/ d.mode # "COMMIT" => Acts' = Acts
           /\ Percepts \subseteq Percepts' /\ Beliefs \subseteq Beliefs'
           /\ \A i \in DOMAIN recs' : \/ i \in DOMAIN recs /\ recs'[i] = recs[i]
                                      \/ i = Len(recs') /\ recs'[i] = d
           /\ Len(recs') \in DOMAIN recs' /\ \A i \in DOMAIN recs : i \in DOMAIN recs' /\ recs'[i] = recs[i]
  <1>1. PICK m \in Nat : m = Len(recs) /\ Len(recs') = m + 1 /\ DOMAIN recs = 1..m /\ DOMAIN recs' = 1..(m + 1)
                         /\ (\A i \in 1..m : recs'[i] = recs[i]) /\ recs'[m + 1] = d
    BY DEF Added
  <1>2. /\ \A i \in 1..(m + 1) : i \in 1..m \/ i = m + 1
        /\ \A i \in 1..m : i \in 1..(m + 1)
        /\ m + 1 \in 1..(m + 1)
    OBVIOUS
  <1>3. \A n \in DOMAIN Rules : Predicted(n) => Predicted(n)'
    BY <1>1, <1>2 DEF Predicted, Own, Active
  <1>4. Percepts \subseteq Percepts' /\ Beliefs \subseteq Beliefs'
    BY <1>1, <1>2 DEF Percepts, Beliefs, CommittedAs, Of
  <1>5. d.slot # "actions" \/ d.mode # "COMMIT" => Acts' = Acts
    BY <1>1, <1>2 DEF Acts, Of
  <1> QED
    BY <1>1, <1>2, <1>3, <1>4, <1>5

\* The sensor and the learner commit at once.
LEMMA OutcomeWrites ==
    ASSUME Established, Outcome, Running, NEW d \in Drafts, Write(d), d.trace = Trace, ~d.ttl,
           d.mode = "COMMIT", d.slot \in {"percepts", "constraints"},
           UNCHANGED <<done, reading>>, Trace' = Trace, stage = "step", stage' \notin {"call", "inside"},
           \A w \in {"analyst", "simulator", "actuator"} : ~Stepping(w) /\ ~Stepping(w)',
           "sensor" \in done /\ ~Stepping("sensor")' => Percepts' # {}
    PROVE  Outcome'
  <1>1. Added(d)
    BY WriteAdds DEF Established
  <1>2. /\ \A n \in DOMAIN Rules : Predicted(n) => Predicted(n)'
        /\ Acts' = Acts /\ Percepts \subseteq Percepts' /\ Beliefs \subseteq Beliefs'
        /\ \A i \in DOMAIN recs' : \/ i \in DOMAIN recs /\ recs'[i] = recs[i]
                                   \/ i = Len(recs') /\ recs'[i] = d
        /\ \A i \in DOMAIN recs : i \in DOMAIN recs' /\ recs'[i] = recs[i]
    BY <1>1, AddedKeeps
  <1>3. \A i : ~InFlight(i) /\ ~InFlight(i)'
    BY DEF InFlight
  <1>4. OwnRecords'
    <2> SUFFICES ASSUME NEW i \in DOMAIN recs', Own(i)'
                 PROVE  /\ ~recs'[i].ttl
                        /\ ~(recs'[i].mode = "PROPOSE" /\ Active(recs', i))
                        /\ recs'[i].slot = "beliefs" => recs'[i].body.value /\ "analyst" \in done
                        /\ recs'[i].slot = "predictions" => "simulator" \in done
                        /\ recs'[i].slot = "actions" => "actuator" \in done
      BY DEF OwnRecords
    <2>1. CASE i \in DOMAIN recs /\ recs'[i] = recs[i]
      BY <1>3, <2>1 DEF Outcome, OwnRecords, Own, Active
    <2>2. CASE recs'[i] = d
      BY <2>2
    <2> QED
      BY <1>2, <2>1, <2>2
  <1>5. Proposed'
    BY <1>3 DEF Proposed
  <1>6. Evident' /\ Believed'
    BY <1>2 DEF Outcome, Evident, Believed, GoodEvidence
  <1>7. Predicting'
    BY <1>2 DEF Outcome, Predicting
  <1>8. Acting'
    <2>1. (Acted' <=> Acted) /\ (Promised' <=> Promised)
      BY DEF Acted, Promised
    <2> QED
      BY <1>2, <2>1 DEF Outcome, Acting
  <1>9. Judging'
    BY DEF Judging
  <1> QED
    BY <1>4, <1>5, <1>6, <1>7, <1>8, <1>9 DEF Outcome

LEMMA DecidesWrites ==
    ASSUME Established, Outcome, Running, SensorStep \/ \E base \in BaseReasons : AdaptiveWrites(base)
    PROVE  DecidedInv'
  <1>1. CASE SensorStep
    <2> DEFINE d == Percept(reading, Trace)
    <2>1. /\ stage = "step" /\ AtWork("sensor") /\ Write(d) /\ stage' = "look"
          /\ UNCHANGED <<errors, done, reading, episode>>
      BY <1>1 DEF SensorStep, LeaveStep, workerVars, driverVars
    <2>2. d \in Drafts /\ d.slot = "percepts" /\ d.trace = Trace /\ ~d.ttl /\ d.mode = "COMMIT"
          /\ d.kind = temperature
      BY <2>1, WrittenIsDraft DEF Percept, Proposal, Established
    <2> HIDE DEF d
    <2>3. Trace' = Trace
      BY <2>1 DEF Trace
    <2>4. \A w \in {"analyst", "simulator", "actuator"} : ~Stepping(w) /\ ~Stepping(w)'
      BY <2>1, Keys DEF Stepping, AtStep, AtWork
    <2>5. Percepts' # {}
      <3>1. Added(d)
        BY <2>1, <2>2, WriteAdds DEF Established
      <3>2. Len(recs') \in DOMAIN recs' /\ recs'[Len(recs')] = d
        BY <2>2, <2>3, <3>1, AddedKeeps DEF Added
      <3> QED
        BY <2>2, <2>3, <3>2 DEF Percepts, CommittedAs, Of
    <2>6. Outcome'
      BY <2>1, <2>2, <2>3, <2>4, <2>5, OutcomeWrites
    <2> QED
      BY <2>1, <2>6 DEF DecidedInv
  <1>2. ASSUME NEW base \in BaseReasons, AdaptiveWrites(base) PROVE DecidedInv'
    <2> DEFINE d == LessonRecord(base, Trace)
    <2>1. /\ stage = "step" /\ AtWork("adaptive") /\ Write(d)
          /\ stage' = "look" \/ UNCHANGED <<stage, turn>>
          /\ UNCHANGED <<errors, done, reading, episode>>
      BY <1>2 DEF AdaptiveWrites, LeaveStep, driverVars, orchVars
    <2>2. d \in Drafts /\ d.slot = "constraints" /\ d.trace = Trace /\ ~d.ttl /\ d.mode = "COMMIT"
      BY <2>1, WrittenIsDraft DEF LessonRecord, Established
    <2> HIDE DEF d
    <2>3. Trace' = Trace
      BY <2>1 DEF Trace
    <2>4. /\ \A w \in {"analyst", "simulator", "actuator"} : ~Stepping(w) /\ ~Stepping(w)'
          /\ ~Stepping("sensor")
      BY <2>1, Keys DEF Stepping, AtStep, AtWork
    <2>5. "sensor" \in done => Percepts' # {}
      <3>1. Added(d)
        BY <2>1, <2>2, WriteAdds DEF Established
      <3>2. Percepts \subseteq Percepts'
        BY <2>2, <2>3, <3>1, AddedKeeps
      <3> QED
        BY <2>4, <3>2 DEF Outcome, Evident
    <2>6. Outcome'
      BY <2>1, <2>2, <2>3, <2>4, <2>5, OutcomeWrites
    <2> QED
      BY <2>1, <2>6 DEF DecidedInv
  <1> QED
    BY <1>1, <1>2

\* A proposal is written.
LEMMA OutcomeProposes ==
    ASSUME Established, Outcome, Running, stage = "step", NEW x \in DOMAIN OpOf, AtWork(x),
           NEW d \in Drafts, Propose(d), d.slot = SlotOf[OpOf[x]], d.mode = "PROPOSE",
           d.trace = Trace, d.status = "ACTIVE", ~d.ttl, d.slot = "beliefs" => d.body.value,
           UNCHANGED <<done, reading>>, local'.safe = local.safe,
           x = "simulator" =>
             /\ local'.rule - 1 \in DOMAIN Rules /\ d = PredictionFrom(Rules[local'.rule - 1], Trace)
             /\ \A n \in DOMAIN Rules :
                  Meets(reading, n) /\ n < local'.rule => Predicted(n) \/ n = local'.rule - 1,
           x = "actuator" => d = IF local.safe THEN Review(Trace) ELSE Alert(Trace),
           \A n \in DOMAIN Rules : Rules[n].action_type = alert
    PROVE  DecidedInv'
  <1>1. /\ Write(d) /\ stage' = "call"
        /\ UNCHANGED <<turn, view, errors, episode>>
    BY DEF Propose, driverVars
  <1>2. Trace' = Trace
    BY <1>1 DEF Trace
  <1>3. Added(d)
    BY <1>1, WriteAdds DEF Established
  <1>4. /\ \A n \in DOMAIN Rules : Predicted(n) => Predicted(n)'
        /\ Acts' = Acts /\ Percepts \subseteq Percepts' /\ Beliefs \subseteq Beliefs'
        /\ \A i \in DOMAIN recs' : \/ i \in DOMAIN recs /\ recs'[i] = recs[i]
                                   \/ i = Len(recs') /\ recs'[i] = d
        /\ Len(recs') \in DOMAIN recs'
        /\ \A i \in DOMAIN recs : i \in DOMAIN recs' /\ recs'[i] = recs[i]
    BY <1>2, <1>3, AddedKeeps
  <1>5. recs'[Len(recs')] = d
    BY <1>3 DEF Added
  <1>6. /\ \A i : ~InFlight(i)
        /\ \A i : InFlight(i)' <=> i = Len(recs')
        /\ \A w : Stepping(w)' <=> Stepping(w)
        /\ \A w \in Workers : Stepping(w) <=> w = x
        /\ x \in Workers /\ x # "sensor" /\ ~Returned /\ ~Returned'
    BY <1>1, Keys DEF InFlight, Stepping, AtStep, AtWork, Returned, OpOf
  <1>7. x \in done
    BY DEF Established, QuietInv, Running, Flying, AtStep, OneShot, OpOf
  <1>8. OwnRecords'
    <2> SUFFICES ASSUME NEW i \in DOMAIN recs', Own(i)'
                 PROVE  /\ ~recs'[i].ttl
                        /\ recs'[i].mode = "PROPOSE" /\ Active(recs', i) => i = Len(recs')
                        /\ recs'[i].slot = "beliefs" => recs'[i].body.value /\ "analyst" \in done
                        /\ recs'[i].slot = "predictions" => "simulator" \in done
                        /\ recs'[i].slot = "actions" => "actuator" \in done
      BY <1>6 DEF OwnRecords
    <2>1. CASE i \in DOMAIN recs /\ recs'[i] = recs[i]
      BY <1>2, <1>6, <2>1 DEF Outcome, OwnRecords, Own, Active
    <2>2. CASE i = Len(recs') /\ recs'[i] = d
      BY <1>7, <2>2 DEF SlotOf, OpOf
    <2> QED
      BY <1>4, <2>1, <2>2
  <1>9. Proposed'
    <2>1. \A w \in Workers : AtWork(w)' => w = x
      BY <1>1, <1>6 DEF Stepping, AtStep, AtWork
    <2>2. AtWork("simulator")' => local'.rule - 1 \in DOMAIN Rules /\ d = PredictionFrom(Rules[local'.rule - 1], Trace)
      BY <2>1, Keys
    <2>3. AtWork("actuator")' => d = IF local'.safe THEN Review(Trace) ELSE Alert(Trace)
      BY <2>1, Keys
    <2> QED
      BY <1>2, <1>5, <1>6, <2>2, <2>3 DEF Proposed
  <1>10. Evident' /\ Believed'
    <2>1. ~Stepping("sensor") /\ ~Stepping("sensor")'
      BY <1>6, Keys
    <2>2. (Stepping("analyst") => Returned) <=> (Stepping("analyst")' => Returned')
      BY <1>6
    <2>3. GoodEvidence' <=> GoodEvidence
      BY DEF GoodEvidence
    <2>4. Evident'
      BY <1>4, <2>1 DEF Outcome, Evident
    <2>5. Believed'
      BY <1>4, <2>2, <2>3 DEF Outcome, Believed
    <2> QED
      BY <2>4, <2>5
  <1>11. Predicting'
    <2>1. Stepping("simulator") <=> x = "simulator"
      BY <1>6, Keys
    <2>2. SimulatorSees => SimulatorSees'
      BY <1>1, <1>4, StillSees DEF Kept
    <2>3. ASSUME NEW n \in DOMAIN Rules, Meets(reading, n), "simulator" \in done,
                 x = "simulator" => n < local'.rule
          PROVE  Predicted(n)'
      <3>1. CASE x # "simulator"
        BY <1>4, <2>1, <2>3, <3>1 DEF Outcome, Predicting
      <3>2. CASE x = "simulator" /\ Predicted(n)
        BY <1>4, <3>2
      <3>3. CASE x = "simulator" /\ n = local'.rule - 1
        <4>1. d = PredictionFrom(Rules[n], Trace) /\ Rules[n].action_type = alert
          BY <3>3
        <4>2. /\ d.slot = "predictions" /\ d.kind = PredKind(alert)
              /\ d.body.expected_outcome = Rules[n].expected_outcome
          BY <4>1 DEF PredictionFrom
        <4> HIDE DEF Predicted
        <4>3. Len(recs') \in DOMAIN recs' /\ recs'[Len(recs')].trace = Trace'
              /\ recs'[Len(recs')].status = "ACTIVE"
          BY <1>2, <1>4, <1>5
        <4> QED
          BY <1>5, <4>2, <4>3 DEF Predicted, Own, Active
      <3> QED
        BY <2>3, <3>1, <3>2, <3>3
    <2> QED
      BY <1>6, <2>1, <2>2, <2>3 DEF Outcome, Predicting
  <1>12. Acting'
    <2>1. Stepping("actuator") <=> Stepping("actuator")'
      BY <1>6
    <2>2. (Acted' <=> Acted) /\ (Promised' <=> Promised)
      BY <1>6, <2>1 DEF Acted, Promised
    <2> QED
      BY <1>4, <2>1, <2>2 DEF Outcome, Acting
  <1>13. Judging'
    BY <1>1 DEF Judging
  <1>14. Outcome'
    BY <1>8, <1>9, <1>10, <1>11, <1>12, <1>13 DEF Outcome
  <1> QED
    BY <1>1, <1>14 DEF DecidedInv

LEMMA DecidesProposes ==
    ASSUME Established, DemoRules, Outcome, Running, AnalystStep \/ SimulatorPredicts \/ ActuatorStep
    PROVE  DecidedInv'
  <1>0. \A n \in DOMAIN Rules : Rules[n].action_type = alert
    BY DEF DemoRules
  <1>1. CASE AnalystStep
    <2> DEFINE d == Suspicion(Trace)
    <2>1. stage = "step" /\ AtWork("analyst") /\ Propose(d) /\ UNCHANGED <<done, reading, local>>
      BY <1>1 DEF AnalystStep, workerVars
    <2>2. /\ d \in Drafts /\ d.slot = "beliefs" /\ d.mode = "PROPOSE" /\ d.status = "ACTIVE"
          /\ d.trace = Trace /\ ~d.ttl /\ d.body.value
      BY <2>1, WrittenIsDraft DEF Suspicion, Proposal, Established
    <2> HIDE DEF d
    <2>3. "analyst" \in DOMAIN OpOf /\ d.slot = SlotOf[OpOf["analyst"]]
      BY <2>2 DEF OpOf, SlotOf
    <2> QED
      BY <1>0, <2>1, <2>2, <2>3, OutcomeProposes
  <1>2. CASE SimulatorPredicts
    <2> DEFINE k == Min(FiringNow)
               d == PredictionFrom(Rules[k], Trace)
    <2>1. /\ stage = "step" /\ AtWork("simulator") /\ FiringNow # {} /\ Propose(d)
          /\ local' = [local EXCEPT !.rule = k + 1]
          /\ UNCHANGED <<done, reading>>
      BY <1>2 DEF SimulatorPredicts
    <2>2. k \in FiringNow /\ k \in DOMAIN Rules /\ k \in Nat /\ k > 0
      <3>1. k \in FiringNow /\ k \in DOMAIN Rules
        BY <2>1, FiringRule DEF Established, DemoInv
      <3> HIDE DEF k
      <3>2. k \in 1..Len(Rules) /\ Len(Rules) \in Nat
        BY <3>1, EpisodesAssumption
      <3> QED
        BY <3>1, <3>2
    <2>3. \A n \in FiringNow : k <= n
      <3>1. FiringNow \in SUBSET Nat
        <4>1. local.rule \in Nat /\ Len(Rules) \in Nat
          BY EpisodesAssumption DEF Established, DemoInv, Locals
        <4> QED
          BY <4>1 DEF FiringNow, Firing
      <3> QED
        BY <2>1, <3>1, MinIsMember
    <2> HIDE DEF k
    <2>4. local'.rule = k + 1 /\ local'.safe = local.safe /\ local.rule \in Nat
      BY <2>1 DEF Established, DemoInv, Locals
    <2>5. local'.rule - 1 = k
      BY <2>2, <2>4
    <2>6. d \in Drafts
      BY <2>1, <2>2, WrittenIsDraft DEF Established
    <2>7. d.slot = "predictions" /\ d.mode = "PROPOSE" /\ d.status = "ACTIVE" /\ d.trace = Trace /\ ~d.ttl
      BY DEF PredictionFrom
    <2>8. ASSUME NEW n \in DOMAIN Rules, Meets(reading, n), n < k + 1 PROVE Predicted(n) \/ n = k
      <3>1. Stepping("simulator") /\ "simulator" \in done
        BY <2>1 DEF Stepping, AtStep, Established, QuietInv, Running, Flying, OneShot
      <3>2. CASE n < local.rule
        BY <2>8, <3>1, <3>2 DEF Outcome, Predicting
      <3>3. CASE local.rule <= n
        <4>1. n \in FiringNow
          BY <2>8, <3>1, <3>3, FiringMeets DEF Outcome
        <4>2. k <= n /\ n \in Nat
          BY <2>3, <4>1, EpisodesAssumption
        <4> QED
          BY <2>2, <2>8, <4>2
      <3>4. n \in Nat
        BY EpisodesAssumption
      <3> QED
        BY <2>4, <3>2, <3>3, <3>4
    <2>9. "simulator" \in DOMAIN OpOf /\ d.slot = SlotOf[OpOf["simulator"]] /\ d.slot # "beliefs"
      BY <2>7 DEF OpOf, SlotOf
    <2>10. d = PredictionFrom(Rules[local'.rule - 1], Trace) /\ local'.rule - 1 \in DOMAIN Rules
      BY <2>2, <2>5
    <2> HIDE DEF d
    <2>11. \A n \in DOMAIN Rules :
              Meets(reading, n) /\ n < local'.rule => Predicted(n) \/ n = local'.rule - 1
      BY <2>4, <2>5, <2>8
    <2> QED
      BY <1>0, <2>1, <2>4, <2>5, <2>6, <2>7, <2>9, <2>10, <2>11, OutcomeProposes
  <1>3. CASE ActuatorStep
    <2> DEFINE d == IF local.safe THEN Review(Trace) ELSE Alert(Trace)
    <2>1. stage = "step" /\ AtWork("actuator") /\ Propose(d) /\ UNCHANGED <<done, reading, local>>
      BY <1>3 DEF ActuatorStep, workerVars
    <2>2. d \in Drafts
      BY <2>1, WrittenIsDraft DEF Established
    <2>3. d.slot = "actions" /\ d.mode = "PROPOSE" /\ d.status = "ACTIVE" /\ d.trace = Trace /\ ~d.ttl
      BY DEF Alert, Review, Proposal
    <2>4. "actuator" \in DOMAIN OpOf /\ d.slot = SlotOf[OpOf["actuator"]] /\ d.slot # "beliefs"
      BY <2>3 DEF OpOf, SlotOf
    <2>5. d = IF local.safe THEN Review(Trace) ELSE Alert(Trace)
      OBVIOUS
    <2> HIDE DEF d
    <2> QED
      BY <1>0, <2>1, <2>2, <2>3, <2>4, <2>5, OutcomeProposes
  <1> QED
    BY <1>1, <1>2, <1>3

\* A step that goes on over the same board.
LEMMA OutcomeResumes ==
    ASSUME Outcome, recs' = recs, Trace' = Trace, UNCHANGED <<done, reading, view, turn>>,
           AtStep, AtStep', ~Returned', local'.rule = local.rule,
           \A i : InFlight(i)' <=> InFlight(i),
           local' = local \/ \A i : ~InFlight(i),
           Stepping("actuator") => ~Acted /\ (local'.safe => ~Promised),
           Judging'
    PROVE  Outcome'
  <1>1. \A w : Stepping(w)' <=> Stepping(w)
    BY DEF Stepping, AtWork
  <1>2. /\ \A i : Own(i)' <=> Own(i)
        /\ \A i : Active(recs, i)' <=> Active(recs, i)
        /\ (GoodEvidence' <=> GoodEvidence) /\ (Promised' <=> Promised)
    BY DEF Own, Active, GoodEvidence, Promised
  <1>3. OwnRecords'
    BY <1>2 DEF Outcome, OwnRecords
  <1>4. Proposed'
    <2>1. CASE local' = local
      BY <2>1 DEF Outcome, Proposed, AtWork
    <2>2. CASE \A i : ~InFlight(i)
      BY <2>2 DEF Proposed
    <2> QED
      BY <2>1, <2>2
  <1>5. Evident' /\ Believed'
    BY <1>1, <1>2, SameEpisode DEF Outcome, Evident, Believed
  <1>6. Predicting'
    <2>1. SimulatorSees' <=> SimulatorSees
      BY DEF SimulatorSees
    <2>2. ASSUME NEW n \in DOMAIN Rules, "simulator" \in done, Meets(reading, n),
                 Stepping("simulator") => n < local.rule
          PROVE  Predicted(n)
      BY <2>2 DEF Outcome, Predicting
    <2>3. \A n \in DOMAIN Rules :
             "simulator" \in done /\ Meets(reading, n) /\ (Stepping("simulator") => n < local.rule)
             => Predicted(n)'
      BY <2>2, SameEpisode
    <2> QED
      BY <1>1, <2>1, <2>3 DEF Outcome, Predicting
  <1>7. Acting'
    <2>1. Acted' <=> Acted
      BY <1>1 DEF Acted
    <2> QED
      BY <1>1, <1>2, <2>1, SameEpisode DEF Outcome, Acting
  <1> QED
    BY <1>3, <1>4, <1>5, <1>6, <1>7 DEF Outcome

\* The proposal is taken to its pipeline.
LEMMA DecidesCalls ==
    ASSUME Established, Outcome, Running, NEW x \in DOMAIN OpOf, CallPipeline(x)
    PROVE  DecidedInv'
  <1> DEFINE need == x = "actuator" /\ ~local.safe
             j == [NoJob EXCEPT !.op = OpOf[x], !.prop = Len(recs), !.trace = Trace, !.need = need]
  <1>1. /\ stage = "call" /\ stage' = "inside" /\ recs' = recs /\ AtWork(x)
        /\ job' = [job EXCEPT ![Main] = j] /\ pc' = [pc EXCEPT ![Main] = "acquire"]
        /\ UNCHANGED <<turn, view, errors, workerVars, episode>>
    BY DEF CallPipeline, Call, Goto, driverVars
  <1>2. Main \in Threads /\ DOMAIN job = Threads /\ DOMAIN pc = Threads
    BY EpisodesAssumption DEF Established, Inv, TypeOK
  <1>3. j.prop = Len(recs) /\ j.op = OpOf[x] /\ j.need = need
    BY DEF NoJob
  <1> HIDE DEF j
  <1>4. job'[Main] = j /\ pc'[Main] = "acquire"
    BY <1>1, <1>2
  <1>5. Trace' = Trace /\ AtStep /\ AtStep' /\ ~Returned /\ ~Returned'
    BY <1>1, <1>4 DEF Trace, AtStep, Returned
  <1>6. \A i : InFlight(i)' <=> InFlight(i)
    BY <1>1, <1>3, <1>4 DEF InFlight
  <1>7. Judging'
    <2>1. local'.safe => ~need
      BY <1>1 DEF workerVars
    <2> QED
      BY <1>3, <1>4, <2>1 DEF Judging, Declined
  <1>8. Stepping("actuator") => ~Acted /\ (local'.safe => ~Promised)
    BY <1>1, <1>5 DEF Acted, Outcome, Acting, workerVars
  <1>9. Outcome'
    BY <1>1, <1>5, <1>6, <1>7, <1>8, OutcomeResumes DEF workerVars
  <1> QED
    BY <1>1, <1>9 DEF DecidedInv

\* The answer: a review is never refused, and an alert only if none is promised.
LEMMA DecidesAnswers ==
    ASSUME Established, Outcome, Running, Answer
    PROVE  DecidedInv'
  <1> DEFINE ok == job[Main].code = "COMMITTED"
  <1>1. /\ stage = "inside" /\ pc[Main] = "return" /\ recs' = recs
        /\ UNCHANGED <<view, errors, done, reading, episode>>
    BY DEF Answer, LeaveStep, Return, At, driverVars
  <1>2. \/ AtWork("analyst") /\ stage' \in {"look", "ask"}
        \/ /\ AtWork("simulator") /\ stage' = "step" /\ turn' = turn
           /\ local' = [local EXCEPT !.gain = @ \/ ok]
        \/ AtWork("actuator") /\ (ok \/ local.safe) /\ stage' = "look"
        \/ /\ AtWork("actuator") /\ ~ok /\ stage' = "step" /\ turn' = turn
           /\ local' = [local EXCEPT !.safe = TRUE]
    BY DEF Answer, LeaveStep
  <1>3. Trace' = Trace /\ AtStep /\ Returned
    BY <1>1 DEF Trace, AtStep, Returned
  <1>4. PICK x \in DOMAIN OpOf : AtWork(x) /\ job[Main].op = OpOf[x]
    BY <1>1 DEF Established, QuietInv, Running, Flying
  <1>5. AtWork("actuator") => x = "actuator" /\ job[Main].op = "action"
    <2>1. AtWork("actuator") => x = "actuator"
      BY <1>4, OneAtWork
    <2> QED
      BY <1>4, <2>1 DEF OpOf
  <1>6. AtWork("actuator") /\ ~ok => ~local.safe /\ ~Promised
    BY <1>1, <1>5 DEF Outcome, Judging, Declined
  <1>7. \A i : ~InFlight(i)
    BY <1>1 DEF InFlight
  <1>8. "actuator" \in done \/ ~AtWork("actuator")
    BY <1>3, Keys DEF Established, QuietInv, Running, Flying, OneShot
  <1>9. CASE AtWork("analyst") /\ stage' \in {"look", "ask"}
    <2>1. ~AtWork("sensor") /\ ~AtWork("simulator") /\ ~AtWork("actuator")
      BY <1>9, Keys DEF AtWork
    <2>2. Outcome'
      BY <1>1, <1>3, <1>7, <1>9, <2>1, OutcomeRests DEF Stepping
    <2> QED
      BY <1>1, <1>9, <2>2 DEF DecidedInv
  <1>10. CASE AtWork("actuator") /\ (ok \/ local.safe) /\ stage' = "look"
    <2>1. ~AtWork("sensor") /\ ~AtWork("simulator") /\ ~AtWork("analyst")
      BY <1>10, Keys DEF AtWork
    <2>2. Acted
      BY <1>3, <1>6, <1>8, <1>10 DEF Acted
    <2>3. Outcome'
      BY <1>1, <1>3, <1>7, <1>10, <2>1, <2>2, OutcomeRests DEF Stepping
    <2> QED
      BY <1>1, <1>10, <2>3 DEF DecidedInv
  <1>11. ASSUME stage' = "step", turn' = turn, local'.rule = local.rule,
                AtWork("actuator") => ~ok /\ (local'.safe => ~Promised)
         PROVE  DecidedInv'
    <2>1. \A i : ~InFlight(i)'
      BY <1>11 DEF InFlight
    <2>2. AtStep' /\ ~Returned' /\ Judging'
      BY <1>11 DEF AtStep, Returned, Judging
    <2>3. Stepping("actuator") => ~Acted /\ (local'.safe => ~Promised)
      BY <1>11 DEF Stepping, Acted
    <2>4. Outcome'
      BY <1>1, <1>3, <1>7, <1>11, <2>1, <2>2, <2>3, OutcomeResumes
    <2> QED
      BY <1>1, <1>11, <2>4 DEF DecidedInv
  <1>12. local \in Locals
    BY DEF Established, DemoInv
  <1>13. CASE /\ AtWork("simulator") /\ stage' = "step" /\ turn' = turn
              /\ local' = [local EXCEPT !.gain = @ \/ ok]
    <2>1. local'.rule = local.rule
      BY <1>12, <1>13 DEF Locals
    <2>2. ~AtWork("actuator")
      BY <1>13, Keys DEF AtWork
    <2> QED
      BY <1>11, <1>13, <2>1, <2>2
  <1>14. CASE /\ AtWork("actuator") /\ ~ok /\ stage' = "step" /\ turn' = turn
              /\ local' = [local EXCEPT !.safe = TRUE]
    <2>1. local'.rule = local.rule
      BY <1>12, <1>14 DEF Locals
    <2> QED
      BY <1>6, <1>11, <1>14, <2>1
  <1> QED
    BY <1>2, <1>9, <1>10, <1>13, <1>14

-----------------------------------------------------------------------------
\* What a pipeline judges by.

\* A step inside a pipeline.
LEMMA AtCounter ==
    ASSUME Established, OneKernel, Running, PipelineStep
    PROVE  /\ stage = "inside" /\ stage' = "inside" /\ pc[Main] # "return" /\ Main \in Threads
           /\ UNCHANGED <<turn, view, errors, done, reading, local, episode>> /\ Trace' = Trace
           /\ Step(Main) /\ ~At(Main, "return") /\ KeepsToCall(Main)
           /\ Commits(Main) \/ Refuses(Main) \/ GoesOn(Main)
           /\ \E x \in DOMAIN OpOf : AtWork(x) /\ job[Main].op = OpOf[x]
           /\ IsProposal(recs, job[Main].prop, job[Main].op)
           /\ job[Main].prop \in DOMAIN recs /\ Own(job[Main].prop) /\ InFlight(job[Main].prop)
           /\ recs[job[Main].prop].slot = SlotOf[job[Main].op]
           /\ job[Main].trace = Trace /\ job[Main] \in Job
  <1>1. /\ stage = "inside" /\ Step(Main) /\ ~At(Main, "return") /\ Main \in Threads
        /\ UNCHANGED <<orchVars, workerVars, episode>>
    BY EpisodesAssumption DEF PipelineStep, driverVars
  <1>2. Flying /\ pc[Main] # "return" /\ Inv
    BY <1>1 DEF Established, QuietInv, Running, At
  <1>3. PICK x \in DOMAIN OpOf : AtWork(x) /\ job[Main].op = OpOf[x]
                                 /\ IsProposal(recs, job[Main].prop, job[Main].op)
    BY <1>1, <1>2 DEF Flying
  <1>4. job[Main].op # "plan"
    BY <1>3 DEF OpOf
  <1>5. (Commits(Main) \/ Refuses(Main) \/ GoesOn(Main)) /\ KeepsToCall(Main)
    BY <1>1, <1>2, <1>3, <1>4, PipelineDoes, SameJob
  <1>6. job[Main].trace = Trace /\ job[Main].prop \in DOMAIN recs /\ Own(job[Main].prop)
    BY <1>1 DEF Established, OwnProposal, Own
  <1>7. InFlight(job[Main].prop)
    BY <1>1, <1>2 DEF InFlight
  <1>8. job[Main] \in Job
    BY <1>1, <1>2, ThreadFacts
  <1> QED
    BY <1>1, <1>2, <1>3, <1>5, <1>6, <1>7, <1>8 DEF Trace, orchVars, workerVars, IsProposal

\* What was committed of a slot is in the view of a call that has walked it.
LEMMA CaughtIsHeld ==
    ASSUME Established, DemoRules, Outcome, Running, NEW j, NEW slot, Viewed(recs, j, slot),
           j.trace = Trace, j.since = Len(recs), NEW kind, CommittedAs(Trace, slot, kind) # {}
    PROVE  /\ Held(recs, j.view, slot, kind) # NoId
           /\ Held(recs, j.view, slot, kind) \in CommittedAs(Trace, slot, kind)
           /\ Held(recs, j.view, slot, kind) \in DOMAIN recs
           /\ Own(Held(recs, j.view, slot, kind))
  <1> DEFINE h == Held(recs, j.view, slot, kind)
             S == CommittedAs(Trace, slot, kind)
  <1>1. DOMAIN recs = 1..Len(recs) /\ Len(recs) \in Nat
    BY LenProperties DEF Established, Inv, TypeOK
  <1>2. {i \in Committed(recs, j.view, slot) : recs[i].kind = kind} = S
    <2>1. \A i \in DOMAIN recs : Own(i) => ~recs[i].ttl
      BY DEF Outcome, OwnRecords
    <2>2. \A i \in S : /\ i \in 1..Len(recs) /\ recs[i].slot = slot /\ recs[i].kind = kind
                       /\ recs[i].mode = "COMMIT" /\ recs[i].trace = Trace /\ ~recs[i].ttl
      BY <1>1, <2>1 DEF CommittedAs, Of, Own
    <2>3. \A i \in S : i \in j.view
      BY <2>2 DEF Viewed, Caught
    <2>4. \A i \in j.view : i \in DOMAIN recs /\ recs[i].trace = Trace
      BY DEF Viewed
    <2> QED
      BY <2>2, <2>3, <2>4 DEF Committed, CommittedAs, Of
  <1>3. h = Max(S)
    BY <1>2, Zenon DEF Held
  <1>4. S \in SUBSET (1..Len(recs))
    BY <1>1 DEF CommittedAs, Of
  <1> HIDE DEF S, h
  <1>5. Max(S) \in S
    BY <1>1, <1>4, MaxIsMember DEF S
  <1>6. h \in S /\ h \in 1..Len(recs) /\ h # NoId
    <2>1. h \in S
      BY <1>3, <1>5
    <2>2. h \in 1..Len(recs)
      BY <1>4, <2>1
    <2> QED
      BY <1>1, <2>1, <2>2 DEF NoId
  <1>7. h \in DOMAIN recs /\ Own(h)
    BY <1>6 DEF S, CommittedAs, Of, Own
  <1> QED
    BY <1>6, <1>7 DEF h, S

\* The percepts of the episode, as find_active_by_kind has them.
LEMMA FoundReading ==
    ASSUME Established, DemoRules, Outcome, Running, NEW slot, NEW kind, CommittedAs(Trace, slot, kind) # {}
    PROVE  LET found == FindActiveByKind(recs, slot, kind, Trace)
           IN  found # NoId /\ found \in DOMAIN recs /\ recs[found].slot = slot /\ Own(found)
  <1> DEFINE all == {i \in DOMAIN recs : /\ recs[i].slot = slot /\ recs[i].kind = kind
                                         /\ recs[i].trace = Trace /\ Active(recs, i)}
             found == FindActiveByKind(recs, slot, kind, Trace)
  <1>1. DOMAIN recs = 1..Len(recs) /\ Len(recs) \in Nat
    BY LenProperties DEF Established, Inv, TypeOK
  <1>2. PICK q \in DOMAIN recs : /\ recs[q].slot = slot /\ recs[q].kind = kind /\ recs[q].mode = "COMMIT"
                                 /\ Own(q) /\ recs[q].trace = Trace
    BY DEF CommittedAs, Of, Own
  <1>3. Active(recs, q)
    <2>1. ~recs[q].ttl
      BY <1>2 DEF Outcome, OwnRecords
    <2> QED
      BY <1>2, <2>1, OwnAre DEF Running
  <1>4. q \in all
    BY <1>2, <1>3
  <1>5. found = Min(all)
    BY <1>4, Zenon DEF FindActiveByKind
  <1>6. all \in SUBSET Nat
    BY <1>1
  <1>7. Min(all) \in all
    BY <1>4, <1>6, MinIsMember
  <1>8. \A i \in all : i # NoId /\ i \in DOMAIN recs /\ recs[i].slot = slot /\ Own(i)
    BY <1>1 DEF NoId, Own
  <1> HIDE DEF all, found
  <1> QED
    BY <1>5, <1>7, <1>8 DEF found

\* A belief is judged by the reading.
LEMMA JudgedByReading ==
    ASSUME Established, DemoRules, OneKernel, Outcome, Running, PipelineStep, job[Main].op = "belief",
           pc[Main] \in {"judge", "arbitrate", "gate"}
    PROVE  /\ Deps(Main) = <<temperature>> /\ Viewed(recs, job[Main], "percepts")
           /\ PerceptVerdict(recs, job[Main].view, temperature)
                = IF reading.stale THEN "STALE_EVIDENCE"
                  ELSE IF reading.conflict THEN "CONFLICTING_EVIDENCE" ELSE "OK"
           /\ ConfOf(recs, Find(Main, "percepts", temperature)) = reading.conf
  <1> DEFINE h == Held(recs, job[Main].view, "percepts", temperature)
             f == Find(Main, "percepts", temperature)
  <1>1. /\ stage = "inside" /\ Main \in Threads /\ job[Main].trace = Trace
        /\ job[Main].prop \in DOMAIN recs /\ Own(job[Main].prop)
        /\ recs[job[Main].prop].slot = SlotOf[job[Main].op]
    BY AtCounter
  <1>2. recs[job[Main].prop].slot = "beliefs"
    BY <1>1 DEF SlotOf
  <1>3. Deps(Main) = <<temperature>> /\ "analyst" \in done
    BY <1>1, <1>2, OwnAre DEF Deps, Running, Outcome, OwnRecords
  <1>4. Percepts # {}
    BY <1>3 DEF Outcome, Evident
  <1>5. Viewed(recs, job[Main], "percepts") /\ pc[Main] \in Pending
    BY <1>1, JudgingBelief DEF Established
  <1>6. job[Main].since = Len(recs)
    BY <1>1, <1>5 DEF Established, GroundsInv, CallSound
  <1>7. h # NoId /\ h \in Percepts /\ h \in DOMAIN recs /\ Own(h)
    BY <1>1, <1>4, <1>5, <1>6, CaughtIsHeld DEF Percepts
  <1>8. recs[h].slot = "percepts"
    BY <1>7 DEF Percepts, CommittedAs, Of
  <1>9. recs[h].body = Payload(reading)
    BY <1>7, <1>8, OwnAre DEF Running
  <1>10. f # NoId /\ f \in DOMAIN recs /\ recs[f].slot = "percepts" /\ Own(f)
    BY <1>1, <1>4, FoundReading DEF Find, Percepts
  <1>11. recs[f].conf = reading.conf
    BY <1>10, OwnAre DEF Running
  <1> HIDE DEF h, f
  <1>12. recs[h].body.stale = reading.stale /\ recs[h].body.conflict = reading.conflict
    BY <1>9 DEF Payload
  <1>13. PerceptVerdict(recs, job[Main].view, temperature)
           = IF reading.stale THEN "STALE_EVIDENCE"
             ELSE IF reading.conflict THEN "CONFLICTING_EVIDENCE" ELSE "OK"
    BY <1>7, <1>12 DEF PerceptVerdict, h
  <1>14. ConfOf(recs, Find(Main, "percepts", temperature)) = reading.conf
    BY <1>10, <1>11 DEF ConfOf, f
  <1> QED
    BY <1>3, <1>5, <1>13, <1>14

\* The favourable rules and the others do not both meet the reading.
LEMMA RulesAgree ==
    ASSUME Established, DemoRules, Running, NEW m \in DOMAIN Rules, NEW n \in DOMAIN Rules,
           Meets(reading, m), Meets(reading, n)
    PROVE  Rules[m].expected_outcome >= 0 <=> Rules[n].expected_outcome >= 0
  <1>1. reading \in Readings[episode] /\ episode \in DOMAIN Readings
    BY EpisodesAssumption DEF Established, DemoInv, Running
  <1> QED
    BY <1>1 DEF DemoRules

\* The simulator was there before the actuator.
LEMMA SimulatorWasAsked ==
    ASSUME Established, DemoRules, Outcome, Running, Stepping("actuator")
    PROVE  "simulator" \in done /\ ~Stepping("simulator") /\ Beliefs # {}
  <1>1. "actuator" \in done
    BY Keys DEF Stepping, Established, QuietInv, Running, Flying, OneShot
  <1>2. Beliefs # {}
    BY <1>1 DEF Outcome, Believed
  <1>3. "simulator" \in Workers /\ Past("simulator") /\ ~AtWork("simulator")
    BY Keys DEF Past, Stepping, AtWork
  <1>4. ~WantsOn(Seen(recs, Trace), "simulator")
    BY <1>3 DEF Established, QuietInv, Running, PastAreQuiet
  <1>5. PICK b \in DOMAIN recs : recs[b].slot = "beliefs" /\ recs[b].mode = "COMMIT" /\ Own(b)
    BY <1>2 DEF Beliefs, CommittedAs, Of, Own
  <1>6. ~recs[b].ttl
    BY <1>5 DEF Outcome, OwnRecords
  <1>7. Active(recs, b)
    BY <1>5, <1>6, OwnAre DEF Running
  <1>8. b \in Seen(recs, Trace)
    BY <1>5, <1>7 DEF Seen, Visible, Own
  <1>9. SimulatorWants(recs, Seen(recs, Trace))
    BY <1>5, <1>8 DEF SimulatorWants
  <1> QED
    BY <1>2, <1>3, <1>4, <1>9 DEF WantsOn, Stepping

\* What an action is judged by has the belief and, if one is promised, a favourable
\* prediction.
LEMMA JudgedByBelief ==
    ASSUME Established, DemoRules, OneKernel, Outcome, Running, PipelineStep, job[Main].op = "action",
           pc[Main] = "judge"
    PROVE  /\ recs[job[Main].prop] = IF local.safe THEN Review(Trace) ELSE Alert(Trace)
           /\ RequirementVerdict(recs, job[Main].view, anomaly_detected) = "OK"
           /\ Promised => PredictionVerdict(recs, job[Main].view, alert) = "OK"
  <1> DEFINE v == job[Main].view
             h == Held(recs, v, "beliefs", anomaly_detected)
             q == Held(recs, v, "predictions", PredKind(alert))
  <1>1. /\ stage = "inside" /\ Main \in Threads /\ job[Main].trace = Trace /\ pc[Main] # "return"
        /\ job[Main].prop \in DOMAIN recs /\ Own(job[Main].prop) /\ InFlight(job[Main].prop)
        /\ recs[job[Main].prop].slot = SlotOf[job[Main].op]
    BY AtCounter
  <1>2. AtWork("actuator") /\ Stepping("actuator")
    <2>1. PICK x \in DOMAIN OpOf : AtWork(x) /\ job[Main].op = OpOf[x]
      BY AtCounter
    <2>2. x = "actuator"
      BY <2>1 DEF OpOf
    <2> QED
      BY <1>1, <2>1, <2>2 DEF Stepping, AtStep
  <1>3. recs[job[Main].prop] = IF local.safe THEN Review(Trace) ELSE Alert(Trace)
    BY <1>1, <1>2 DEF Outcome, Proposed
  <1>4. "simulator" \in done /\ ~Stepping("simulator") /\ Beliefs # {}
    BY <1>2, SimulatorWasAsked
  <1>5. pc[Main] \in Pending /\ pc[Main] # "view"
    BY PendingLabels
  <1>6. job[Main].since = Len(recs)
    BY <1>1, <1>5 DEF Established, GroundsInv, CallSound
  <1>7. Viewed(recs, job[Main], "beliefs") /\ Viewed(recs, job[Main], "predictions")
    <2>1. KnowsView(recs, pc[Main], job[Main])
      BY <1>1 DEF Established, Known, Knows
    <2>2. Consulted["action"] = <<"beliefs", "constraints", "predictions">>
      BY DEF Consulted
    <2>3. /\ 1 \in DOMAIN Consulted["action"] /\ Consulted["action"][1] = "beliefs"
          /\ 3 \in DOMAIN Consulted["action"] /\ Consulted["action"][3] = "predictions"
      BY <2>2
    <2>4. "beliefs" \in Walked(pc[Main], job[Main]) /\ "predictions" \in Walked(pc[Main], job[Main])
      BY <1>5, <2>3 DEF Walked
    <2> QED
      BY <1>5, <2>1, <2>4 DEF KnowsView, Viewed
  <1>8. RequirementVerdict(recs, v, anomaly_detected) = "OK"
    <2>1. h # NoId /\ h \in Beliefs /\ h \in DOMAIN recs /\ Own(h)
      BY <1>1, <1>4, <1>6, <1>7, CaughtIsHeld DEF Beliefs
    <2> HIDE DEF h
    <2>2. recs[h].slot = "beliefs"
      BY <2>1 DEF Beliefs, CommittedAs, Of
    <2>3. recs[h].body.value
      BY <2>1, <2>2 DEF Outcome, OwnRecords
    <2> QED
      BY <2>1, <2>3 DEF RequirementVerdict, h
  <1>9. ASSUME Promised PROVE PredictionVerdict(recs, v, alert) = "OK"
    <2> DEFINE made  == Committed(recs, v, "predictions")
               held(i) == Held(recs, v, "predictions", recs[i].kind)
               match == {i \in made : recs[held(i)].body.action_type = alert}
    <2>1. PICK n \in DOMAIN Rules : Rules[n].expected_outcome >= 0 /\ Meets(reading, n)
      BY <1>9 DEF Promised
    <2>2. Predicted(n)
      BY <1>4, <2>1 DEF Outcome, Predicting
    <2>3. PICK i \in DOMAIN recs : /\ Own(i) /\ Active(recs, i)
                                   /\ recs[i].slot = "predictions" /\ recs[i].kind = PredKind(alert)
      BY <2>2 DEF Predicted
    <2>4. recs[i].mode = "COMMIT"
      <3>1. i # job[Main].prop
        BY <1>1, <2>3 DEF SlotOf
      <3>2. ~InFlight(i)
        BY <1>1, <3>1 DEF InFlight
      <3>3. recs[i].mode \in Modes
        <4>1. recs[i] \in Record
          BY <2>3, ElementOfSeq DEF Established, Inv, TypeOK
        <4> QED
          BY <4>1 DEF Record, RecordWith
      <3> QED
        BY <2>3, <3>2, <3>3 DEF Outcome, OwnRecords, Modes
    <2>5. i \in CommittedAs(Trace, "predictions", PredKind(alert))
      BY <2>3, <2>4 DEF CommittedAs, Of, Own
    <2>6. /\ q # NoId /\ q \in CommittedAs(Trace, "predictions", PredKind(alert))
          /\ q \in DOMAIN recs /\ Own(q)
      BY <1>1, <1>6, <1>7, <2>5, CaughtIsHeld
    <2>7. recs[q].slot = "predictions" /\ recs[q].mode = "COMMIT"
      BY <2>6 DEF CommittedAs, Of
    <2>8. q \in v
      <3>1. \A k \in 1..job[Main].since :
               /\ recs[k].slot = "predictions" /\ recs[k].mode = "COMMIT"
               /\ recs[k].trace = Trace /\ ~recs[k].ttl
               => k \in v
        BY <1>1, <1>7 DEF Viewed, Caught
      <3>2. q \in 1..Len(recs)
        BY <2>6, LenProperties DEF Established, Inv, TypeOK
      <3>3. ~recs[q].ttl
        BY <2>6 DEF Outcome, OwnRecords
      <3> HIDE DEF q, v
      <3> QED
        BY <1>6, <2>6, <2>7, <3>1, <3>2, <3>3 DEF Own
    <2>9. PICK m \in DOMAIN Rules :
             Meets(reading, m) /\ recs[q].body.expected_outcome = Rules[m].expected_outcome
             /\ recs[q].body.action_type = alert
      BY <2>6, <2>7, OwnAre DEF Running
    <2>10. Rules[m].expected_outcome >= 0
      BY <2>1, <2>9, RulesAgree
    <2>11. \A k \in made : k \in DOMAIN recs /\ held(k) = q
      <3> SUFFICES ASSUME NEW k \in made PROVE k \in DOMAIN recs /\ held(k) = q
        OBVIOUS
      <3>1. k \in DOMAIN recs /\ Own(k) /\ recs[k].slot = "predictions"
        BY <1>1, <1>7 DEF Viewed, Committed, Own
      <3>2. recs[k].kind = PredKind(alert)
        BY <3>1, OwnAre DEF Running
      <3> QED
        BY <3>1, <3>2
    <2>12. q \in made
      BY <2>7, <2>8 DEF Committed
    <2> HIDE DEF q, held
    <2>13. match = made
      BY <2>9, <2>11
    <2>14. made \in SUBSET Nat
      <3>1. DOMAIN recs \subseteq Nat
        BY LenProperties DEF Established, Inv, TypeOK
      <3> HIDE DEF made
      <3> QED
        BY <2>11, <3>1
    <2> HIDE DEF made
    <2>15. Min(made) \in made
      BY <2>12, <2>14, MinIsMember
    <2>16. PredictionFor(recs, v, alert) = q
      <3>1. PredictionFor(recs, v, alert) = IF match = {} THEN NoId ELSE held(Min(match))
        BY Zenon DEF PredictionFor, made, held
      <3> QED
        BY <2>11, <2>12, <2>13, <2>15, <3>1
    <2>17. ~(recs[q].body.expected_outcome < 0)
      <3>1. Rules[m].expected_outcome \in Int
        BY EpisodesAssumption DEF IsSimRule
      <3> QED
        BY <2>9, <2>10, <3>1
    <2>18. q # NoId
      BY <2>6
    <2> QED
      BY <2>16, <2>17, <2>18, Zenon DEF PredictionVerdict
  <1> QED
    BY <1>3, <1>8, <1>9

-----------------------------------------------------------------------------
\* Why a pipeline refuses.

\* A step that refuses nothing has nothing to answer for.
LEMMA NothingDeclined ==
    ASSUME Judging, stage = "inside", job'[Main].op = job[Main].op, job'[Main].need = job[Main].need,
           local' = local, pc'[Main] \notin {"needs", "arbitrate", "refuse"},
           pc'[Main] = "return" => job'[Main].code = "COMMITTED"
    PROVE  Judging'
BY DEF Judging, Declined

\* A belief is refused for its reading, or with no good evidence in it.
LEMMA BeliefDeclined ==
    ASSUME Established, DemoRules, OneKernel, Outcome, Running, PipelineStep,
           JudgeBelief(Main) \/ Arbitrate(Main) \/ Gate(Main)
    PROVE  Judging'
  <1> DEFINE res == BeliefVerdict(recs, job[Main].view, Deps(Main))
             known == ConfOf(recs, Find(Main, "percepts", Deps(Main)[job[Main].pos]))
  <1>1. /\ stage = "inside" /\ Main \in Threads /\ local' = local /\ reading' = reading
        /\ KeepsToCall(Main) /\ job[Main] \in Job
    BY AtCounter
  <1>2. pc[Main] \in {"judge", "arbitrate", "gate"} /\ job[Main].op = "belief"
    BY <1>1, ThreadFacts DEF JudgeBelief, Arbitrate, Gate, At, Fit, Established
  <1>3. /\ Deps(Main) = <<temperature>>
        /\ PerceptVerdict(recs, job[Main].view, temperature)
             = IF reading.stale THEN "STALE_EVIDENCE"
               ELSE IF reading.conflict THEN "CONFLICTING_EVIDENCE" ELSE "OK"
        /\ ConfOf(recs, Find(Main, "percepts", temperature)) = reading.conf
    BY <1>2, JudgedByReading
  <1>4. job \in [Threads -> Job] /\ DOMAIN pc = Threads /\ Judging
    BY DEF Established, Inv, TypeOK, Outcome
  <1>5. /\ reading.conf \in Int /\ MinConf \in Int /\ ArbConf \in Int
        /\ MinConf <= ArbConf
    <2>1. reading \in Readings[episode] /\ episode \in DOMAIN Readings
      BY EpisodesAssumption DEF Established, DemoInv, Running
    <2>2. reading.conf \in 0..MaxConf
      BY <2>1, GroundsAssumption
    <2> QED
      BY <2>2, KernelAssumption, ScaleAssumption DEF DemoRules
  <1>6. /\ GoodEvidence' <=> GoodEvidence
        /\ job'[Main].op = "belief"
    BY <1>1, <1>2 DEF GoodEvidence, KeepsToCall
  <1>7. ASSUME pc'[Main] = "refuse", ~GoodEvidence PROVE Judging'
    BY <1>6, <1>7 DEF Judging, Declined
  <1>8. ASSUME NEW code, Reject(Main, code), ~GoodEvidence PROVE Judging'
    BY <1>1, <1>4, <1>7, <1>8 DEF Reject, Goto
  <1>9. ASSUME NEW label, Goto(Main, label), label \in {"begin", "gate", "claims"} PROVE Judging'
    <2>1. pc'[Main] = label
      BY <1>1, <1>4, <1>9 DEF Goto
    <2> QED
      BY <1>1, <1>4, <1>9, <2>1, NothingDeclined DEF KeepsToCall
  <1>10. CASE JudgeBelief(Main)
    <2>1. res.code = PerceptVerdict(recs, job[Main].view, temperature)
      <3>1. DOMAIN <<temperature>> = {1} /\ <<temperature>>[1] = temperature
        OBVIOUS
      <3>2. Min({1}) = 1
        BY MinIsMember
      <3> DEFINE verdict(i) == PerceptVerdict(recs, job[Main].view, Deps(Main)[i])
                 failing == {i \in DOMAIN Deps(Main) : verdict(i) # "OK"}
      <3>3. res = IF failing = {} THEN [code |-> "OK", at |-> 0]
                  ELSE [code |-> verdict(Min(failing)), at |-> Min(failing)]
        BY Zenon DEF BeliefVerdict
      <3>4. verdict(1) = PerceptVerdict(recs, job[Main].view, temperature)
        BY <1>3, <3>1
      <3>5. failing = IF verdict(1) = "OK" THEN {} ELSE {1}
        BY <1>3, <3>1
      <3> HIDE DEF failing, verdict, res
      <3>6. CASE verdict(1) = "OK"
        BY <3>3, <3>4, <3>5, <3>6
      <3>7. CASE verdict(1) # "OK"
        BY <3>2, <3>3, <3>4, <3>5, <3>7
      <3> QED
        BY <3>6, <3>7
    <2> HIDE DEF res
    <2>2. CASE res.code = "OK" /\ Goto(Main, IF Deps(Main) = << >> THEN "begin" ELSE "gate")
      BY <1>9, <2>2
    <2>3. CASE res.code = "CONFLICTING_EVIDENCE" /\ Goto(Main, "arbitrate")
      <3>1. pc'[Main] = "arbitrate"
        BY <1>1, <1>4, <2>3 DEF Goto
      <3>2. reading'.conflict
        BY <1>1, <1>3, <2>1, <2>3
      <3> QED
        BY <1>6, <3>1, <3>2 DEF Judging, Declined
    <2>4. CASE /\ res.code \in {"MISSING_EVIDENCE", "STALE_EVIDENCE"}
               /\ Reject(Main, res.code)
      <3>1. ~GoodEvidence
        BY <1>3, <2>1, <2>4 DEF GoodEvidence
      <3> QED
        BY <1>8, <2>4, <3>1
    <2> QED
      BY <1>10, <2>2, <2>3, <2>4, Zenon DEF JudgeBelief, res
  <1>11. pc[Main] \in {"arbitrate", "gate"} => known = reading.conf
    <2>1. job[Main].pos \in DOMAIN Deps(Main) \/ pc[Main] = "judge"
      <3>1. KnowsBelief(recs, pc[Main], job[Main])
        BY <1>1 DEF Established, Known, Knows
      <3> QED
        BY <1>2, <3>1 DEF KnowsBelief, Deps
    <2>2. \A i \in DOMAIN <<temperature>> : <<temperature>>[i] = temperature
      OBVIOUS
    <2>3. Deps(Main)[job[Main].pos] = temperature \/ pc[Main] = "judge"
      BY <1>3, <2>1, <2>2
    <2> QED
      BY <1>3, <2>3
  <1> HIDE DEF known
  <1>12. CASE Arbitrate(Main)
    <2>1. pc[Main] = "arbitrate" /\ reading.conflict
      BY <1>1, <1>4, <1>12 DEF Arbitrate, At, Judging
    <2>2. CASE Goto(Main, "gate")
      BY <1>9, <2>2
    <2>3. CASE known < ArbConf /\ Reject(Main, "UNRESOLVED_CONFLICT")
      <3>1. ~GoodEvidence
        BY <1>5, <1>11, <2>1, <2>3 DEF GoodEvidence
      <3> QED
        BY <1>8, <2>3, <3>1
    <2> QED
      BY <1>12, <2>2, <2>3, Zenon DEF Arbitrate, known
  <1>13. CASE Gate(Main)
    <2>1. pc[Main] = "gate"
      BY <1>13 DEF Gate, At
    <2>2. CASE TooWeak(known) /\ Reject(Main, "LOW_CONFIDENCE")
      <3>1. ~GoodEvidence
        BY <1>5, <1>11, <2>1, <2>2 DEF GoodEvidence, TooWeak
      <3> QED
        BY <1>8, <2>2, <3>1
    <2>3. CASE Goto(Main, IF job[Main].pos = Len(Deps(Main)) THEN "claims" ELSE "gate")
      BY <1>9, <2>3
    <2> QED
      BY <1>13, <2>2, <2>3, Zenon DEF Gate, known
  <1> QED
    BY <1>10, <1>12, <1>13

\* A prediction is never refused: what it requires is the belief.
LEMMA PredictionNotDeclined ==
    ASSUME Established, DemoRules, OneKernel, Outcome, Running, PipelineStep, CheckNeeds(Main)
    PROVE  Judging'
  <1> DEFINE found == Find(Main, "beliefs", Requires(Main)[job[Main].pos])
  <1>1. /\ stage = "inside" /\ Main \in Threads /\ local' = local /\ job[Main].trace = Trace
        /\ KeepsToCall(Main) /\ pc[Main] = "needs" /\ InFlight(job[Main].prop)
        /\ job[Main].prop \in DOMAIN recs /\ Own(job[Main].prop)
        /\ recs[job[Main].prop].slot = SlotOf[job[Main].op]
    BY AtCounter DEF CheckNeeds, At
  <1>2. job[Main].op = "prediction" /\ job[Main].pos = 1 /\ Judging
    BY <1>1 DEF Established, Known, Knows, KnowsView, Outcome, Judging
  <1>3. AtWork("simulator")
    <2>1. PICK x \in DOMAIN OpOf : AtWork(x) /\ job[Main].op = OpOf[x]
      BY AtCounter
    <2> QED
      BY <1>2, <2>1 DEF OpOf
  <1>4. Requires(Main) = <<anomaly_detected>>
    <2>1. local.rule - 1 \in DOMAIN Rules
          /\ recs[job[Main].prop] = PredictionFrom(Rules[local.rule - 1], Trace)
      BY <1>1, <1>3 DEF Outcome, Proposed
    <2>2. PICK n \in DOMAIN Rules : recs[job[Main].prop] = PredictionFrom(Rules[n], Trace)
      BY <2>1
    <2>3. PredictionFrom(Rules[n], Trace).body.requires_beliefs = <<anomaly_detected>>
      BY DEF PredictionFrom, DemoRules
    <2> QED
      BY <2>2, <2>3 DEF Requires
  <1>5. Beliefs # {}
    <2>1. "simulator" \in done
      BY <1>1, <1>2 DEF Outcome, OwnRecords, SlotOf
    <2> QED
      BY <2>1 DEF Outcome, Believed
  <1>6. found # NoId
    <2>1. Requires(Main)[1] = anomaly_detected
      BY <1>4
    <2> QED
      BY <1>1, <1>2, <1>5, <2>1, FoundReading DEF Find, Beliefs
  <1> HIDE DEF found
  <1>7. pc'[Main] = "begin"
    <2>1. Len(<<anomaly_detected>>) = 1 /\ DOMAIN pc = Threads
      BY DEF Established, Inv, TypeOK
    <2>2. Goto(Main, IF job[Main].pos = Len(Requires(Main)) THEN "begin" ELSE "needs")
      BY <1>6, Zenon DEF CheckNeeds, found
    <2> QED
      BY <1>1, <1>2, <1>4, <2>1, <2>2 DEF Goto
  <1> QED
    BY <1>1, <1>2, <1>7, NothingDeclined DEF KeepsToCall

\* A review is never refused, and an alert only if no favourable outcome is promised.
LEMMA ActionDeclined ==
    ASSUME Established, DemoRules, OneKernel, Outcome, Running, PipelineStep, JudgeAction(Main)
    PROVE  Judging'
  <1> DEFINE r        == recs[job[Main].prop]
             v        == job[Main].view
             forecast == IF job[Main].need THEN PredictionVerdict(recs, v, ActionType(r)) ELSE "OK"
             verdict  == ActionVerdict(recs, v, r.body.requires_beliefs, r.body.flags)
  <1>1. /\ stage = "inside" /\ Main \in Threads /\ local' = local /\ UNCHANGED reading
        /\ KeepsToCall(Main) /\ pc[Main] = "judge" /\ job[Main].op = "action" /\ Judging
    BY AtCounter DEF JudgeAction, At, Outcome
  <1>2. /\ r = IF local.safe THEN Review(Trace) ELSE Alert(Trace)
        /\ RequirementVerdict(recs, v, anomaly_detected) = "OK"
        /\ Promised => PredictionVerdict(recs, v, alert) = "OK"
    BY <1>1, JudgedByBelief
  <1>3. r.body.flags = {} /\ r.body.requires_beliefs \in {<< >>, <<anomaly_detected>>}
    BY <1>2 DEF Review, Alert, Proposal
  <1>4. ~local.safe => ActionType(r) = alert
    BY <1>2 DEF Alert, Proposal, ActionType
  <1> HIDE DEF r, v
  <1>5. verdict = "OK"
    <2>1. \A i \in DOMAIN r.body.requires_beliefs : r.body.requires_beliefs[i] = anomaly_detected
      <3>1. \A i \in DOMAIN <<anomaly_detected>> : <<anomaly_detected>>[i] = anomaly_detected
        OBVIOUS
      <3> QED
        BY <1>3, <3>1
    <2>2. {i \in DOMAIN r.body.requires_beliefs :
             RequirementVerdict(recs, v, r.body.requires_beliefs[i]) # "OK"} = {}
      BY <1>2, <2>1
    <2>3. \A c : ~Blocks(recs, v, c, r.body.flags)
      BY <1>3 DEF Blocks
    <2> QED
      BY <2>2, <2>3, Zenon DEF ActionVerdict
  <1>6. forecast # "OK" => ~local.safe /\ ~Promised
    <2>1. local.safe => ~job[Main].need
      BY <1>1 DEF Judging
    <2> QED
      BY <1>2, <1>4, <2>1
  <1> HIDE DEF forecast, verdict
  <1>7. DOMAIN pc = Threads
    BY DEF Established, Inv, TypeOK
  <1>8. CASE forecast # "OK" /\ Reject(Main, forecast)
    <2>1. ~local'.safe /\ ~Promised' /\ pc'[Main] = "refuse" /\ job'[Main].op = "action"
      BY <1>1, <1>6, <1>7, <1>8 DEF Promised, Reject, Goto, KeepsToCall
    <2> QED
      BY <2>1 DEF Judging
  <1>9. CASE Goto(Main, "begin")
    <2>1. pc'[Main] = "begin"
      BY <1>1, <1>7, <1>9 DEF Goto
    <2> QED
      BY <1>1, <2>1, NothingDeclined DEF KeepsToCall
  <1> QED
    BY <1>5, <1>8, <1>9, Zenon DEF JudgeAction, forecast, verdict, r, v

LEMMA JudgingStays ==
    ASSUME Established, DemoRules, OneKernel, Outcome, Running, PipelineStep
    PROVE  Judging'
  <1>1. /\ stage = "inside" /\ Main \in Threads /\ local' = local /\ reading' = reading
        /\ Step(Main) /\ ~At(Main, "return") /\ KeepsToCall(Main) /\ Judging
        /\ job[Main] \in Job /\ IsProposal(recs, job[Main].prop, job[Main].op)
    BY AtCounter DEF Outcome
  <1>2. job \in [Threads -> Job] /\ DOMAIN pc = Threads
    BY DEF Established, Inv, TypeOK
  <1>3. job[Main].op # "plan"
    <2>1. PICK x \in DOMAIN OpOf : job[Main].op = OpOf[x]
      BY AtCounter
    <2> QED
      BY <2>1 DEF OpOf
  <1>4. ASSUME NEW label, Goto(Main, label),
               label \notin {"needs", "arbitrate", "refuse", "return"}
        PROVE  Judging'
    <2>1. pc'[Main] = label
      BY <1>1, <1>2, <1>4 DEF Goto
    <2> QED
      BY <1>1, <1>4, <2>1, NothingDeclined DEF KeepsToCall
  <1>5. CASE Acquire(Main) \/ ListSlot(Main) \/ Claims(Main)
    BY <1>4, <1>5 DEF Acquire, ListSlot, Claims
  <1>6. CASE BeginTx(Main) \/ WriteEvidence(Main) \/ Supersede(Main) \/ WriteRecord(Main)
    BY <1>4, <1>6 DEF BeginTx, WriteEvidence, Supersede, WriteRecord
  <1>7. CASE EndTx(Main)
    <2>1. pc'[Main] = "return" /\ job'[Main].code = "COMMITTED"
      BY <1>1, <1>2, <1>7 DEF EndTx, Goto, Job
    <2> QED
      BY <1>1, <2>1, NothingDeclined DEF KeepsToCall
  <1>8. CASE Refuse(Main)
    <2>1. pc[Main] = "refuse" /\ pc'[Main] = "return" /\ job' = job
      BY <1>1, <1>2, <1>8 DEF Refuse, At, Goto
    <2>2. (GoodEvidence' <=> GoodEvidence) /\ (Promised' <=> Promised)
      BY <1>1 DEF GoodEvidence, Promised
    <2> QED
      BY <1>1, <2>1, <2>2 DEF Judging, Declined
  <1>9. CASE Fetch(Main)
    <2> DEFINE label == IF job[Main].op # "prediction" THEN "view"
                        ELSE IF Requires(Main) = << >> THEN "begin" ELSE "needs"
    <2>1. job' = [job EXCEPT ![Main].since = Len(recs)] /\ Goto(Main, label)
      BY <1>1, <1>9 DEF Fetch
    <2>2. label \in {"view", "begin", "needs"}
      OBVIOUS
    <2> HIDE DEF label
    <2>3. job[Main].pos = 1
      BY <1>1, <1>9 DEF Established, Known, Knows, KnowsView, Fetch, At
    <2>4. job'[Main].pos = 1 /\ pc'[Main] = label
      BY <1>1, <1>2, <2>1, <2>3 DEF Goto, Job
    <2>5. CASE label = "needs"
      <3>1. job'[Main].op = job[Main].op /\ job'[Main].need = job[Main].need
        BY <1>1 DEF KeepsToCall
      <3> QED
        BY <1>1, <2>4, <2>5, <3>1 DEF Judging, Declined
    <2> QED
      BY <1>4, <2>1, <2>2, <2>5
  <1>10. ~JudgePlan(Main) /\ ~Return(Main)
    BY <1>1, <1>3 DEF JudgePlan, Return
  <1> QED
    BY <1>1, <1>5, <1>6, <1>7, <1>8, <1>9, <1>10, BeliefDeclined, PredictionNotDeclined, ActionDeclined, Zenon
    DEF Step

-----------------------------------------------------------------------------
\* What a verdict makes of the episode.

\* The proposal is refused.
LEMMA OutcomeRefused ==
    ASSUME Established, DemoRules, OneKernel, Outcome, Running, PipelineStep, Refuses(Main),
           [DemoNext]_demoVars
    PROVE  Outcome'
  <1> DEFINE p == job[Main].prop
  <1>1. /\ stage = "inside" /\ stage' = "inside" /\ Main \in Threads /\ Trace' = Trace
        /\ UNCHANGED <<turn, view, done, reading, local>>
        /\ KeepsToCall(Main) /\ p \in DOMAIN recs /\ Own(p) /\ InFlight(p)
        /\ recs[p].slot = SlotOf[job[Main].op] /\ recs[p].mode = "PROPOSE"
        /\ job[Main].op \in {"belief", "prediction", "action"}
    <2>1. PICK x \in DOMAIN OpOf : job[Main].op = OpOf[x]
      BY AtCounter
    <2> QED
      BY <2>1, AtCounter DEF OpOf, IsProposal
  <1>2. PICK x \in DOMAIN OpOf : AtWork(x) /\ job[Main].op = OpOf[x]
    BY AtCounter
  <1>3. /\ pc[Main] = "refuse" /\ pc'[Main] = "return" /\ job'[Main].code # "COMMITTED" /\ Declined
        /\ job[Main].code \in Reasons
        /\ recs' = Invalidate(recs, p, job[Main].code)
    BY DEF Refuses, Refusals, Reasons, Declined
  <1>4. /\ DOMAIN recs' = DOMAIN recs /\ recs'[p].status = "INVALIDATED"
        /\ \A i \in DOMAIN recs : i # p => recs'[i] = recs[i]
    <2>1. recs \in Seq(Record)
      BY DEF Established, Inv, TypeOK
    <2>2. PICK code \in Reasons : recs' = Invalidate(recs, p, code)
      BY <1>3
    <2>3. p \in DOMAIN recs
      BY <1>1
    <2> HIDE DEF p
    <2> QED
      BY <2>1, <2>2, <2>3, InvalidateFacts
  <1> HIDE DEF p
  <1>5. /\ \A i \in DOMAIN recs : Kept(recs[i], recs'[i])
        /\ Percepts \subseteq Percepts' /\ Beliefs \subseteq Beliefs'
    BY <1>1, EpisodeGoesOn
  <1>6. Acts' = Acts
    BY <1>1, <1>4, <1>5 DEF Acts, Of, Kept
  <1>7. \A i : ~InFlight(i)'
    BY <1>1, <1>3 DEF InFlight
  <1>8. \A i : InFlight(i) => i = p
    BY <1>1 DEF InFlight, p
  <1>9. job[Main].op # "prediction" /\ (job[Main].op = "belief" => ~GoodEvidence)
    BY <1>1, <1>3 DEF Outcome, Judging
  <1>10. \A w \in Workers : Stepping(w)' <=> Stepping(w)
    BY <1>1 DEF Stepping, AtStep, AtWork, Workers
  <1>11. \A w \in Workers : Stepping(w) => w = x
    BY <1>2, SameWorker, Keys DEF Stepping, OpOf
  <1>12. x # "simulator" /\ (x = "analyst" => ~GoodEvidence) /\ x # "sensor"
    BY <1>2, <1>9 DEF OpOf
  <1>13. OwnRecords'
    <2> SUFFICES ASSUME NEW i \in DOMAIN recs, Own(i)'
                 PROVE  /\ ~recs'[i].ttl
                        /\ ~(recs'[i].mode = "PROPOSE" /\ Active(recs', i))
                        /\ recs'[i].slot = "beliefs" => recs'[i].body.value /\ "analyst" \in done
                        /\ recs'[i].slot = "predictions" => "simulator" \in done
                        /\ recs'[i].slot = "actions" => "actuator" \in done
      BY <1>1, <1>4 DEF OwnRecords
    <2>1. Own(i)
      BY <1>1, <1>5 DEF Own, Kept
    <2>2. CASE i = p
      BY <1>4, <1>5, <2>1, <2>2 DEF Outcome, OwnRecords, Active, Kept
    <2>3. CASE i # p
      BY <1>4, <1>8, <2>1, <2>3 DEF Outcome, OwnRecords, Active
    <2> QED
      BY <2>2, <2>3
  <1>14. Proposed'
    BY <1>7 DEF Proposed
  <1>15. Evident' /\ Believed'
    <2>1. /\ ~Stepping("sensor") /\ ~Stepping("sensor")'
          /\ Stepping("analyst")' <=> Stepping("analyst")
          /\ Stepping("analyst") => ~GoodEvidence
          /\ GoodEvidence' <=> GoodEvidence
      BY <1>1, <1>10, <1>11, <1>12, Keys DEF GoodEvidence
    <2>2. Evident'
      BY <1>1, <1>5, <2>1 DEF Outcome, Evident
    <2>3. Believed'
      BY <1>1, <1>5, <2>1 DEF Outcome, Believed
    <2> QED
      BY <2>2, <2>3
  <1>16. Predicting'
    <2>1. ~Stepping("simulator") /\ ~Stepping("simulator")'
      BY <1>10, <1>11, <1>12, Keys
    <2>2. recs[p].slot # "predictions"
      BY <1>1, <1>9 DEF SlotOf
    <2>3. \A n \in DOMAIN Rules : Predicted(n) => Predicted(n)'
      BY <1>1, <1>4, <2>2 DEF Predicted, Own, Active
    <2> QED
      BY <1>1, <2>1, <2>3 DEF Outcome, Predicting
  <1>17. Acting'
    <2>1. /\ Stepping("actuator")' <=> Stepping("actuator")
          /\ Promised' <=> Promised
      BY <1>1, <1>10, Keys DEF Promised
    <2>2. Acted' <=> Acted
      <3>1. ~Returned /\ job'[Main].code # "COMMITTED"
        BY <1>3 DEF Returned
      <3> QED
        BY <1>1, <2>1, <3>1 DEF Acted
    <2>3. \A c \in DOMAIN recs : c \in DOMAIN recs' /\ recs'[c].kind = recs[c].kind
      BY <1>4, <1>5 DEF Kept
    <2> QED
      BY <1>1, <1>6, <2>1, <2>2, <2>3 DEF Outcome, Acting
  <1> QED
    BY <1>13, <1>14, <1>15, <1>16, <1>17, JudgingStays DEF Outcome

\* The proposal is committed.
LEMMA OutcomeCommitted ==
    ASSUME Established, DemoRules, OneKernel, Outcome, Running, PipelineStep, Commits(Main),
           [DemoNext]_demoVars
    PROVE  Outcome'
  <1> DEFINE p == job[Main].prop
  <1>0. PICK c : c = Len(recs')
    OBVIOUS
  <1>1. /\ stage = "inside" /\ stage' = "inside" /\ Main \in Threads /\ Trace' = Trace
        /\ UNCHANGED <<turn, view, done, reading, local>> /\ pc[Main] # "return"
        /\ KeepsToCall(Main) /\ p \in DOMAIN recs /\ Own(p) /\ InFlight(p)
        /\ recs[p].slot = SlotOf[job[Main].op] /\ recs[p].mode = "PROPOSE"
        /\ job[Main].trace = Trace
    BY AtCounter DEF IsProposal
  <1>2. PICK x \in DOMAIN OpOf : AtWork(x) /\ job[Main].op = OpOf[x]
    BY AtCounter
  <1>3. pc'[Main] = "return" /\ job'[Main].code = "COMMITTED" /\ LandsAs(recs, recs', job[Main])
    BY DEF Commits
  <1>4. /\ \A i \in DOMAIN recs : i \in DOMAIN recs' /\ Kept(recs[i], recs'[i])
        /\ Percepts \subseteq Percepts' /\ Beliefs \subseteq Beliefs' /\ Acts \subseteq Acts'
        /\ DOMAIN recs = 1..Len(recs) /\ DOMAIN recs' = 1..Len(recs')
        /\ Len(recs) \in Nat /\ Len(recs') \in Nat
        /\ \A i \in DOMAIN recs' : i \in DOMAIN recs \/ i \in (Len(recs) + 1)..Len(recs')
    BY <1>1, EpisodeGoesOn
  <1>5. /\ recs'[p].status = "INVALIDATED"
        /\ \A i \in DOMAIN recs : i # p => recs'[i] = recs[i]
        /\ recs'[c].slot = recs[p].slot /\ recs'[c].kind = recs[p].kind
        /\ recs'[c].body = recs[p].body /\ recs'[c].trace = Trace
        /\ recs'[c].mode = "COMMIT" /\ recs'[c].status = "ACTIVE"
        /\ c \in DOMAIN recs' /\ c \notin DOMAIN recs
        /\ \A i \in DOMAIN recs' : \/ i \in DOMAIN recs
                                   \/ /\ recs'[i].mode = "COMMIT" /\ ~recs'[i].ttl
                                      /\ i = c \/ (recs'[i].slot = "evidence" /\ x = "analyst")
    <2>1. /\ recs'[p].status = "INVALIDATED"
          /\ \A i \in DOMAIN recs : i # p => recs'[i] = recs[i]
          /\ recs'[c].slot = recs[p].slot /\ recs'[c].kind = recs[p].kind
          /\ recs'[c].body = recs[p].body /\ recs'[c].trace = Trace
          /\ recs'[c].mode = "COMMIT" /\ recs'[c].status = "ACTIVE" /\ Len(recs) < Len(recs')
      BY <1>0, <1>1, <1>3, <1>4 DEF LandsAs
    <2>2. \A i \in (Len(recs) + 1)..Len(recs') :
            /\ recs'[i].mode = "COMMIT" /\ ~recs'[i].ttl
            /\ i = c \/ (recs'[i].slot = "evidence" /\ job[Main].op = "belief")
      BY <1>0, <1>3 DEF LandsAs
    <2>3. job[Main].op = "belief" => x = "analyst"
      BY <1>2 DEF OpOf
    <2>4. c \in DOMAIN recs' /\ c \notin DOMAIN recs
      BY <1>0, <1>4, <2>1
    <2> QED
      BY <1>4, <2>1, <2>2, <2>3, <2>4
  <1>6. \A i : ~InFlight(i)'
    BY <1>1, <1>3 DEF InFlight
  <1>7. \A i : InFlight(i) => i = p
    BY <1>1 DEF InFlight
  <1> HIDE DEF p
  <1>8. \A w \in Workers : Stepping(w)' <=> Stepping(w)
    BY <1>1 DEF Stepping, AtStep, AtWork, Workers
  <1>9. \A w \in Workers : Stepping(w) <=> w = x
    <2>1. \A w \in Workers : AtWork(w) => w = x
      BY <1>2, SameWorker, Keys DEF OpOf
    <2> QED
      BY <1>1, <1>2, <2>1 DEF Stepping, AtStep
  <1>10. x \in Workers /\ x # "sensor" /\ SlotOf[job[Main].op] = SlotOf[OpOf[x]]
    BY <1>2, Keys DEF OpOf
  <1>11. Returned' /\ ~Returned /\ Own(c)' /\ Active(recs', c)
    BY <1>1, <1>3, <1>5 DEF Returned, Own, Active
  <1>12. OwnRecords'
    <2> SUFFICES ASSUME NEW i \in DOMAIN recs', Own(i)'
                 PROVE  /\ ~recs'[i].ttl
                        /\ ~(recs'[i].mode = "PROPOSE" /\ Active(recs', i))
                        /\ recs'[i].slot = "beliefs" => recs'[i].body.value /\ "analyst" \in done
                        /\ recs'[i].slot = "predictions" => "simulator" \in done
                        /\ recs'[i].slot = "actions" => "actuator" \in done
      BY <1>1 DEF OwnRecords
    <2>1. CASE i \in DOMAIN recs /\ i = p
      BY <1>1, <1>4, <1>5, <2>1 DEF Outcome, OwnRecords, Active, Kept
    <2>2. CASE i \in DOMAIN recs /\ i # p
      <3>1. Own(i) /\ recs'[i] = recs[i]
        BY <1>1, <1>5, <2>2 DEF Own
      <3> QED
        BY <1>7, <2>2, <3>1 DEF Outcome, OwnRecords, Active
    <2>3. CASE i = c
      <3>1. ~recs'[i].ttl /\ recs'[i].mode = "COMMIT"
        BY <1>5, <2>3
      <3> QED
        BY <1>1, <1>5, <2>3, <3>1 DEF Outcome, OwnRecords
    <2>4. CASE recs'[i].mode = "COMMIT" /\ ~recs'[i].ttl /\ recs'[i].slot = "evidence"
      BY <2>4
    <2> QED
      BY <1>5, <2>1, <2>2, <2>3, <2>4
  <1>13. Proposed'
    BY <1>6 DEF Proposed
  <1>14. Evident' /\ Believed'
    <2>1. /\ ~Stepping("sensor") /\ ~Stepping("sensor")'
          /\ Stepping("analyst") <=> x = "analyst"
          /\ GoodEvidence' <=> GoodEvidence
      BY <1>1, <1>8, <1>9, <1>10, Keys DEF GoodEvidence
    <2>2. x = "analyst" => Beliefs' # {}
      <3> SUFFICES ASSUME x = "analyst" PROVE Beliefs' # {}
        OBVIOUS
      <3>1. recs[p].slot = "beliefs"
        BY <1>1, <1>10 DEF OpOf, SlotOf
      <3>2. recs[p].kind = anomaly_detected
        BY <1>1, <3>1, OwnAre DEF Running
      <3> QED
        BY <1>1, <1>5, <3>1, <3>2 DEF Beliefs, CommittedAs, Of
    <2>3. Evident'
      BY <1>1, <1>4, <2>1 DEF Outcome, Evident
    <2>4. Believed'
      BY <1>1, <1>4, <2>1, <2>2 DEF Outcome, Believed
    <2> QED
      BY <2>3, <2>4
  <1>15. Predicting'
    <2>1. Stepping("simulator")' <=> Stepping("simulator")
      BY <1>8, Keys
    <2>2. SimulatorSees => SimulatorSees'
      BY <1>1, <1>4, StillSees
    <2>3. ASSUME NEW n \in DOMAIN Rules, Predicted(n) PROVE Predicted(n)'
      <3>1. PICK i \in DOMAIN recs :
              /\ Own(i) /\ Active(recs, i)
              /\ recs[i].slot = "predictions" /\ recs[i].kind = PredKind(alert)
              /\ recs[i].body.expected_outcome = Rules[n].expected_outcome
        BY <2>3 DEF Predicted
      <3>2. CASE i = p
        BY <1>1, <1>5, <1>11, <3>1, <3>2 DEF Predicted
      <3>3. CASE i # p
        <4>1. recs'[i] = recs[i] /\ i \in DOMAIN recs'
          BY <1>4, <1>5, <3>3
        <4> QED
          BY <1>1, <3>1, <4>1 DEF Predicted, Own, Active
      <3> QED
        BY <3>2, <3>3
    <2>4. \A n \in DOMAIN Rules : Predicted(n) => Predicted(n)'
      BY <2>3
    <2> QED
      BY <1>1, <2>1, <2>2, <2>4 DEF Outcome, Predicting
  <1>16. Acting'
    <2>1. /\ Stepping("actuator")' <=> Stepping("actuator")
          /\ Stepping("actuator") <=> x = "actuator"
          /\ Promised' <=> Promised
      BY <1>1, <1>8, <1>9, Keys DEF Promised
    <2>2. CASE x = "actuator"
      <3>1. recs[p].slot = "actions"
        BY <1>1, <1>10, <2>2 DEF OpOf, SlotOf
      <3>2. "actuator" \in done
        BY <1>1, <3>1 DEF Outcome, OwnRecords
      <3>3. Acted' /\ ~Acted
        BY <1>1, <1>3, <1>11, <2>1, <2>2, <3>2 DEF Acted
      <3>4. Acts = {} /\ (local.safe => ~Promised)
        BY <2>1, <2>2, <3>3 DEF Outcome, Acting
      <3>5. \A i \in DOMAIN recs' :
               recs'[i].trace = Trace' /\ recs'[i].slot = "actions" /\ recs'[i].mode = "COMMIT" <=> i = c
        <4>1. ASSUME NEW i \in DOMAIN recs, recs'[i].trace = Trace', recs'[i].slot = "actions",
                     recs'[i].mode = "COMMIT"
              PROVE  FALSE
          <5>1. i \in Acts
            BY <1>1, <1>4, <4>1 DEF Acts, Of, Kept
          <5> QED
            BY <3>4, <5>1
        <4> QED
          BY <1>1, <1>5, <2>2, <3>1, <4>1
      <3>6. Acts' = {c}
        BY <1>5, <3>5 DEF Acts, Of
      <3>7. Promised => recs'[c].kind = alert
        <4> SUFFICES ASSUME Promised PROVE recs'[c].kind = alert
          OBVIOUS
        <4>1. recs[p] = Alert(Trace)
          BY <1>1, <1>2, <2>2, <3>4 DEF Outcome, Proposed
        <4> QED
          BY <1>5, <4>1 DEF Alert, Proposal
      <3>8. local'.safe => ~Promised'
        BY <1>1, <2>1, <3>4
      <3> QED
        BY <1>5, <2>1, <3>3, <3>6, <3>7, <3>8 DEF Acting
    <2>3. CASE x # "actuator"
      <3>1. recs[p].slot # "actions"
        BY <1>1, <1>10, <2>3 DEF OpOf, SlotOf
      <3>2. Acts' = Acts
        BY <1>1, <1>4, <1>5, <3>1 DEF Acts, Of, Kept
      <3>3. Acted' <=> Acted
        BY <1>1, <2>1, <2>3 DEF Acted
      <3>4. \A i \in DOMAIN recs : i \in DOMAIN recs' /\ recs'[i].kind = recs[i].kind
        BY <1>4 DEF Kept
      <3> QED
        BY <2>1, <2>3, <3>2, <3>3, <3>4 DEF Outcome, Acting
    <2> QED
      BY <2>2, <2>3
  <1> QED
    BY <1>12, <1>13, <1>14, <1>15, <1>16, JudgingStays DEF Outcome

LEMMA DecidesPipeline ==
    ASSUME Established, DemoRules, OneKernel, Outcome, Running, PipelineStep
    PROVE  DecidedInv'
  <1>1. [DemoNext]_demoVars
    BY DEF DemoNext, Proceed
  <1>2. /\ stage = "inside" /\ stage' = "inside" /\ errors' = errors /\ pc[Main] # "return"
        /\ UNCHANGED <<turn, view, done, reading, local>> /\ Trace' = Trace
        /\ KeepsToCall(Main)
        /\ Commits(Main) \/ Refuses(Main) \/ GoesOn(Main)
    BY AtCounter
  <1>3. ASSUME GoesOn(Main) PROVE Outcome'
    <2>1. recs' = recs /\ pc'[Main] # "return"
      BY <1>3 DEF GoesOn
    <2>2. /\ AtStep /\ AtStep' /\ ~Returned /\ ~Returned'
      BY <1>2, <2>1 DEF AtStep, Returned
    <2>3. \A i : InFlight(i)' <=> InFlight(i)
      BY <1>2, <2>1 DEF InFlight, KeepsToCall
    <2>4. Stepping("actuator") => ~Acted /\ (local'.safe => ~Promised)
      BY <1>2, <2>2 DEF Acted, Outcome, Acting
    <2> QED
      BY <1>2, <2>1, <2>2, <2>3, <2>4, OutcomeResumes, JudgingStays
  <1>4. Outcome'
    BY <1>1, <1>2, <1>3, OutcomeCommitted, OutcomeRefused
  <1> QED
    BY <1>2, <1>4 DEF DecidedInv

-----------------------------------------------------------------------------
\* Every step.

LEMMA DecidedInit == DemoInit => DecidedInv
  <1>1. DemoInit => stage = "between" /\ episode = 0
    BY DEF DemoInit
  <1>2. stage = "between" /\ episode = 0 => ~Running /\ ~Completed
    BY DEF Running, Completed
  <1> QED
    BY <1>1, <1>2 DEF DecidedInv, EpisodeDecided

\* Where nothing changes, an episode has come to what it had.
LEMMA DecidedStutters ==
    ASSUME DecidedInv, UNCHANGED demoVars
    PROVE  DecidedInv'
  <1>1. /\ UNCHANGED <<recs, job, pc>>
        /\ UNCHANGED <<stage, turn, view, done, errors, local, reading, episode>>
    BY DEF demoVars, vars, orchVars, workerVars, driverVars
  <1>2. Trace' = Trace /\ (Running' <=> Running) /\ (Completed' <=> Completed)
    BY <1>1 DEF Trace, Running, Completed
  <1>3. /\ (GoodEvidence' <=> GoodEvidence) /\ (Promised' <=> Promised)
        /\ \A i : Own(i)' <=> Own(i)
        /\ \A i : InFlight(i)' <=> InFlight(i)
        /\ \A w : AtWork(w)' <=> AtWork(w)
        /\ \A w : Stepping(w)' <=> Stepping(w)
        /\ Percepts' = Percepts /\ Beliefs' = Beliefs /\ Acts' = Acts
        /\ (Returned' <=> Returned) /\ (Declined' <=> Declined)
    BY <1>1, <1>2 DEF GoodEvidence, Promised, Own, InFlight, AtWork, Stepping, AtStep,
       Percepts, Beliefs, Acts, CommittedAs, Of, Returned, Declined
  <1>4. EpisodeDecided => EpisodeDecided'
    BY <1>1, <1>2, <1>3 DEF EpisodeDecided, CommittedAs, Of
  <1>5. OwnRecords /\ Proposed => OwnRecords' /\ Proposed'
    BY <1>1, <1>2, <1>3 DEF OwnRecords, Proposed
  <1>6. Evident /\ Believed => Evident' /\ Believed'
    BY <1>1, <1>3 DEF Evident, Believed
  <1>7. Predicting => Predicting'
    <2>1. SimulatorSees => SimulatorSees'
      BY <1>1 DEF SimulatorSees
    <2>2. \A n \in DOMAIN Rules : Predicted(n) => Predicted(n)'
      BY <1>1, <1>3 DEF Predicted
    <2> QED
      BY <1>1, <1>3, <2>1, <2>2 DEF Predicting
  <1>8. Acting => Acting'
    <2>1. Acted' <=> Acted
      BY <1>1, <1>3 DEF Acted
    <2> QED
      BY <1>1, <1>3, <2>1 DEF Acting
  <1>9. Judging => Judging'
    BY <1>1, <1>3 DEF Judging
  <1> QED
    BY <1>1, <1>2, <1>4, <1>5, <1>6, <1>7, <1>8, <1>9 DEF DecidedInv, Outcome

LEMMA DecidedNext ==
    ASSUME Established, DemoRules, OneKernel,
           DependenciesJudged, WeakEvidenceRefused, AlertsAreGrounded,
           DecidedInv, [DemoNext]_demoVars
    PROVE  DecidedInv'
  <1>1. CASE UNCHANGED demoVars
    BY <1>1, DecidedStutters
  <1>2. CASE \E n \in DOMAIN Readings : \E r \in Readings[n] : BeginEpisode(n, r)
    BY <1>2, DecidesBegins
  <1>3. ASSUME errors' PROVE DecidedInv'
    BY <1>3 DEF DecidedInv, EpisodeDecided, Completed, Running
  <1>4. CASE WriteFails \/ PipelineFails \/ Restart
    <2>1. errors' = TRUE
      BY <1>4 DEF WriteFails, PipelineFails, StepFailed, Restart
    <2> QED
      BY <1>3, <2>1
  <1>5. CASE Proceed
    <2>1. stage # "between" /\ errors' = errors
      BY <1>5, ProceedKeeps
    <2>2. CASE errors
      BY <1>3, <2>1, <2>2
    <2>3. CASE ~errors
      <3>1. Running /\ Outcome
        BY <2>1, <2>3 DEF Running, DecidedInv
      <3>2. ASSUME NEW w \in DOMAIN OpOf, CallPipeline(w) PROVE DecidedInv'
        BY <3>1, <3>2, DecidesCalls
      <3> QED
        BY <1>5, <3>1, <3>2, DecidesLooks, DecidesStarts, DecidesSimulated, DecidesEnds,
           DecidesWrites, DecidesProposes, DecidesPipeline, DecidesAnswers, Zenon DEF Proceed
    <2> QED
      BY <2>2, <2>3
  <1> QED
    BY <1>1, <1>2, <1>4, <1>5 DEF DemoNext

\* An episode without an exception is decided by its reading alone: believed if the
\* reading is good evidence, and then exactly one action committed, the alert if a rule
\* promises a favourable outcome of the reading and otherwise the review, and nothing
\* is left proposed.  So whatever the readings, the constraints learned and the
\* episodes before it, for rules and thresholds like those of the demo (the workers of
\* examples/multi_episode.py through the loop of Orchestrator.run and the pipelines).
THEOREM DemoEpisodeDecided ==
    ASSUME OneKernel, DemoRules, MaxRounds > 2
    PROVE  DemoSpec => []EpisodeDecided
  <1>1. DemoInit => DecidedInv
    BY DecidedInit
  <1>2. /\ Inv /\ Known /\ DemoInv /\ LessonsInv /\ GroundsInv /\ QuietInv
        /\ DependenciesJudged /\ WeakEvidenceRefused /\ AlertsAreGrounded
        /\ DecidedInv /\ [DemoNext]_demoVars
        => DecidedInv'
    BY DecidedNext DEF LessonsInv, Established
  <1>3. DecidedInv => EpisodeDecided
    BY DEF DecidedInv, EpisodeDecided, Completed
  <1>4. DemoSpec => [](Inv /\ Known /\ DependenciesJudged /\ WeakEvidenceRefused)
    <2>1. DemoSpec => Spec
      BY DemoUsesKernel DEF UsesKernel
    <2> QED
      BY <2>1, KernelInv, KernelKnown, KernelDependenciesJudged, KernelWeakEvidenceRefused, PTL
  <1>5. DemoSpec => [](DemoInv /\ LessonsInv)
    BY LessonsInvariant
  <1>6. DemoSpec => []GroundsInv
    BY GroundsInvariant
  <1>7. DemoSpec => []QuietInv
    BY QuietInvariant
  <1>8. DemoSpec => []AlertsAreGrounded
    BY DemoAlertsAreGrounded
  <1> QED
    BY <1>1, <1>2, <1>3, <1>4, <1>5, <1>6, <1>7, <1>8, PTL DEF DemoSpec
=============================================================================
