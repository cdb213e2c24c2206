----------------------------- MODULE KernelProofs -----------------------------
(***************************************************************************)
(* Proofs about the kernel at work, for any number of kernels, threads,    *)
(* records, calls and payloads: the inductive invariant that ties a call's *)
(* locals, the locks and the open transaction to the board, and with it    *)
(* the types; then that the board is an audit trail and commits are whole. *)
(***************************************************************************)
EXTENDS KernelProperties, BlackboardProofs

-----------------------------------------------------------------------------
\* The inductive invariant.

\* Where a thread holds the commit lock of its kernel, where it has the store's
\* transaction, and where it has a proposal it accepted and has not settled.
Holding  == Labels \ {"idle", "acquire"}
Writing  == InTx \cup {"end"}
Pending  == Holding \ {"fetch", "return"}

\* All threads call the same kernel.
OneKernel == \A t, u \in Threads : Home[t] = Home[u]

\* The locals j of a call fit the place it has reached, on board rs.  With one
\* kernel the proposal is still unsettled: only a holder of the commit lock settles.
Fit(rs, label, j) ==
    /\ label # "idle" => j.op \in AllOps /\ j.trace \in Traces
    /\ label \in Pending =>
         /\ j.prop \in DOMAIN rs
         /\ rs[j.prop].mode = "PROPOSE" /\ rs[j.prop].slot = SlotOf[j.op]
         /\ j.since \in 0..Len(rs)
         /\ OneKernel => rs[j.prop].status # "INVALIDATED"
    /\ label = "refuse" => j.code \in Refusals
    /\ label \in {"arbitrate", "gate", "claims", "evidence"} => j.op = "belief"
    /\ label \in Writing \cup {"needs", "begin"} => j.op # "plan"

\* The boards an open transaction passes through, from board rs on.
Voucher(j) == [claims |-> j.claims, vetted |-> j.vetted]
Vouched(rs, j) ==
    IF j.op = "belief" THEN Append(rs, EvidenceFor(rs, j.prop, j.trace, Voucher(j), j.since))
    ELSE rs
Voided(rs, j) == Invalidate(Vouched(rs, j), j.prop, "SUPERSEDED_BY_COMMIT")
Landed(rs, j) ==
    Append(Voided(rs, j),
           CommittedFrom(Voided(rs, j), j.prop, j.trace,
                         IF j.op = "belief" THEN Len(Voided(rs, j)) ELSE NoId, j.since))

\* What the open transaction has written is what its place in the pipeline says.
Ready(rs, board, label, j) ==
    /\ label = "evidence"  => board = rs
    /\ label = "supersede" => board = Vouched(rs, j)
    /\ label = "commit"    => board = Voided(rs, j)
    /\ label = "end"       => board = Landed(rs, j)

\* TypeOK is not inductive alone: that what is appended is a record depends on the
\* proposal being one that was accepted, and on the transaction being its thread's.
Safe(t) ==
    /\ pc[t] \in Holding => commitLock[Home[t]] = t
    /\ pc[t] \in Writing <=> owner = t
    /\ Fit(recs, pc[t], job[t])
    /\ Ready(recs, work, pc[t], job[t])

Inv == TypeOK /\ \A t \in Threads : Safe(t)

-----------------------------------------------------------------------------
\* The locals stay fit while the board grows.
LEMMA FitGrown ==
    ASSUME NEW rs \in Seq(Record), NEW new, Grown(rs, new), NEW label, NEW j, Fit(rs, label, j),
           label \in Pending /\ OneKernel => new[j.prop].status # "INVALIDATED"
    PROVE  Fit(new, label, j)
  <1>1. ASSUME label \in Pending
        PROVE  /\ j.prop \in DOMAIN new
               /\ new[j.prop].mode = "PROPOSE" /\ new[j.prop].slot = SlotOf[j.op]
    BY <1>1, Zenon DEF Fit, Grown, Kept
  <1>2. ASSUME label \in Pending PROVE j.since \in 0..Len(new)
    <2>1. Len(rs) \in Nat /\ Len(new) \in Nat /\ Len(rs) <= Len(new)
      BY LenProperties DEF Grown
    <2>2. j.since \in 0..Len(rs)
      BY <1>2 DEF Fit
    <2> QED
      BY <2>1, <2>2
  <1> QED
    BY <1>1, <1>2, Zenon DEF Fit

\* A step inside a pipeline that leaves the board and the locks alone: it moves
\* thread t to another label with other locals.
LEMMA LocalStep ==
    ASSUME Inv, NEW t \in Threads, NEW label \in Holding \ Writing, NEW j \in Job,
           pc[t] \in Holding \ Writing, Fit(recs, label, j),
           pc' = [pc EXCEPT ![t] = label], job' = [job EXCEPT ![t] = j],
           UNCHANGED <<recs, work, owner, commitLock, calls>>
    PROVE  Inv'
  <1>1. TypeOK'
    BY DEF Inv, TypeOK, Holding
  <1>2. ASSUME NEW u \in Threads PROVE Safe(u)'
    <2>1. CASE u = t
      <3>1. pc'[u] = label /\ job'[u] = j
        BY <2>1 DEF Inv, TypeOK
      <3>2. commitLock[Home[t]] = t /\ owner # t
        BY DEF Inv, Safe
      <3>3. label \notin Writing /\ label \notin {"evidence", "supersede", "commit", "end"}
        BY DEF Writing, InTx
      <3> QED
        BY <2>1, <3>1, <3>2, <3>3 DEF Safe, Ready
    <2>2. CASE u # t
      <3>1. pc'[u] = pc[u] /\ job'[u] = job[u]
        BY <2>2 DEF Inv, TypeOK
      <3> QED
        BY <3>1 DEF Inv, Safe
    <2> QED
      BY <2>1, <2>2
  <1> QED
    BY <1>1, <1>2 DEF Inv

-----------------------------------------------------------------------------
\* The steps of judging a proposal.

LEMMA ThreadFacts ==
    ASSUME Inv, NEW t \in Threads
    PROVE  /\ job[t] \in Job /\ pc[t] \in Labels /\ Fit(recs, pc[t], job[t])
           /\ pc[t] \in Writing <=> owner = t
BY DEF Inv, TypeOK, Safe

LEMMA FetchInv ==
    ASSUME Inv, NEW t \in Threads, Fetch(t)
    PROVE  Inv'
  <1>1. /\ job[t] \in Job /\ pc[t] = "fetch" /\ pc[t] \in Holding \ Writing
        /\ job[t].op \in AllOps /\ job[t].trace \in Traces
    BY ThreadFacts DEF Fetch, At, Fit, Holding, Labels, Writing, InTx
  <1>2. CASE IsProposal(recs, job[t].prop, job[t].op)
    <2> DEFINE label == IF job[t].op # "prediction" THEN "view"
                        ELSE IF Requires(t) = << >> THEN "begin" ELSE "needs"
               j == [job[t] EXCEPT !.since = Len(recs)]
    <2>1. label \in Holding \ Writing /\ label \in {"view", "begin", "needs"}
      BY DEF Holding, Labels, Writing, InTx
    <2>2. Len(recs) \in Nat
      BY LenProperties DEF Inv, TypeOK
    <2>3. j \in Job
      BY <1>1, <2>2 DEF Job
    <2>4. /\ j.op = job[t].op /\ j.trace = job[t].trace
          /\ j.prop = job[t].prop /\ j.since = Len(recs)
      BY <1>1 DEF Job
    <2>5. label \in {"needs", "begin"} => j.op # "plan"
      BY <2>4
    <2>6. pc' = [pc EXCEPT ![t] = label] /\ job' = [job EXCEPT ![t] = j]
          /\ UNCHANGED <<recs, work, owner, commitLock, calls>>
      BY <1>2 DEF Fetch, Goto
    <2> HIDE DEF label, j
    <2>7. Fit(recs, label, j)
      <3>1. recs[j.prop].status # "INVALIDATED"
        BY <1>2, <2>4 DEF IsProposal, Active
      <3> QED
        BY <1>1, <1>2, <2>1, <2>2, <2>4, <2>5, <3>1 DEF Fit, IsProposal, Writing, InTx
    <2> QED
      BY <1>1, <2>1, <2>3, <2>6, <2>7, LocalStep
  <1>3. CASE ~IsProposal(recs, job[t].prop, job[t].op)
    <2> DEFINE j == [job[t] EXCEPT !.code = "INVALID_PROPOSAL"]
    <2>1. j \in Job /\ j.op = job[t].op /\ j.trace = job[t].trace
      BY <1>1 DEF Job
    <2>2. pc' = [pc EXCEPT ![t] = "return"] /\ job' = [job EXCEPT ![t] = j]
          /\ UNCHANGED <<recs, work, owner, commitLock, calls>>
      BY <1>3 DEF Fetch, Goto
    <2> HIDE DEF j
    <2>3. Fit(recs, "return", j) /\ "return" \in Holding \ Writing
      BY <1>1, <2>1 DEF Fit, Pending, Holding, Labels, Writing, InTx
    <2> QED
      BY <1>1, <2>1, <2>2, <2>3, LocalStep
  <1> QED
    BY <1>2, <1>3

\* Moving on with a fit proposal: only the label, and locals no test depends on, change.
LEMMA MoveOn ==
    ASSUME Inv, NEW t \in Threads, pc[t] \in Pending \ Writing,
           NEW label \in (Pending \ Writing) \cup {"return"}, NEW j \in Job,
           j.op = job[t].op, j.trace = job[t].trace, j.prop = job[t].prop, j.since = job[t].since,
           label = "refuse" => j.code \in Refusals,
           label \in {"arbitrate", "gate", "claims"} => j.op = "belief",
           label \in {"needs", "begin"} => j.op # "plan",
           pc' = [pc EXCEPT ![t] = label], job' = [job EXCEPT ![t] = j],
           UNCHANGED <<recs, work, owner, commitLock, calls>>
    PROVE  Inv'
  <1>1. pc[t] \in Holding \ Writing /\ label \in Holding \ Writing /\ pc[t] # "idle"
    BY DEF Pending, Holding, Labels, Writing, InTx
  <1>2. label # "evidence" /\ label \notin Writing
    BY <1>1 DEF Writing, InTx
  <1>3. Fit(recs, label, j)
    BY <1>1, <1>2, ThreadFacts DEF Fit
  <1> QED
    BY <1>1, <1>3, LocalStep

\* Turning to the refusal of the proposal.
LEMMA RejectInv ==
    ASSUME Inv, NEW t \in Threads, pc[t] \in Pending \ Writing,
           NEW code \in Refusals, Reject(t, code),
           UNCHANGED <<recs, work, owner, commitLock, calls>>
    PROVE  Inv'
  <1> DEFINE j == [job[t] EXCEPT !.code = code]
  <1>1. job[t] \in Job
    BY ThreadFacts
  <1>2. /\ j \in Job /\ j.op = job[t].op /\ j.trace = job[t].trace /\ j.prop = job[t].prop
        /\ j.since = job[t].since /\ j.code = code
    BY <1>1 DEF Job
  <1>3. pc' = [pc EXCEPT ![t] = "refuse"] /\ job' = [job EXCEPT ![t] = j]
    BY DEF Reject, Goto
  <1>4. "refuse" \in Pending \ Writing
    BY DEF Pending, Holding, Labels, Writing, InTx
  <1> HIDE DEF j
  <1> QED
    BY <1>2, <1>3, <1>4, MoveOn

LEMMA ListSlotInv ==
    ASSUME Inv, NEW t \in Threads, ListSlot(t)
    PROVE  Inv'
  <1> DEFINE last  == job[t].pos = Len(Consulted[job[t].op])
             label == IF last THEN "judge" ELSE "view"
             seen  == Listed(recs, Consulted[job[t].op][job[t].pos], job[t].trace, FALSE)
             pos   == IF last THEN 1 ELSE job[t].pos + 1
             mid   == [job[t] EXCEPT !.view = job[t].view \cup seen]
             j     == [mid EXCEPT !.pos = pos]
  <1>1. job[t] \in Job /\ pc[t] \in Pending \ Writing /\ label \in Pending \ Writing
        /\ label \notin {"refuse", "arbitrate", "gate", "claims", "needs", "begin"}
    BY ThreadFacts DEF ListSlot, At, Pending, Holding, Labels, Writing, InTx
  <1>2. seen \in SUBSET Nat
    <2>1. DOMAIN recs \subseteq Nat
      BY LenProperties DEF Inv, TypeOK
    <2>2. seen \subseteq DOMAIN recs
      BY Zenon DEF Listed
    <2> QED
      BY <2>1, <2>2
  <1>3. pos \in Nat
    BY <1>1 DEF Job
  <1>4. job' = [job EXCEPT ![t] = j]
    BY Zenon DEF ListSlot
  <1>5. pc' = [pc EXCEPT ![t] = label] /\ UNCHANGED <<recs, work, owner, commitLock, calls>>
    BY DEF ListSlot, Goto
  <1> HIDE DEF seen, pos, label
  <1>6. mid \in Job /\ mid.op = job[t].op /\ mid.trace = job[t].trace /\ mid.prop = job[t].prop
        /\ mid.since = job[t].since
    BY <1>1, <1>2 DEF Job
  <1> HIDE DEF mid
  <1>7. j \in Job /\ j.op = job[t].op /\ j.trace = job[t].trace /\ j.prop = job[t].prop
        /\ j.since = job[t].since
    BY <1>3, <1>6 DEF Job
  <1> HIDE DEF j
  <1> QED
    BY <1>1, <1>4, <1>5, <1>7, MoveOn

\* The lists a pipeline walks.
LEMMA AcceptedLists ==
    ASSUME Inv, NEW t \in Threads, pc[t] \in Pending
    PROVE  /\ job[t].op = "belief" => Deps(t) \in Seq(Kinds)
           /\ job[t].op = "plan" =>
                recs[job[t].prop].body.steps \in Seq([requires_beliefs : Seq(Kinds), flags : SUBSET STRING])
  <1>1. /\ job[t].prop \in DOMAIN recs /\ recs[job[t].prop].mode = "PROPOSE"
        /\ recs[job[t].prop].slot = SlotOf[job[t].op]
    BY DEF Inv, Safe, Fit
  <1>2. WellFormed(recs[job[t].prop])
    BY <1>1 DEF Inv, TypeOK
  <1>3. SlotOf["belief"] = "beliefs" /\ SlotOf["plan"] = "plans"
    BY DEF SlotOf
  <1> QED
    BY <1>1, <1>2, <1>3, Zenon DEF WellFormed, Deps

\* The position of the first member of a list that fails.
LEMMA FirstFailing ==
    ASSUME NEW S, NEW list \in Seq(S), NEW failing \in SUBSET DOMAIN list, failing # {}
    PROVE  Min(failing) \in failing /\ Min(failing) \in Nat
  <1>1. DOMAIN list \subseteq Nat
    BY LenProperties
  <1> QED
    BY <1>1, MinIsMember

LEMMA JudgeBeliefInv ==
    ASSUME Inv, NEW t \in Threads, JudgeBelief(t)
    PROVE  Inv'
  <1> DEFINE res == BeliefVerdict(recs, job[t].view, Deps(t))
  <1>1. /\ job[t] \in Job /\ pc[t] \in Pending \ Writing /\ job[t].op = "belief"
        /\ UNCHANGED <<recs, work, owner, commitLock, calls>>
    BY ThreadFacts DEF JudgeBelief, At, Pending, Holding, Labels, Writing, InTx
  <1>2. CASE res.code = "OK" /\ Goto(t, IF Deps(t) = << >> THEN "begin" ELSE "gate") /\ UNCHANGED job
    <2> DEFINE label == IF Deps(t) = << >> THEN "begin" ELSE "gate"
    <2>1. label \in Pending \ Writing /\ label # "refuse" /\ label # "needs"
      BY DEF Pending, Holding, Labels, Writing, InTx
    <2>2. pc' = [pc EXCEPT ![t] = label] /\ job' = [job EXCEPT ![t] = job[t]]
      BY <1>2 DEF Goto, Inv, TypeOK
    <2> HIDE DEF label
    <2> QED
      BY <1>1, <2>1, <2>2, MoveOn
  <1>3. CASE /\ res.code = "CONFLICTING_EVIDENCE"
             /\ job' = [job EXCEPT ![t].pos = res.at] /\ Goto(t, "arbitrate")
    <2> DEFINE j == [job[t] EXCEPT !.pos = res.at]
               failing == {i \in DOMAIN Deps(t) : PerceptVerdict(recs, job[t].view, Deps(t)[i]) # "OK"}
    <2>1. failing # {} /\ res.at = Min(failing)
      BY <1>3, Zenon DEF BeliefVerdict
    <2>2. res.at \in Nat
      <3>1. Deps(t) \in Seq(Kinds)
        BY <1>1, AcceptedLists
      <3>2. failing \in SUBSET DOMAIN Deps(t)
        OBVIOUS
      <3> HIDE DEF failing, res
      <3> QED
        BY <2>1, <3>1, <3>2, FirstFailing
    <2> HIDE DEF res
    <2>3. /\ j \in Job /\ j.op = job[t].op /\ j.trace = job[t].trace
          /\ j.prop = job[t].prop /\ j.since = job[t].since
      BY <1>1, <2>2 DEF Job
    <2>4. pc' = [pc EXCEPT ![t] = "arbitrate"] /\ job' = [job EXCEPT ![t] = j]
      BY <1>3 DEF Goto
    <2>5. "arbitrate" \in Pending \ Writing
      BY DEF Pending, Holding, Labels, Writing, InTx
    <2> HIDE DEF j
    <2> QED
      BY <1>1, <2>3, <2>4, <2>5, MoveOn
  <1>4. CASE res.code \in {"MISSING_EVIDENCE", "STALE_EVIDENCE"} /\ Reject(t, res.code)
    <2>1. res.code \in Refusals
      BY <1>4 DEF Refusals
    <2> HIDE DEF res
    <2> QED
      BY <1>1, <1>4, <2>1, RejectInv
  <1> QED
    BY <1>2, <1>3, <1>4, Zenon DEF JudgeBelief

LEMMA ArbitrateInv ==
    ASSUME Inv, NEW t \in Threads, Arbitrate(t)
    PROVE  Inv'
  <1> DEFINE conf == ConfOf(recs, Find(t, "percepts", Deps(t)[job[t].pos]))
             j == [job[t] EXCEPT !.pos = 1]
  <1>1. /\ job[t] \in Job /\ pc[t] \in Pending \ Writing /\ job[t].op = "belief"
        /\ UNCHANGED <<recs, work, owner, commitLock, calls>>
    BY ThreadFacts DEF Arbitrate, At, Pending, Holding, Labels, Writing, InTx, Fit
  <1> HIDE DEF conf
  <1>2. CASE job' = [job EXCEPT ![t].pos = 1] /\ Goto(t, "gate")
    <2>1. /\ j \in Job /\ j.op = job[t].op /\ j.trace = job[t].trace
          /\ j.prop = job[t].prop /\ j.since = job[t].since
      BY <1>1 DEF Job
    <2>2. pc' = [pc EXCEPT ![t] = "gate"] /\ job' = [job EXCEPT ![t] = j]
      BY <1>2 DEF Goto
    <2>3. "gate" \in Pending \ Writing
      BY DEF Pending, Holding, Labels, Writing, InTx
    <2> HIDE DEF j
    <2> QED
      BY <1>1, <2>1, <2>2, <2>3, MoveOn
  <1>3. CASE Reject(t, "UNRESOLVED_CONFLICT")
    BY <1>1, <1>3, RejectInv DEF Refusals
  <1> QED
    BY <1>2, <1>3, Zenon DEF Arbitrate

LEMMA GateInv ==
    ASSUME Inv, NEW t \in Threads, Gate(t)
    PROVE  Inv'
  <1> DEFINE conf  == ConfOf(recs, Find(t, "percepts", Deps(t)[job[t].pos]))
             last  == job[t].pos = Len(Deps(t))
             label == IF last THEN "claims" ELSE "gate"
             pos   == IF last THEN 1 ELSE job[t].pos + 1
             saw   == job[t].vetted \/ conf # NoConf
             mid   == [job[t] EXCEPT !.pos = pos]
             j     == [mid EXCEPT !.vetted = saw]
  <1>1. /\ job[t] \in Job /\ pc[t] \in Pending \ Writing /\ job[t].op = "belief"
        /\ UNCHANGED <<recs, work, owner, commitLock, calls>>
    BY ThreadFacts DEF Gate, At, Pending, Holding, Labels, Writing, InTx, Fit
  <1>2. CASE Reject(t, "LOW_CONFIDENCE")
    BY <1>1, <1>2, RejectInv DEF Refusals
  <1>3. CASE ~TooWeak(conf)
    <2>1. label \in Pending \ Writing /\ label \notin {"refuse", "needs", "begin"}
      BY DEF Pending, Holding, Labels, Writing, InTx
    <2>2. pos \in Nat /\ saw \in BOOLEAN
      BY <1>1 DEF Job
    <2>3. job' = [job EXCEPT ![t] = j] /\ pc' = [pc EXCEPT ![t] = label]
      <3>1. ~Reject(t, "LOW_CONFIDENCE") \/ Reject(t, "LOW_CONFIDENCE")
        OBVIOUS
      <3>2. job' = [job EXCEPT ![t] = j]
        BY <1>3, Zenon DEF Gate
      <3>3. pc' = [pc EXCEPT ![t] = label]
        BY <1>3, Zenon DEF Gate, Goto
      <3> QED
        BY <3>2, <3>3
    <2> HIDE DEF pos, saw, label
    <2>4. /\ mid \in Job /\ mid.op = job[t].op /\ mid.trace = job[t].trace
          /\ mid.prop = job[t].prop /\ mid.since = job[t].since
      BY <1>1, <2>2 DEF Job
    <2> HIDE DEF mid
    <2>5. /\ j \in Job /\ j.op = job[t].op /\ j.trace = job[t].trace
          /\ j.prop = job[t].prop /\ j.since = job[t].since
      BY <2>2, <2>4 DEF Job
    <2> HIDE DEF j
    <2> QED
      BY <1>1, <2>1, <2>3, <2>5, MoveOn
  <1> QED
    BY <1>2, <1>3, Zenon DEF Gate

LEMMA ClaimsInv ==
    ASSUME Inv, NEW t \in Threads, Claims(t)
    PROVE  Inv'
  <1> DEFINE conf  == ConfOf(recs, Find(t, "percepts", Deps(t)[job[t].pos]))
             last  == job[t].pos = Len(Deps(t))
             label == IF last THEN "begin" ELSE "claims"
             found == [job[t] EXCEPT !.claims = TRUE]
             next  == [job[t] EXCEPT !.pos = job[t].pos + 1]
  <1>1. /\ job[t] \in Job /\ pc[t] \in Pending \ Writing /\ job[t].op = "belief"
        /\ UNCHANGED <<recs, work, owner, commitLock, calls>>
    BY ThreadFacts DEF Claims, At, Pending, Holding, Labels, Writing, InTx, Fit
  <1>2. {"begin", "claims"} \subseteq Pending \ Writing
    BY DEF Pending, Holding, Labels, Writing, InTx
  <1>3. CASE conf # NoConf
    <2>1. job' = [job EXCEPT ![t] = found] /\ pc' = [pc EXCEPT ![t] = "begin"]
      BY <1>3, Zenon DEF Claims, Goto
    <2>2. /\ found \in Job /\ found.op = job[t].op /\ found.trace = job[t].trace
          /\ found.prop = job[t].prop /\ found.since = job[t].since
      BY <1>1 DEF Job
    <2> HIDE DEF found
    <2> QED
      BY <1>1, <1>2, <2>1, <2>2, MoveOn
  <1>4. CASE conf = NoConf
    <2>1. job' = [job EXCEPT ![t] = next] /\ pc' = [pc EXCEPT ![t] = label]
      BY <1>4, Zenon DEF Claims, Goto
    <2>2. /\ next \in Job /\ next.op = job[t].op /\ next.trace = job[t].trace
          /\ next.prop = job[t].prop /\ next.since = job[t].since
      BY <1>1 DEF Job
    <2>3. label \in {"begin", "claims"}
      OBVIOUS
    <2> HIDE DEF next, label
    <2> QED
      BY <1>1, <1>2, <2>1, <2>2, <2>3, MoveOn
  <1> QED
    BY <1>3, <1>4

LEMMA CheckNeedsInv ==
    ASSUME Inv, NEW t \in Threads, CheckNeeds(t)
    PROVE  Inv'
  <1> DEFINE found == Find(t, "beliefs", Requires(t)[job[t].pos])
             last  == job[t].pos = Len(Requires(t))
             label == IF last THEN "begin" ELSE "needs"
             j     == [job[t] EXCEPT !.pos = job[t].pos + 1]
  <1>1. /\ job[t] \in Job /\ pc[t] \in Pending \ Writing /\ job[t].op # "plan"
        /\ UNCHANGED <<recs, work, owner, commitLock, calls>>
    BY ThreadFacts DEF CheckNeeds, At, Pending, Holding, Labels, Writing, InTx, Fit
  <1>2. CASE Reject(t, "PREDICTION_MISSING_BELIEF")
    BY <1>1, <1>2, RejectInv DEF Refusals
  <1>3. CASE found # NoId
    <2>1. job' = [job EXCEPT ![t] = j] /\ pc' = [pc EXCEPT ![t] = label]
      BY <1>3, Zenon DEF CheckNeeds, Goto
    <2>2. /\ j \in Job /\ j.op = job[t].op /\ j.trace = job[t].trace
          /\ j.prop = job[t].prop /\ j.since = job[t].since
      BY <1>1 DEF Job
    <2>3. label \in Pending \ Writing /\ label \in {"begin", "needs"}
      BY DEF Pending, Holding, Labels, Writing, InTx
    <2> HIDE DEF j, label
    <2> QED
      BY <1>1, <2>1, <2>2, <2>3, MoveOn
  <1> QED
    BY <1>2, <1>3, Zenon DEF CheckNeeds

\* A verdict on an action, or on a step of a plan, is one of four.
LEMMA ActionVerdicts ==
    ASSUME NEW rs, NEW v, NEW requires, NEW flags
    PROVE  ActionVerdict(rs, v, requires, flags)
             \in {"OK", "BLOCKED", "NO_COMMITTED_BELIEF", "BELIEF_NOT_SATISFIED"}
  <1>1. \A kind : RequirementVerdict(rs, v, kind)
                     \in {"OK", "NO_COMMITTED_BELIEF", "BELIEF_NOT_SATISFIED"}
    BY Zenon DEF RequirementVerdict
  <1> QED
    BY <1>1 DEF ActionVerdict

LEMMA JudgePlanInv ==
    ASSUME Inv, NEW t \in Threads, JudgePlan(t)
    PROVE  Inv'
  <1> DEFINE steps == recs[job[t].prop].body.steps
             code  == PlanVerdict(recs, job[t].view, steps)
             j     == [job[t] EXCEPT !.code = code]
  <1>1. /\ job[t] \in Job /\ pc[t] \in Pending \ Writing /\ job[t].op = "plan"
        /\ UNCHANGED <<recs, work, owner, commitLock, calls>>
    BY ThreadFacts DEF JudgePlan, At, Pending, Holding, Labels, Writing, InTx
  <1>2. CASE code = "PLAN_FEASIBLE"
    <2>1. job' = [job EXCEPT ![t] = j] /\ pc' = [pc EXCEPT ![t] = "return"]
      BY <1>2, Zenon DEF JudgePlan, Goto
    <2> HIDE DEF code
    <2>2. /\ j \in Job /\ j.op = job[t].op /\ j.trace = job[t].trace
          /\ j.prop = job[t].prop /\ j.since = job[t].since
      BY <1>1, <1>2 DEF Job
    <2> HIDE DEF j
    <2> QED
      BY <1>1, <2>1, <2>2, MoveOn
  <1>3. CASE code # "PLAN_FEASIBLE"
    <2> DEFINE verdict(i) == ActionVerdict(recs, job[t].view, steps[i].requires_beliefs, steps[i].flags)
               failing    == {i \in DOMAIN steps : verdict(i) # "OK"}
    <2>1. steps \in Seq([requires_beliefs : Seq(Kinds), flags : SUBSET STRING])
      BY <1>1, AcceptedLists
    <2>2. failing # {} /\ code = PlanCode[verdict(Min(failing))]
      BY <1>3, Zenon DEF PlanVerdict
    <2>3. Min(failing) \in failing
      <3> HIDE DEF steps, verdict
      <3>1. failing \in SUBSET DOMAIN steps
        OBVIOUS
      <3> HIDE DEF failing
      <3> QED
        BY <2>1, <2>2, <3>1, FirstFailing
    <2>4. verdict(Min(failing)) \in {"BLOCKED", "NO_COMMITTED_BELIEF", "BELIEF_NOT_SATISFIED"}
      <3>1. Min(failing) \in DOMAIN steps /\ verdict(Min(failing)) # "OK"
        BY <2>3, Zenon
      <3> QED
        BY <3>1, ActionVerdicts
    <2>5. code \in Refusals
      <3> HIDE DEF failing, verdict
      <3> QED
        BY <2>2, <2>4 DEF PlanCode, Refusals
    <2> HIDE DEF code
    <2>6. Reject(t, code)
      BY <1>3, Zenon DEF JudgePlan, code
    <2> QED
      BY <1>1, <2>5, <2>6, RejectInv
  <1> QED
    BY <1>2, <1>3

LEMMA JudgeActionInv ==
    ASSUME Inv, NEW t \in Threads, JudgeAction(t)
    PROVE  Inv'
  <1> DEFINE r        == recs[job[t].prop]
             forecast == IF job[t].need THEN PredictionVerdict(recs, job[t].view, ActionType(r)) ELSE "OK"
             verdict  == ActionVerdict(recs, job[t].view, r.body.requires_beliefs, r.body.flags)
  <1>1. /\ job[t] \in Job /\ pc[t] \in Pending \ Writing /\ job[t].op = "action"
        /\ UNCHANGED <<recs, work, owner, commitLock, calls>>
    BY ThreadFacts DEF JudgeAction, At, Pending, Holding, Labels, Writing, InTx
  <1>2. CASE forecast # "OK" /\ Reject(t, forecast)
    <2>1. forecast \in {"NO_PREDICTION", "NEGATIVE_PREDICTION"}
      BY <1>2, Zenon DEF PredictionVerdict
    <2> HIDE DEF forecast
    <2>2. forecast \in Refusals
      BY <2>1 DEF Refusals
    <2> QED
      BY <1>1, <1>2, <2>2, RejectInv
  <1>3. CASE verdict # "OK" /\ Reject(t, verdict)
    <2>1. verdict \in {"BLOCKED", "NO_COMMITTED_BELIEF", "BELIEF_NOT_SATISFIED"}
      BY <1>3, ActionVerdicts
    <2> HIDE DEF verdict
    <2>2. verdict \in Refusals
      BY <2>1 DEF Refusals
    <2> QED
      BY <1>1, <1>3, <2>2, RejectInv
  <1>4. CASE Goto(t, "begin") /\ UNCHANGED job
    <2>1. pc' = [pc EXCEPT ![t] = "begin"] /\ job' = [job EXCEPT ![t] = job[t]]
      BY <1>4 DEF Goto, Inv, TypeOK
    <2>2. "begin" \in Pending \ Writing
      BY DEF Pending, Holding, Labels, Writing, InTx
    <2> QED
      BY <1>1, <2>1, <2>2, MoveOn
  <1> QED
    BY <1>2, <1>3, <1>4, Zenon DEF JudgeAction

-----------------------------------------------------------------------------
\* The steps that touch the board, the locks or the calls.

LEMMA GrownTyped ==
    ASSUME TypeOK, NEW new, Grown(recs, new)
    PROVE  /\ new \in Seq(Record)
           /\ \A i \in DOMAIN new : new[i].mode = "PROPOSE" => WellFormed(new[i])
  <1>1. ASSUME NEW i \in DOMAIN new, new[i].mode = "PROPOSE" PROVE WellFormed(new[i])
    <2>1. CASE i \in DOMAIN recs
      <3>1. Kept(recs[i], new[i])
        BY <2>1 DEF Grown
      <3>2. WellFormed(recs[i])
        BY <1>1, <2>1, <3>1 DEF TypeOK, Kept
      <3> QED
        BY <3>1, <3>2, KeptWellFormed
    <2>2. CASE i \notin DOMAIN recs
      BY <1>1, <2>2 DEF Grown
    <2> QED
      BY <2>1, <2>2
  <1> QED
    BY <1>1 DEF Grown

\* A thread outside the transaction is safe while others write and lock.
LEMMA SafeElsewhere ==
    ASSUME Inv, NEW u \in Threads, pc'[u] = pc[u], job'[u] = job[u], owner # u, owner' # u,
           pc[u] \in Holding => commitLock'[Home[u]] = u, Grown(recs, recs'),
           pc[u] \in Pending /\ OneKernel => recs'[job[u].prop].status # "INVALIDATED"
    PROVE  Safe(u)'
  <1>1. pc[u] \notin Writing /\ Fit(recs, pc[u], job[u])
    BY DEF Inv, Safe
  <1>2. Fit(recs', pc[u], job[u])
    BY <1>1, FitGrown DEF Inv, TypeOK
  <1>3. Ready(recs', work', pc[u], job[u])
    BY <1>1 DEF Ready, Writing, InTx
  <1> QED
    BY <1>1, <1>2, <1>3 DEF Safe

\* The same while the board stays as it is.
LEMMA SafeUndisturbed ==
    ASSUME Inv, NEW u \in Threads, pc'[u] = pc[u], job'[u] = job[u], owner # u, owner' # u,
           pc[u] \in Holding => commitLock'[Home[u]] = u, recs' = recs
    PROVE  Safe(u)'
  <1>1. Grown(recs, recs')
    BY GrownSame DEF Inv, TypeOK
  <1>2. pc[u] \in Pending /\ OneKernel => recs'[job[u].prop].status # "INVALIDATED"
    BY DEF Inv, Safe, Fit
  <1> QED
    BY <1>1, <1>2, SafeElsewhere

\* The board changes while nobody is in a transaction.
LEMMA BoardStep ==
    ASSUME Inv, owner = NoThread, Grown(recs, recs'),
           \A i \in DOMAIN recs : recs'[i].status = "INVALIDATED" => recs[i].status = "INVALIDATED",
           UNCHANGED <<work, owner, commitLock, pc, job, calls>>
    PROVE  Inv'
  <1>1. TypeOK'
    BY GrownTyped DEF Inv, TypeOK
  <1>2. ASSUME NEW u \in Threads PROVE Safe(u)'
    <2>1. owner # u /\ owner' # u
      BY KernelAssumption
    <2>2. pc[u] \in Holding => commitLock'[Home[u]] = u
      BY DEF Inv, Safe
    <2>3. pc[u] \in Pending /\ OneKernel => recs'[job[u].prop].status # "INVALIDATED"
      BY DEF Inv, Safe, Fit
    <2> QED
      BY <2>1, <2>2, <2>3, SafeElsewhere
  <1> QED
    BY <1>1, <1>2 DEF Inv

LEMMA WriteInv ==
    ASSUME Inv, NEW d \in Drafts, Write(d)
    PROVE  Inv'
  <1>1. d \in Record /\ FreshRecord(d)
    BY PublishedIsRecord DEF Write
  <1>2. d.mode = "PROPOSE" => WellFormed(d)
    BY <1>1 DEF FreshRecord
  <1>3. Grown(recs, recs')
    BY <1>1, <1>2, AppendGrows DEF Write, Inv, TypeOK
  <1>4. \A i \in DOMAIN recs : recs'[i] = recs[i]
    BY <1>1, AppendProperties, LenProperties DEF Write, Inv, TypeOK
  <1> QED
    BY <1>3, <1>4, BoardStep DEF Write, StoreFree

LEMMA ExpireInv ==
    ASSUME Inv, NEW i \in DOMAIN recs, Expire(i)
    PROVE  Inv'
  <1>1. Grown(recs, recs')
    BY ExpireFacts, UpdateGrows DEF Expire, Inv, TypeOK
  <1>2. \A k \in DOMAIN recs : recs'[k].status = "INVALIDATED" => recs[k].status = "INVALIDATED"
    <2> SUFFICES ASSUME NEW k \in DOMAIN recs
                 PROVE  recs'[k].status = "INVALIDATED" => recs[k].status = "INVALIDATED"
      OBVIOUS
    <2>1. recs' = ExpireRecord(recs, i) /\ recs \in Seq(Record)
      BY DEF Expire, Inv, TypeOK
    <2> QED
      BY <2>1, ExpireFacts
  <1> QED
    BY <1>1, <1>2, BoardStep DEF Expire, StoreFree

LEMMA CallInv ==
    ASSUME Inv, NEW t \in Threads, NEW op \in Ops, NEW p \in 0..Len(recs), NEW trace \in Traces,
           NEW need \in BOOLEAN, Call(t, op, p, trace, need)
    PROVE  Inv'
  <1> DEFINE asked == [NoJob EXCEPT !.op = op]
             about == [asked EXCEPT !.prop = p]
             within == [about EXCEPT !.trace = trace]
             j == [within EXCEPT !.need = need]
  <1>1. p \in Nat /\ op \in AllOps
    BY LenProperties, KernelAssumption DEF Inv, TypeOK
  <1>2. job' = [job EXCEPT ![t] = j]
    BY Zenon DEF Call
  <1>3. asked \in Job /\ asked.op \in AllOps
    BY <1>1 DEF Job, NoJob, NoId
  <1> HIDE DEF asked
  <1>4. about \in Job /\ about.op \in AllOps
    BY <1>1, <1>3 DEF Job
  <1> HIDE DEF about
  <1>5. within \in Job /\ within.op \in AllOps /\ within.trace \in Traces
    BY <1>4 DEF Job
  <1> HIDE DEF within
  <1>6. j \in Job /\ j.op \in AllOps /\ j.trace \in Traces
    BY <1>5 DEF Job
  <1> HIDE DEF j
  <1>7. /\ pc[t] = "idle" /\ pc' = [pc EXCEPT ![t] = "acquire"]
        /\ calls < MaxCalls /\ calls' = calls + 1 /\ UNCHANGED <<recs, work, owner, commitLock>>
    BY DEF Call, At, Goto
  <1>8. TypeOK'
    <2>1. calls' \in 0..MaxCalls
      BY <1>7, KernelAssumption DEF Inv, TypeOK
    <2>2. job' \in [Threads -> Job] /\ pc' \in [Threads -> Labels]
      BY <1>2, <1>6, <1>7 DEF Inv, TypeOK, Labels
    <2> QED
      BY <1>7, <2>1, <2>2 DEF Inv, TypeOK
  <1>9. ASSUME NEW u \in Threads PROVE Safe(u)'
    <2>1. CASE u = t
      <3>1. pc'[u] = "acquire" /\ job'[u] = j
        BY <1>2, <1>7, <2>1 DEF Inv, TypeOK
      <3>2. "acquire" \notin Holding /\ "acquire" \notin Writing /\ "acquire" \notin Pending
        BY DEF Holding, Pending, Writing, InTx
      <3>3. owner # t
        BY <1>7 DEF Inv, Safe, Writing, InTx
      <3> QED
        BY <1>6, <1>7, <2>1, <3>1, <3>2, <3>3 DEF Safe, Fit, Ready, Writing, InTx
    <2>2. CASE u # t
      <3>1. pc'[u] = pc[u] /\ job'[u] = job[u]
        BY <1>2, <1>7, <2>2 DEF Inv, TypeOK
      <3> QED
        BY <1>7, <3>1 DEF Inv, Safe
    <2> QED
      BY <2>1, <2>2
  <1> QED
    BY <1>8, <1>9 DEF Inv

LEMMA AcquireInv ==
    ASSUME Inv, NEW t \in Threads, Acquire(t)
    PROVE  Inv'
  <1>1. /\ pc[t] = "acquire" /\ pc' = [pc EXCEPT ![t] = "fetch"] /\ commitLock[Home[t]] = NoThread
        /\ commitLock' = [commitLock EXCEPT ![Home[t]] = t]
        /\ UNCHANGED <<recs, work, owner, job, calls>> /\ Home[t] \in Kernels
    BY KernelAssumption DEF Acquire, At, Goto, LockFree
  <1>2. TypeOK'
    BY <1>1 DEF Inv, TypeOK, Labels
  <1>3. ASSUME NEW u \in Threads PROVE Safe(u)'
    <2>1. CASE u = t
      <3>1. pc'[u] = "fetch" /\ commitLock'[Home[u]] = u
        BY <1>1, <2>1 DEF Inv, TypeOK
      <3>2. "fetch" \notin Writing /\ "fetch" \notin Pending
        BY DEF Pending, Writing, InTx
      <3>3. owner # t
        BY <1>1 DEF Inv, Safe, Writing, InTx
      <3> QED
        BY <1>1, <2>1, <3>1, <3>2, <3>3 DEF Inv, Safe, Fit, Ready, Writing, InTx
    <2>2. CASE u # t
      <3>1. pc'[u] = pc[u]
        BY <1>1, <2>2 DEF Inv, TypeOK
      <3>2. pc[u] \in Holding => commitLock'[Home[u]] = u
        <4>1. pc[u] \in Holding => commitLock[Home[u]] = u /\ u # NoThread
          BY KernelAssumption DEF Inv, Safe
        <4>2. Home[u] \in Kernels
          BY KernelAssumption
        <4> QED
          BY <1>1, <4>1, <4>2 DEF Inv, TypeOK
      <3> QED
        BY <1>1, <3>1, <3>2 DEF Inv, Safe
    <2> QED
      BY <2>1, <2>2
  <1> QED
    BY <1>2, <1>3 DEF Inv

\* The boards of a transaction are later states of the board it began with.
LEMMA BoardsGrow ==
    ASSUME NEW rs \in Seq(Record), NEW j \in Job, j.prop \in DOMAIN rs,
           WellFormed(rs[j.prop]), j.trace \in Traces
    PROVE  /\ Vouched(rs, j) \in Seq(Record) /\ Grown(rs, Vouched(rs, j))
           /\ Voided(rs, j) \in Seq(Record) /\ Grown(rs, Voided(rs, j))
           /\ Landed(rs, j) \in Seq(Record) /\ Grown(rs, Landed(rs, j))
  <1> DEFINE p == j.prop
             first  == Vouched(rs, j)
             second == Voided(rs, j)
             evid   == IF j.op = "belief" THEN Len(second) ELSE NoId
             commit == CommittedFrom(second, p, j.trace, evid, j.since)
  <1>1. Voucher(j) \in Vouchers /\ j.since \in Nat /\ rs[p].kind \in Kinds
    BY DEF Job, Voucher, Vouchers, WellFormed
  <1>2. Grown(rs, first)
    <2>1. CASE j.op = "belief"
      <3> DEFINE e == EvidenceFor(rs, p, j.trace, Voucher(j), j.since)
      <3>1. e \in Record
        BY <1>1, WrittenAreRecords, 0 \in Nat
      <3>2. e.mode = "COMMIT"
        BY DEF EvidenceFor
      <3>3. first = Append(rs, e)
        BY <2>1, Zenon DEF Vouched
      <3> HIDE DEF e, first
      <3> QED
        BY <3>1, <3>2, <3>3, AppendGrows
    <2>2. CASE j.op # "belief"
      BY <2>2, GrownSame DEF Vouched
    <2> QED
      BY <2>1, <2>2
  <1>3. first \in Seq(Record) /\ p \in DOMAIN first
    BY <1>2 DEF Grown
  <1>4. second = Invalidate(first, p, "SUPERSEDED_BY_COMMIT")
    BY DEF Voided
  <1>5. "SUPERSEDED_BY_COMMIT" \in Reasons
    BY DEF Reasons
  <1> HIDE DEF first, second
  <1>6. Grown(first, second)
    BY <1>3, <1>4, <1>5, InvalidateGrows
  <1>7. Grown(rs, second)
    BY <1>2, <1>6, GrownTwice
  <1>8. second \in Seq(Record) /\ p \in DOMAIN second /\ second[p].kind \in Kinds
    BY <1>1, <1>7 DEF Grown, Kept
  <1>9. evid \in Nat
    BY <1>8, LenProperties DEF NoId
  <1>10. commit \in Record /\ commit.mode = "COMMIT"
    <2> HIDE DEF evid
    <2>1. commit \in Record
      <3>1. commit = CommittedFrom(second, p, j.trace, evid, j.since)
        OBVIOUS
      <3> HIDE DEF commit
      <3> QED
        BY <1>1, <1>8, <1>9, <3>1, WrittenAreRecords
    <2>2. commit.mode = "COMMIT"
      BY DEF CommittedFrom
    <2> QED
      BY <2>1, <2>2
  <1>11. Landed(rs, j) = Append(second, commit)
    BY Zenon DEF Landed, second
  <1> HIDE DEF commit
  <1>12. Grown(second, Landed(rs, j))
    BY <1>8, <1>10, <1>11, AppendGrows
  <1>13. Grown(rs, Landed(rs, j))
    BY <1>7, <1>12, GrownTwice
  <1> QED
    BY <1>2, <1>7, <1>13 DEF Grown, first, second

\* The same of the proposal a thread has accepted.
LEMMA AcceptedBoards ==
    ASSUME Inv, NEW t \in Threads, pc[t] \in Pending
    PROVE  LET j == job[t]
           IN  /\ j \in Job /\ j.prop \in DOMAIN recs /\ WellFormed(recs[j.prop])
               /\ j.trace \in Traces
               /\ Vouched(recs, j) \in Seq(Record) /\ Grown(recs, Vouched(recs, j))
               /\ Voided(recs, j) \in Seq(Record) /\ Grown(recs, Voided(recs, j))
               /\ Landed(recs, j) \in Seq(Record) /\ Grown(recs, Landed(recs, j))
  <1>1. pc[t] # "idle"
    BY DEF Pending, Holding
  <1>2. job[t] \in Job /\ job[t].prop \in DOMAIN recs /\ job[t].trace \in Traces
    BY <1>1, ThreadFacts DEF Fit
  <1>3. WellFormed(recs[job[t].prop])
    BY ThreadFacts DEF Fit, Inv, TypeOK
  <1> QED
    BY <1>2, <1>3, BoardsGrow DEF Inv, TypeOK

\* Threads that hold a commit lock of the same kernel are the same.
LEMMA OneHolder ==
    ASSUME Inv, NEW t \in Threads, NEW u \in Threads, pc[t] \in Holding, pc[u] \in Holding,
           Home[t] = Home[u]
    PROVE  t = u
BY DEF Inv, Safe

LEMMA RefuseInv ==
    ASSUME Inv, NEW t \in Threads, Refuse(t)
    PROVE  Inv'
  <1>1. /\ pc[t] = "refuse" /\ owner = NoThread /\ pc' = [pc EXCEPT ![t] = "return"]
        /\ recs' = Invalidate(recs, job[t].prop, job[t].code)
        /\ UNCHANGED <<work, owner, commitLock, job, calls>>
    BY DEF Refuse, At, Goto, StoreFree
  <1>2. /\ pc[t] \in Pending /\ pc[t] \in Holding
        /\ "return" \in Labels /\ "return" \notin Pending /\ "return" \notin Writing
    BY <1>1 DEF Pending, Holding, Labels, Writing, InTx
  <1>3. job[t].code \in Reasons /\ job[t].prop \in DOMAIN recs /\ recs \in Seq(Record)
    BY <1>1, <1>2, ThreadFacts DEF Fit, Reasons, Inv, TypeOK
  <1>4. Grown(recs, recs')
    BY <1>1, <1>3, InvalidateGrows
  <1>5. TypeOK'
    BY <1>1, <1>2, <1>4, GrownTyped DEF Inv, TypeOK
  <1>6. ASSUME NEW u \in Threads PROVE Safe(u)'
    <2>1. owner # u /\ owner' # u
      BY <1>1, KernelAssumption
    <2>2. CASE u = t
      <3>1. pc'[u] = "return" /\ job'[u] = job[u] /\ commitLock'[Home[u]] = u
        BY <1>1, <1>2, <2>2 DEF Inv, TypeOK, Safe
      <3>2. job[u].op \in AllOps /\ job[u].trace \in Traces
        BY <1>1, <2>2, ThreadFacts DEF Fit
      <3> QED
        BY <1>2, <2>1, <3>1, <3>2 DEF Safe, Fit, Ready, Writing, InTx
    <2>3. CASE u # t
      <3>1. pc'[u] = pc[u] /\ job'[u] = job[u]
        BY <1>1, <2>3 DEF Inv, TypeOK
      <3>2. pc[u] \in Holding => commitLock'[Home[u]] = u
        BY <1>1 DEF Inv, Safe
      <3>3. ~(pc[u] \in Pending /\ OneKernel)
        BY <1>2, <2>3, OneHolder DEF Pending, OneKernel
      <3> QED
        BY <1>4, <2>1, <3>1, <3>2, <3>3, SafeElsewhere
    <2> QED
      BY <2>2, <2>3
  <1> QED
    BY <1>5, <1>6 DEF Inv

\* A step of an open transaction: its board is what the next place says.
LEMMA TxStep ==
    ASSUME Inv, NEW t \in Threads, pc[t] \in Pending, owner \in {NoThread, t}, owner' = t,
           NEW label \in Writing, pc' = [pc EXCEPT ![t] = label], work' \in Seq(Record),
           label = "evidence" => job[t].op = "belief", job[t].op # "plan",
           Ready(recs, work', label, job[t]),
           UNCHANGED <<recs, commitLock, job, calls>>
    PROVE  Inv'
  <1>1. label \in Labels /\ label \in Holding /\ label \in Pending
        /\ pc[t] \in Holding /\ pc[t] # "idle"
        /\ label \notin {"refuse", "arbitrate", "gate", "claims"}
    BY DEF Pending, Holding, Labels, Writing, InTx
  <1>2. TypeOK'
    BY <1>1 DEF Inv, TypeOK
  <1>3. ASSUME NEW u \in Threads PROVE Safe(u)'
    <2>1. CASE u = t
      <3>1. pc'[u] = label /\ job'[u] = job[u] /\ commitLock'[Home[u]] = u
        BY <1>1, <2>1 DEF Inv, TypeOK, Safe
      <3>2. Fit(recs, label, job[t])
        BY <1>1, ThreadFacts DEF Fit
      <3> QED
        BY <2>1, <3>1, <3>2 DEF Safe
    <2>2. CASE u # t
      <3>1. pc'[u] = pc[u] /\ job'[u] = job[u]
        BY <2>2 DEF Inv, TypeOK
      <3>2. pc[u] \in Holding => commitLock'[Home[u]] = u
        BY DEF Inv, Safe
      <3>3. owner # u /\ owner' # u
        BY <2>2, KernelAssumption
      <3> QED
        BY <3>1, <3>2, <3>3, SafeUndisturbed
    <2> QED
      BY <2>1, <2>2
  <1> QED
    BY <1>2, <1>3 DEF Inv

LEMMA BeginTxInv ==
    ASSUME Inv, NEW t \in Threads, BeginTx(t)
    PROVE  Inv'
  <1> DEFINE label == IF job[t].op = "belief" THEN "evidence" ELSE "supersede"
  <1>1. /\ pc[t] = "begin" /\ owner = NoThread /\ owner' = t /\ work' = recs
        /\ pc' = [pc EXCEPT ![t] = label]
        /\ UNCHANGED <<recs, commitLock, job, calls>>
    BY DEF BeginTx, At, Goto, StoreFree
  <1>2. pc[t] \in Pending /\ label \in Writing /\ job[t].op # "plan"
    BY <1>1, ThreadFacts DEF Pending, Holding, Labels, Writing, InTx, Fit
  <1>3. Ready(recs, work', label, job[t]) /\ (label = "evidence" => job[t].op = "belief")
    BY <1>1 DEF Ready, Vouched
  <1>4. work' \in Seq(Record)
    BY <1>1 DEF Inv, TypeOK
  <1> HIDE DEF label
  <1> QED
    BY <1>1, <1>2, <1>3, <1>4, TxStep

\* Whoever is at a place of a transaction has the store.
LEMMA InTransaction ==
    ASSUME Inv, NEW t \in Threads, pc[t] \in Writing
    PROVE  pc[t] \in Pending /\ owner = t /\ job[t].op # "plan" /\ job[t].op \in AllOps
  <1>1. pc[t] \in Pending /\ pc[t] # "idle"
    BY DEF Pending, Holding, Labels, Writing, InTx
  <1> QED
    BY <1>1, ThreadFacts DEF Fit

LEMMA WriteEvidenceInv ==
    ASSUME Inv, NEW t \in Threads, WriteEvidence(t)
    PROVE  Inv'
  <1>1. /\ pc[t] = "evidence" /\ pc' = [pc EXCEPT ![t] = "supersede"]
        /\ UNCHANGED <<recs, owner, commitLock, job, calls>>
        /\ pc[t] \in Writing /\ "supersede" \in Writing
    BY DEF WriteEvidence, At, Goto, Writing, InTx
  <1>2. work = recs /\ job[t].op = "belief"
    BY <1>1 DEF Inv, Safe, Ready, Fit
  <1>3. work' = Vouched(recs, job[t])
    BY <1>2, Zenon DEF WriteEvidence, Vouched, Voucher
  <1>4. Ready(recs, work', "supersede", job[t])
    BY <1>3 DEF Ready
  <1>5. work' \in Seq(Record)
    BY <1>1, <1>3, InTransaction, AcceptedBoards
  <1> QED
    BY <1>1, <1>4, <1>5, InTransaction, TxStep

LEMMA SupersedeInv ==
    ASSUME Inv, NEW t \in Threads, Supersede(t)
    PROVE  Inv'
  <1>1. /\ pc[t] = "supersede" /\ pc' = [pc EXCEPT ![t] = "commit"]
        /\ UNCHANGED <<recs, owner, commitLock, job, calls>>
        /\ pc[t] \in Writing /\ "commit" \in Writing
    BY DEF Supersede, At, Goto, Writing, InTx
  <1>2. work = Vouched(recs, job[t])
    BY <1>1 DEF Inv, Safe, Ready
  <1>3. work' = Voided(recs, job[t])
    BY <1>2, Zenon DEF Supersede, Voided
  <1>4. Ready(recs, work', "commit", job[t])
    BY <1>3 DEF Ready
  <1>5. work' \in Seq(Record)
    BY <1>1, <1>3, InTransaction, AcceptedBoards
  <1> QED
    BY <1>1, <1>4, <1>5, InTransaction, TxStep

LEMMA WriteRecordInv ==
    ASSUME Inv, NEW t \in Threads, WriteRecord(t)
    PROVE  Inv'
  <1>1. /\ pc[t] = "commit" /\ pc' = [pc EXCEPT ![t] = "end"]
        /\ UNCHANGED <<recs, owner, commitLock, job, calls>>
        /\ pc[t] \in Writing /\ "end" \in Writing
    BY DEF WriteRecord, At, Goto, Writing, InTx
  <1>2. work = Voided(recs, job[t])
    BY <1>1 DEF Inv, Safe, Ready
  <1>3. work' = Landed(recs, job[t])
    BY <1>2, Zenon DEF WriteRecord, Landed
  <1>4. Ready(recs, work', "end", job[t])
    BY <1>3 DEF Ready
  <1>5. work' \in Seq(Record)
    BY <1>1, <1>3, InTransaction, AcceptedBoards
  <1> QED
    BY <1>1, <1>4, <1>5, InTransaction, TxStep

LEMMA EndTxInv ==
    ASSUME Inv, NEW t \in Threads, EndTx(t)
    PROVE  Inv'
  <1> DEFINE j == [job[t] EXCEPT !.code = "COMMITTED"]
  <1>1. /\ pc[t] = "end" /\ owner = t /\ recs' = work /\ work' = << >> /\ owner' = NoThread
        /\ job' = [job EXCEPT ![t] = j] /\ pc' = [pc EXCEPT ![t] = "return"]
        /\ UNCHANGED <<commitLock, calls>>
    BY DEF EndTx, At, Goto
  <1>2. /\ pc[t] \in Writing /\ pc[t] \in Pending /\ pc[t] \in Holding
        /\ "return" \in Labels /\ "return" \notin Pending /\ "return" \notin Writing
    BY <1>1 DEF Pending, Holding, Labels, Writing, InTx
  <1>3. recs' = Landed(recs, job[t])
    BY <1>1 DEF Inv, Safe, Ready
  <1>4. Grown(recs, recs') /\ job[t] \in Job /\ job[t].trace \in Traces
    BY <1>2, <1>3, AcceptedBoards
  <1>5. j \in Job /\ j.op = job[t].op /\ j.trace = job[t].trace
    BY <1>4 DEF Job
  <1> HIDE DEF j
  <1>6. TypeOK'
    <2>1. work' \in Seq(Record)
      BY <1>1
    <2>2. recs' \in Seq(Record) /\ \A i \in DOMAIN recs' : recs'[i].mode = "PROPOSE" => WellFormed(recs'[i])
      BY <1>4, GrownTyped DEF Inv
    <2> QED
      BY <1>1, <1>2, <1>5, <2>1, <2>2 DEF Inv, TypeOK
  <1>7. ASSUME NEW u \in Threads PROVE Safe(u)'
    <2>1. owner' # u
      BY <1>1, KernelAssumption
    <2>2. CASE u = t
      <3>1. pc'[u] = "return" /\ job'[u] = j /\ commitLock'[Home[u]] = u
        BY <1>1, <1>2, <2>2 DEF Inv, TypeOK, Safe
      <3>2. j.op \in AllOps /\ j.trace \in Traces
        BY <1>2, <1>4, <1>5, InTransaction
      <3> QED
        BY <1>2, <2>1, <3>1, <3>2 DEF Safe, Fit, Ready, Writing, InTx
    <2>3. CASE u # t
      <3>1. pc'[u] = pc[u] /\ job'[u] = job[u] /\ owner # u
        BY <1>1, <2>3 DEF Inv, TypeOK
      <3>2. pc[u] \in Holding => commitLock'[Home[u]] = u
        BY <1>1 DEF Inv, Safe
      <3>3. ~(pc[u] \in Pending /\ OneKernel)
        BY <1>2, <2>3, OneHolder DEF Pending, OneKernel
      <3> QED
        BY <1>4, <2>1, <3>1, <3>2, <3>3, SafeElsewhere
    <2> QED
      BY <2>2, <2>3
  <1> QED
    BY <1>6, <1>7 DEF Inv

\* A call that is over: no locals, no lock, no transaction.
LEMMA SafeWhenIdle ==
    ASSUME NEW u \in Threads, pc'[u] = "idle", owner' # u
    PROVE  Safe(u)'
  <1>1. "idle" \notin Holding /\ "idle" \notin Pending /\ "idle" \notin Writing
    BY DEF Holding, Pending, Writing, InTx
  <1> QED
    BY <1>1 DEF Safe, Fit, Ready, Writing, InTx

LEMMA NoJobTyped == NoJob \in Job
BY DEF NoJob, Job, NoId

\* The call of t ends, answered or not; it was inside the pipeline.
LEMMA LeaveInv ==
    ASSUME Inv, NEW t \in Threads, pc[t] \in Holding,
           pc' = [pc EXCEPT ![t] = "idle"], job' = [job EXCEPT ![t] = NoJob],
           commitLock' = [commitLock EXCEPT ![Home[t]] = NoThread],
           owner' # t, owner' \in Threads => owner' = owner, owner' \in Threads \cup {NoThread},
           owner # t => owner' = owner,
           work' = work \/ (work' = << >> /\ owner' = NoThread /\ owner \in {NoThread, t}),
           UNCHANGED <<recs, calls>>
    PROVE  Inv'
  <1>1. TypeOK'
    <2>1. work' \in Seq(Record)
      <3>1. << >> \in Seq(Record)
        OBVIOUS
      <3>2. work \in Seq(Record)
        BY DEF Inv, TypeOK
      <3>3. work' = work \/ work' = << >>
        OBVIOUS
      <3> QED
        BY <3>1, <3>2, <3>3, Zenon
    <2>2. Home[t] \in Kernels /\ "idle" \in Labels
      BY KernelAssumption DEF Labels
    <2> QED
      BY <2>1, <2>2, NoJobTyped DEF Inv, TypeOK
  <1>2. ASSUME NEW u \in Threads PROVE Safe(u)'
    <2>1. CASE u = t
      <3>1. pc'[u] = "idle"
        BY <2>1 DEF Inv, TypeOK
      <3> QED
        BY <2>1, <3>1, SafeWhenIdle
    <2>2. CASE u # t
      <3>1. pc'[u] = pc[u] /\ job'[u] = job[u]
        BY <2>2 DEF Inv, TypeOK
      <3>2. pc[u] \in Holding => commitLock'[Home[u]] = u
        <4> SUFFICES ASSUME pc[u] \in Holding PROVE commitLock'[Home[u]] = u
          OBVIOUS
        <4>1. Home[u] # Home[t]
          BY <2>2, OneHolder
        <4>2. Home[u] \in Kernels /\ commitLock[Home[u]] = u
          BY KernelAssumption DEF Inv, Safe
        <4> QED
          BY <4>1, <4>2 DEF Inv, TypeOK
      <3>3. CASE owner # u
        <4>1. owner' # u
          BY <3>3
        <4> QED
          BY <3>1, <3>2, <3>3, <4>1, SafeUndisturbed
      <3>4. CASE owner = u
        <4>1. owner' = owner /\ work' = work
          BY <2>2, <3>4, KernelAssumption
        <4> QED
          BY <3>1, <3>2, <4>1 DEF Inv, Safe
      <3> QED
        BY <3>3, <3>4
    <2> QED
      BY <2>1, <2>2
  <1> QED
    BY <1>1, <1>2 DEF Inv

LEMMA ReturnInv ==
    ASSUME Inv, NEW t \in Threads, Return(t)
    PROVE  Inv'
  <1>1. /\ pc[t] \in Holding /\ pc[t] \notin Writing
        /\ pc' = [pc EXCEPT ![t] = "idle"] /\ job' = [job EXCEPT ![t] = NoJob]
        /\ commitLock' = [commitLock EXCEPT ![Home[t]] = NoThread]
        /\ UNCHANGED <<recs, work, owner, calls>>
    BY DEF Return, At, Goto, Holding, Labels, Writing, InTx
  <1>2. owner # t /\ owner \in Threads \cup {NoThread}
    BY <1>1 DEF Inv, Safe, TypeOK
  <1> QED
    BY <1>1, <1>2, LeaveInv

LEMMA RaiseInv ==
    ASSUME Inv, NEW t \in Threads, Raise(t)
    PROVE  Inv'
  <1>1. /\ pc[t] \in Holding
        /\ pc' = [pc EXCEPT ![t] = "idle"] /\ job' = [job EXCEPT ![t] = NoJob]
        /\ commitLock' = [commitLock EXCEPT ![Home[t]] = NoThread]
        /\ work' = << >> /\ owner' = NoThread /\ owner \in {NoThread, t}
        /\ UNCHANGED <<recs, calls>>
    BY DEF Raise, CanUseStore, Goto, AtStore, Holding, Labels, InTx
  <1>2. NoThread \notin Threads
    BY KernelAssumption
  <1> QED
    BY <1>1, <1>2, LeaveInv

LEMMA CrashInv ==
    ASSUME Inv, NEW k \in Kernels, Crash(k)
    PROVE  Inv'
  <1> DEFINE dead == {t \in Threads : Home[t] = k}
  <1>1. /\ work' = IF owner \in dead THEN << >> ELSE work
        /\ owner' = IF owner \in dead THEN NoThread ELSE owner
        /\ commitLock' = [commitLock EXCEPT ![k] = NoThread]
        /\ pc' = [t \in Threads |-> IF t \in dead THEN "idle" ELSE pc[t]]
        /\ job' = [t \in Threads |-> IF t \in dead THEN NoJob ELSE job[t]]
        /\ UNCHANGED <<recs, calls>>
    BY DEF Crash
  <1>2. TypeOK'
    <2>1. work' \in Seq(Record) /\ owner' \in Threads \cup {NoThread}
      BY <1>1 DEF Inv, TypeOK
    <2>2. pc' \in [Threads -> Labels]
      BY <1>1 DEF Inv, TypeOK, Labels
    <2>3. job' \in [Threads -> Job]
      BY <1>1, NoJobTyped DEF Inv, TypeOK
    <2>4. commitLock' \in [Kernels -> Threads \cup {NoThread}]
      BY <1>1 DEF Inv, TypeOK
    <2> QED
      BY <1>1, <2>1, <2>2, <2>3, <2>4 DEF Inv, TypeOK
  <1>3. ASSUME NEW u \in Threads PROVE Safe(u)'
    <2>1. CASE u \in dead
      <3>1. pc'[u] = "idle" /\ owner' # u
        BY <1>1, <2>1, KernelAssumption
      <3> QED
        BY <3>1, SafeWhenIdle
    <2>2. CASE u \notin dead
      <3>1. pc'[u] = pc[u] /\ job'[u] = job[u] /\ Home[u] # k
        BY <1>1, <2>2
      <3>2. pc[u] \in Holding => commitLock'[Home[u]] = u
        BY <1>1, <3>1, KernelAssumption DEF Inv, Safe, TypeOK
      <3>3. CASE owner # u
        <4>1. owner' # u
          BY <1>1, <3>3, KernelAssumption
        <4> QED
          BY <1>1, <3>1, <3>2, <3>3, <4>1, SafeUndisturbed
      <3>4. CASE owner = u
        <4>1. owner' = owner /\ work' = work /\ recs' = recs
          BY <1>1, <2>2, <3>4
        <4> QED
          BY <3>1, <3>2, <4>1 DEF Inv, Safe
      <3> QED
        BY <3>3, <3>4
    <2> QED
      BY <2>1, <2>2
  <1> QED
    BY <1>2, <1>3 DEF Inv

-----------------------------------------------------------------------------
\* The invariant holds throughout.

LEMMA InitInv == Init => Inv
  <1> SUFFICES ASSUME Init PROVE Inv
    OBVIOUS
  <1>1. TypeOK
    BY NoJobTyped, KernelAssumption DEF Init, TypeOK, Labels
  <1>2. ASSUME NEW t \in Threads PROVE Safe(t)
    <2>1. pc[t] = "idle" /\ owner # t
      BY KernelAssumption DEF Init
    <2>2. "idle" \notin Holding /\ "idle" \notin Pending /\ "idle" \notin Writing
      BY DEF Holding, Pending, Writing, InTx
    <2> QED
      BY <2>1, <2>2 DEF Safe, Fit, Ready, Writing, InTx
  <1> QED
    BY <1>1, <1>2 DEF Inv

LEMMA StepInv ==
    ASSUME Inv, NEW t \in Threads, Step(t)
    PROVE  Inv'
BY AcquireInv, FetchInv, ListSlotInv, JudgeBeliefInv, ArbitrateInv, GateInv, ClaimsInv,
   JudgePlanInv, JudgeActionInv, CheckNeedsInv, RefuseInv, BeginTxInv, WriteEvidenceInv,
   SupersedeInv, WriteRecordInv, EndTxInv, ReturnInv
   DEF Step

LEMMA StutterInv ==
    ASSUME Inv, UNCHANGED vars
    PROVE  Inv'
  <1>1. TypeOK'
    BY DEF Inv, TypeOK, vars
  <1>2. ASSUME NEW t \in Threads PROVE Safe(t)'
    BY DEF Inv, Safe, vars
  <1> QED
    BY <1>1, <1>2 DEF Inv

LEMMA NextInv == Inv /\ [Next]_vars => Inv'
  <1> SUFFICES ASSUME Inv, [Next]_vars PROVE Inv'
    OBVIOUS
  <1>1. ASSUME NEW t \in Threads, NEW op \in Ops, NEW p \in 0..Len(recs), NEW trace \in Traces,
               NEW need \in (IF op = "action" THEN BOOLEAN ELSE {FALSE}), Call(t, op, p, trace, need)
        PROVE  Inv'
    <2>1. need \in BOOLEAN
      BY <1>1
    <2> QED
      BY <1>1, <2>1, CallInv
  <1>2. CASE UNCHANGED vars
    BY <1>2, StutterInv
  <1> QED
    BY <1>1, <1>2, WriteInv, ExpireInv, StepInv, RaiseInv, CrashInv DEF Next

\* The inductive invariant, and with it the types, hold of every reachable state:
\* every record on the board or in an open transaction is a record, whoever wrote
\* it and whatever failed in between.
THEOREM KernelInv == Spec => []Inv
BY InitInv, NextInv, PTL DEF Spec

\* The variables have their types, and what is proposed has the lists its pipeline walks.
THEOREM KernelTypeOK == Spec => []TypeOK
  <1>1. Inv => TypeOK
    BY DEF Inv
  <1> QED
    BY <1>1, KernelInv, PTL

-----------------------------------------------------------------------------
\* The board of a kernel that has its store for itself is an audit trail, whatever its
\* threads, its clients, the clock and the failures do: every step of Kernel is a step of
\* AuditTrail or leaves the board alone.  With this what is proved of the trail holds of
\* the kernel.  Of kernels that share a store it is proved that what they commit is whole.

TP == INSTANCE AuditTrailProofs WITH trail <- recs

\* The operators of Blackboard, seen through the instance, are those of Kernel.
LEMMA SameUpdates ==
    /\ \A d : Trail!Permits(d) <=> Permits(d)
    /\ \A d : Trail!ConfidenceOK(d) <=> ConfidenceOK(d)
    /\ \A rs, i : Trail!Active(rs, i) <=> Active(rs, i)
    /\ \A rs, i : Trail!ExpireRecord(rs, i) = ExpireRecord(rs, i)
    /\ \A rs, i, why : Trail!Invalidate(rs, i, why) = Invalidate(rs, i, why)
    /\ \A rs, p, trace, evid, since :
          Trail!CommittedFrom(rs, p, trace, evid, since) = CommittedFrom(rs, p, trace, evid, since)
    /\ \A rs, p, trace, voucher, since :
          Trail!EvidenceFor(rs, p, trace, voucher, since) = EvidenceFor(rs, p, trace, voucher, since)
    /\ Trail!Refusals = Refusals /\ Trail!Vouchers = Vouchers /\ Trail!NoId = NoId
  <1>1. \A d : Trail!Permits(d) <=> Permits(d)
    BY DEF Trail!Permits, Permits, Trail!Permissions, Permissions
  <1>2. \A d : Trail!ConfidenceOK(d) <=> ConfidenceOK(d)
    BY DEF Trail!ConfidenceOK, ConfidenceOK, Trail!NoConf, NoConf
  <1>3. /\ \A rs, i : Trail!Active(rs, i) <=> Active(rs, i)
        /\ \A rs, i : Trail!ExpireRecord(rs, i) = ExpireRecord(rs, i)
        /\ \A rs, i, why : Trail!Invalidate(rs, i, why) = Invalidate(rs, i, why)
    BY Zenon DEF Trail!Active, Active, Trail!ExpireRecord, ExpireRecord, Trail!Invalidate, Invalidate
  <1>4. \A rs, p, trace, evid, since :
          Trail!CommittedFrom(rs, p, trace, evid, since) = CommittedFrom(rs, p, trace, evid, since)
    BY Zenon DEF Trail!CommittedFrom, CommittedFrom
  <1>5. \A rs, p, trace, voucher, since :
          Trail!EvidenceFor(rs, p, trace, voucher, since) = EvidenceFor(rs, p, trace, voucher, since)
    BY Zenon DEF Trail!EvidenceFor, EvidenceFor, Trail!ValidationOf, ValidationOf,
                 Trail!NoConf, NoConf, Trail!NoId, NoId
  <1>6. Trail!Refusals = Refusals /\ Trail!Vouchers = Vouchers /\ Trail!NoId = NoId
    BY DEF Trail!Refusals, Refusals, Trail!Vouchers, Vouchers, Trail!NoId, NoId
  <1> QED
    BY <1>1, <1>2, <1>3, <1>4, <1>5, <1>6

LEMMA WriteIsPublish ==
    ASSUME NEW d \in Drafts, Write(d)
    PROVE  Trail!Next
  <1>1. Trail!Publish(d)
    BY SameUpdates DEF Write, Trail!Publish
  <1> QED
    BY <1>1 DEF Trail!Next

LEMMA ExpireIsLapse ==
    ASSUME NEW i \in DOMAIN recs, Expire(i)
    PROVE  Trail!Next
  <1>1. Trail!Lapse(i)
    BY SameUpdates DEF Expire, Trail!Lapse
  <1> QED
    BY <1>1 DEF Trail!Next

\* With one kernel, an accepted proposal that is not yet settled is open.
LEMMA AcceptedIsOpen ==
    ASSUME Inv, OneKernel, NEW t \in Threads, pc[t] \in Pending
    PROVE  Trail!Open(job[t].prop) /\ job[t].prop \in DOMAIN recs
BY ThreadFacts DEF Fit, Trail!Open

LEMMA RefuseIsRefuse ==
    ASSUME Inv, OneKernel, NEW t \in Threads, Refuse(t)
    PROVE  Trail!Next
  <1>1. pc[t] = "refuse" /\ recs' = Invalidate(recs, job[t].prop, job[t].code)
    BY DEF Refuse, At
  <1>2. pc[t] \in Pending
    BY <1>1 DEF Pending, Holding, Labels
  <1>3. job[t].code \in Refusals
    BY <1>1, ThreadFacts DEF Fit
  <1>4. Trail!Refuse(job[t].prop)
    BY <1>1, <1>2, <1>3, AcceptedIsOpen, SameUpdates DEF Trail!Refuse
  <1> QED
    BY <1>2, <1>4, AcceptedIsOpen DEF Trail!Next

\* What a transaction has written when it commits is what AuditTrail commits.
LEMMA LandedIsCommit ==
    ASSUME NEW rs \in Seq(Record), NEW j \in Job, j.prop \in DOMAIN rs,
           WellFormed(rs[j.prop]), j.trace \in Traces
    PROVE  LET p    == j.prop
               gone == Invalidate(rs, p, "SUPERSEDED_BY_COMMIT")
           IN  Landed(rs, j) =
                 IF j.op = "belief"
                 THEN Append(Append(gone, EvidenceFor(rs, p, j.trace, Voucher(j), j.since)),
                             CommittedFrom(rs, p, j.trace, Len(rs) + 1, j.since))
                 ELSE Append(gone, CommittedFrom(rs, p, j.trace, NoId, j.since))
  <1> DEFINE p == j.prop
             gone == Invalidate(rs, p, "SUPERSEDED_BY_COMMIT")
             e == EvidenceFor(rs, p, j.trace, Voucher(j), j.since)
  <1>1. Voucher(j) \in Vouchers /\ j.since \in Nat /\ rs[p].kind \in Kinds
    BY DEF Job, Voucher, Vouchers, WellFormed
  <1>2. CASE j.op = "belief"
    <2>1. Voided(rs, j) = Invalidate(Append(rs, e), p, "SUPERSEDED_BY_COMMIT")
      BY <1>2, Zenon DEF Voided, Vouched
    <2>2. /\ Voided(rs, j) = Append(gone, e)
          /\ Len(Voided(rs, j)) = Len(rs) + 1
          /\ Kept(rs[p], Voided(rs, j)[p])
      BY <1>1, <2>1, EvidenceThenInvalidate
    <2>3. CommittedFrom(Voided(rs, j), p, j.trace, Len(rs) + 1, j.since)
            = CommittedFrom(rs, p, j.trace, Len(rs) + 1, j.since)
      <3> DEFINE board == Voided(rs, j)
                 evid == Len(rs) + 1
      <3>1. Kept(rs[p], board[p])
        BY <2>2
      <3> HIDE DEF board, evid, p
      <3>2. CommittedFrom(board, p, j.trace, evid, j.since) = CommittedFrom(rs, p, j.trace, evid, j.since)
        BY <3>1, Zenon DEF Kept, CommittedFrom
      <3> QED
        BY <3>2 DEF board, evid
    <2>4. Landed(rs, j) = Append(Voided(rs, j),
              CommittedFrom(Voided(rs, j), p, j.trace, Len(Voided(rs, j)), j.since))
      BY <1>2, Zenon DEF Landed
    <2>5. Landed(rs, j) = Append(Append(gone, e), CommittedFrom(rs, p, j.trace, Len(rs) + 1, j.since))
      BY <2>2, <2>3, <2>4, Zenon
    <2> QED
      BY <1>2, <2>5, Zenon
  <1>3. CASE j.op # "belief"
    <2>1. Voided(rs, j) = gone
      BY <1>3, Zenon DEF Voided, Vouched
    <2>2. Kept(rs[p], gone[p])
      <3>1. "SUPERSEDED_BY_COMMIT" \in Reasons
        BY DEF Reasons
      <3> QED
        BY <3>1, InvalidateFacts
    <2>3. CommittedFrom(gone, p, j.trace, NoId, j.since) = CommittedFrom(rs, p, j.trace, NoId, j.since)
      BY <2>2, CommittedFromKept
    <2>4. Landed(rs, j) = Append(Voided(rs, j),
              CommittedFrom(Voided(rs, j), p, j.trace, NoId, j.since))
      BY <1>3, Zenon DEF Landed
    <2>5. Landed(rs, j) = Append(gone, CommittedFrom(rs, p, j.trace, NoId, j.since))
      BY <2>1, <2>3, <2>4, Zenon
    <2> QED
      BY <1>3, <2>5, Zenon
  <1> QED
    BY <1>2, <1>3

LEMMA EndTxIsCommit ==
    ASSUME Inv, OneKernel, NEW t \in Threads, EndTx(t)
    PROVE  Trail!Next
  <1> DEFINE j == job[t]
             p == j.prop
  <1>1. pc[t] \in Writing /\ recs' = Landed(recs, j)
    BY DEF EndTx, At, Inv, Safe, Ready, Writing, InTx
  <1>2. pc[t] \in Pending /\ j.op \in {"belief", "prediction", "action"}
    BY <1>1, InTransaction DEF AllOps
  <1>3. j \in Job /\ WellFormed(recs[p]) /\ j.trace \in Traces /\ recs \in Seq(Record)
    BY <1>2, AcceptedBoards DEF Inv, TypeOK
  <1>4. Trail!Open(p) /\ p \in DOMAIN recs
    BY <1>2, AcceptedIsOpen
  <1>5. recs[p].slot = SlotOf[j.op] /\ j.since \in 0..Len(recs)
    BY <1>2, ThreadFacts DEF Fit
  <1>6. Voucher(j) \in Vouchers
    BY <1>3 DEF Job, Voucher, Vouchers
  <1>7. CASE j.op = "belief"
    <2>1. recs[p].slot = "beliefs"
      BY <1>5, <1>7 DEF SlotOf
    <2>2. recs' = Append(Append(Invalidate(recs, p, "SUPERSEDED_BY_COMMIT"),
                                EvidenceFor(recs, p, j.trace, Voucher(j), j.since)),
                         CommittedFrom(recs, p, j.trace, Len(recs) + 1, j.since))
      BY <1>1, <1>3, <1>4, <1>7, LandedIsCommit
    <2>3. Trail!CommitBelief(p, j.trace, Voucher(j), j.since)
      BY <1>4, <2>1, <2>2, SameUpdates, Zenon DEF Trail!CommitBelief
    <2> HIDE DEF j, p
    <2> QED
      BY <1>3, <1>4, <1>5, <1>6, <2>3, SameUpdates, Zenon DEF Trail!Next, Trail!Land
  <1>8. CASE j.op # "belief"
    <2>1. recs[p].slot \in {"predictions", "actions"}
      BY <1>2, <1>5, <1>8 DEF SlotOf
    <2>2. recs' = Append(Invalidate(recs, p, "SUPERSEDED_BY_COMMIT"),
                         CommittedFrom(recs, p, j.trace, NoId, j.since))
      BY <1>1, <1>3, <1>4, <1>8, LandedIsCommit
    <2>3. recs[p].slot \in Trail!Committable \ {"beliefs"}
      BY <2>1 DEF Trail!Committable
    <2>4. Trail!CommitOther(p, j.trace, j.since)
      BY <1>4, <2>2, <2>3, SameUpdates, Zenon DEF Trail!CommitOther
    <2> HIDE DEF j, p
    <2> QED
      BY <1>3, <1>4, <1>5, <2>4, SameUpdates, Zenon DEF Trail!Next, Trail!Land
  <1> QED
    BY <1>7, <1>8

\* A step of the kernel is a step of the trail or leaves the board alone.
LEMMA StepIsTrailStep ==
    ASSUME Inv, OneKernel, [Next]_vars
    PROVE  [Trail!Next]_recs
  <1>1. ASSUME NEW t \in Threads, Step(t) PROVE [Trail!Next]_recs
    BY <1>1, RefuseIsRefuse, EndTxIsCommit
    DEF Step, Acquire, Fetch, ListSlot, JudgeBelief, Arbitrate, Gate, Claims, JudgePlan,
        JudgeAction, CheckNeeds, BeginTx, WriteEvidence, Supersede, WriteRecord, Return
  <1>2. ASSUME NEW t \in Threads, Raise(t) PROVE recs' = recs
    BY <1>2 DEF Raise
  <1>3. ASSUME NEW k \in Kernels, Crash(k) PROVE recs' = recs
    BY <1>3 DEF Crash
  <1>4. \A t, op, p, trace, need : Call(t, op, p, trace, need) => recs' = recs
    BY DEF Call
  <1>5. CASE UNCHANGED vars
    BY <1>5 DEF vars
  <1> QED
    BY <1>1, <1>2, <1>3, <1>4, <1>5, WriteIsPublish, ExpireIsLapse DEF Next

-----------------------------------------------------------------------------
\* The kernel implements the audit trail: seen through its board, four pipelines
\* with their locks, transactions and failures only ever publish, expire, refuse and
\* commit whole.
THEOREM KernelIsAuditTrail ==
    ASSUME OneKernel
    PROVE  Spec => IsAuditTrail
  <1>1. Init => Trail!Init
    BY DEF Init, Trail!Init
  <1>2. Inv /\ [Next]_vars => [Trail!Next]_recs
    BY StepIsTrailStep
  <1> QED
    BY <1>1, <1>2, KernelInv, PTL DEF Spec, IsAuditTrail, Trail!Spec

-----------------------------------------------------------------------------
\* What is proved of the trail, brought over.

LEMMA SameDrafts == \A r : TP!FreshRecord(r) <=> FreshRecord(r)
  <1>1. \A confidences : TP!RecordWith(confidences) = RecordWith(confidences)
    BY DEF RecordWith, TP!RecordWith, Roles, TP!Roles, Slots, TP!Slots, Modes, TP!Modes,
           ValidationOf, TP!ValidationOf, Vouchers, TP!Vouchers, Reasons, TP!Reasons,
           Refusals, TP!Refusals
  <1>2. \A r : TP!WellFormed(r) <=> WellFormed(r)
    BY DEF WellFormed, TP!WellFormed
  <1> QED
    BY <1>1, <1>2 DEF FreshRecord, TP!FreshRecord, NoId, TP!NoId

\* The assumptions of AuditTrail on its constants are those of Kernel.
LEMMA SameConstants == MaxConf \in Nat /\ MaxRecs \in Nat /\ \A d \in Drafts : TP!FreshRecord(d)
BY SameDrafts, ScaleAssumption, DraftsAssumption

\* Both instances of the trail take the same steps.
LEMMA SameTrail == Trail!Spec <=> TP!Spec
  <1>1. \A d : Trail!Publish(d) <=> TP!Publish(d)
    BY DEF Trail!Publish, TP!Publish, Trail!Permits, TP!Permits, Trail!Permissions,
           TP!Permissions, Trail!ConfidenceOK, TP!ConfidenceOK, Trail!NoConf,
           TP!NoConf
  <1>2. \A i : Trail!Lapse(i) <=> TP!Lapse(i)
    BY DEF Trail!Lapse, TP!Lapse, Trail!Active, TP!Active, Trail!ExpireRecord,
           TP!ExpireRecord
  <1>3. \A p : Trail!Refuse(p) <=> TP!Refuse(p)
    BY DEF Trail!Refuse, TP!Refuse, Trail!Open, TP!Open, Trail!Invalidate,
           TP!Invalidate, Trail!Refusals, TP!Refusals
  <1>4. \A p, trace, voucher, since :
          Trail!CommitBelief(p, trace, voucher, since) <=> TP!CommitBelief(p, trace, voucher, since)
    BY DEF Trail!CommitBelief, TP!CommitBelief, Trail!Open, TP!Open,
           Trail!Invalidate, TP!Invalidate, Trail!EvidenceFor, TP!EvidenceFor,
           Trail!ValidationOf, TP!ValidationOf, Trail!NoConf, TP!NoConf, Trail!NoId,
           TP!NoId, Trail!CommittedFrom, TP!CommittedFrom
  <1>5. \A p, trace, since : Trail!CommitOther(p, trace, since) <=> TP!CommitOther(p, trace, since)
    BY DEF Trail!CommitOther, TP!CommitOther, Trail!Open, TP!Open,
           Trail!Committable, TP!Committable, Trail!Invalidate, TP!Invalidate,
           Trail!NoId, TP!NoId, Trail!CommittedFrom, TP!CommittedFrom
  <1>6. Trail!Vouchers = TP!Vouchers
    BY DEF Trail!Vouchers, TP!Vouchers
  <1>7. Trail!Next <=> TP!Next
    BY <1>1, <1>2, <1>3, <1>4, <1>5, <1>6, Zenon DEF Trail!Next, TP!Next, Trail!Land, TP!Land
  <1>8. Trail!Init <=> TP!Init
    BY DEF Trail!Init, TP!Init
  <1> QED
    BY <1>7, <1>8, PTL DEF Trail!Spec, TP!Spec

\* A proposal is committed at most once, however many threads ask for it, whatever
\* expires while it is judged and wherever a call fails.
THEOREM KernelAtMostOneCommit ==
    ASSUME OneKernel
    PROVE  Spec => []AtMostOneCommit
  <1>1. TP!Spec => []TP!AtMostOneCommit
    BY SameConstants, TP!TrailAtMostOneCommit
  <1>2. TP!AtMostOneCommit => AtMostOneCommit
    BY DEF TP!AtMostOneCommit, AtMostOneCommit, Trail!AtMostOneCommit, TP!CommitsOf, Trail!CommitsOf
  <1> QED
    BY <1>1, <1>2, KernelIsAuditTrail, SameTrail, PTL DEF IsAuditTrail

\* A proposal is marked superseded exactly when the record that supersedes it is on
\* the board: no failure, crash or second call separates the two.
THEOREM KernelVerdictsAgree ==
    ASSUME OneKernel
    PROVE  Spec => []VerdictsAgree
  <1>1. TP!Spec => []TP!VerdictsAgree
    BY SameConstants, TP!TrailVerdictsAgree
  <1>2. TP!VerdictsAgree => VerdictsAgree
    BY DEF TP!VerdictsAgree, VerdictsAgree, Trail!VerdictsAgree, TP!CommitsOf, Trail!CommitsOf
  <1> QED
    BY <1>1, <1>2, KernelIsAuditTrail, SameTrail, PTL DEF IsAuditTrail

\* The board is append-only and what is settled stays settled.
THEOREM KernelSettled ==
    ASSUME OneKernel
    PROVE  Spec => Settled
  <1>1. TP!Spec => TP!Settled
    BY SameConstants, TP!TrailSettled
  <1>2. TP!SettledStep => Trail!SettledStep
    BY DEF TP!SettledStep, Trail!SettledStep
  <1> QED
    BY <1>1, <1>2, KernelIsAuditTrail, SameTrail, PTL DEF IsAuditTrail, Settled, TP!Settled, Trail!Settled
-----------------------------------------------------------------------------
\* What holds of every commit however many kernels share the store: then a proposal
\* may be committed twice, and each time whole.

\* Record i of board rs, if it is of a commit, has the rest of it on the board: the
\* evidence a belief cites, the belief the evidence vouches for, the proposal.
WholeAt(rs, i) ==
    /\ rs[i].role = "kernel" /\ rs[i].slot = "beliefs" =>
         LET e == rs[i].evid
         IN  /\ e \in DOMAIN rs
             /\ rs[e].slot = "evidence" /\ rs[e].kind = ValidationOf(rs[i].kind)
             /\ rs[e].src = rs[i].src /\ rs[e].trace = rs[i].trace
    /\ rs[i].slot = "evidence" /\ rs[i].src # NoId =>
         \E b \in DOMAIN rs : /\ rs[b].role = "kernel" /\ rs[b].src = rs[i].src
                              /\ rs[b].slot = "beliefs" /\ rs[b].evid = i
    /\ rs[i].mode = "COMMIT" /\ rs[i].slot \in {"beliefs", "actions"} =>
         LET p == rs[i].src
         IN  /\ p \in DOMAIN rs
             /\ rs[p].mode = "PROPOSE"
             /\ rs[i].slot = rs[p].slot /\ rs[i].kind = rs[p].kind
             /\ rs[i].body = rs[p].body /\ rs[i].conf = rs[p].conf

Whole == \A i \in DOMAIN recs : WholeAt(recs, i)

\* A commit that is whole stays so.
LEMMA WholeLater ==
    ASSUME NEW rs, NEW new, Grown(rs, new), NEW i \in DOMAIN rs, WholeAt(rs, i)
    PROVE  WholeAt(new, i)
  <1>1. \A k \in DOMAIN rs : k \in DOMAIN new /\ Kept(rs[k], new[k])
    BY DEF Grown
  <1>2. Kept(rs[i], new[i])
    BY <1>1
  <1>3. ASSUME new[i].role = "kernel", new[i].slot = "beliefs"
        PROVE  LET e == new[i].evid
               IN  /\ e \in DOMAIN new
                   /\ new[e].slot = "evidence" /\ new[e].kind = ValidationOf(new[i].kind)
                   /\ new[e].src = new[i].src /\ new[e].trace = new[i].trace
    BY <1>1, <1>2, <1>3 DEF WholeAt, Kept
  <1>4. ASSUME new[i].slot = "evidence", new[i].src # NoId
        PROVE  \E b \in DOMAIN new : /\ new[b].role = "kernel" /\ new[b].src = new[i].src
                                     /\ new[b].slot = "beliefs" /\ new[b].evid = i
    BY <1>1, <1>2, <1>4 DEF WholeAt, Kept
  <1>5. ASSUME new[i].mode = "COMMIT", new[i].slot \in {"beliefs", "actions"}
        PROVE  LET p == new[i].src
               IN  /\ p \in DOMAIN new
                   /\ new[p].mode = "PROPOSE"
                   /\ new[i].slot = new[p].slot /\ new[i].kind = new[p].kind
                   /\ new[i].body = new[p].body /\ new[i].conf = new[p].conf
    BY <1>1, <1>2, <1>5 DEF WholeAt, Kept
  <1> QED
    BY <1>3, <1>4, <1>5, Zenon DEF WholeAt

\* What a client writes is no commit of a belief or an action, and no evidence of one.
LEMMA DraftIsWhole ==
    ASSUME NEW d \in Drafts, Permits(d), NEW rs, NEW i, rs[i] = d
    PROVE  WholeAt(rs, i)
  <1>1. d.role # "kernel" /\ d.src = NoId
    BY DraftsAssumption DEF FreshRecord
  <1>2. ~(d.mode = "COMMIT" /\ d.slot \in {"beliefs", "actions"})
    BY <1>1 DEF Permits, Permissions
  <1> QED
    BY <1>1, <1>2 DEF WholeAt

\* What a transaction adds is a commit as a whole.
LEMMA LandedIsWhole ==
    ASSUME NEW rs \in Seq(Record), NEW j \in Job, j.prop \in DOMAIN rs,
           WellFormed(rs[j.prop]), j.trace \in Traces, rs[j.prop].mode = "PROPOSE",
           j.op = "belief" <=> rs[j.prop].slot = "beliefs", rs[j.prop].slot # "evidence",
           NEW i \in DOMAIN Landed(rs, j), i \notin DOMAIN rs
    PROVE  WholeAt(Landed(rs, j), i)
  <1> DEFINE p    == j.prop
             gone == Invalidate(rs, p, "SUPERSEDED_BY_COMMIT")
             new  == Landed(rs, j)
             e    == EvidenceFor(rs, p, j.trace, Voucher(j), j.since)
             cited == IF j.op = "belief" THEN Len(rs) + 1 ELSE NoId
             c    == CommittedFrom(rs, p, j.trace, cited, j.since)
  <1>1. Voucher(j) \in Vouchers /\ j.since \in Nat /\ rs[p].kind \in Kinds
    BY DEF Job, Voucher, Vouchers, WellFormed
  <1>2. PICK n \in Nat : n = Len(rs) /\ DOMAIN rs = 1..n
    BY LenProperties
  <1>3. gone \in Seq(Record) /\ Len(gone) = n
    BY <1>2, InvalidateFacts DEF Reasons
  <1>4. new \in Seq(Record) /\ Grown(rs, new)
    BY BoardsGrow
  <1>5. p \in DOMAIN new /\ Kept(rs[p], new[p]) /\ new[p].mode = "PROPOSE"
    BY <1>4 DEF Grown, Kept
  <1>6. /\ c.role = "kernel" /\ c.slot = rs[p].slot /\ c.mode = "COMMIT" /\ c.kind = rs[p].kind
        /\ c.trace = j.trace /\ c.conf = rs[p].conf /\ c.body = rs[p].body
        /\ c.evid = cited /\ c.src = p
    BY DEF CommittedFrom
  <1>7. e \in Record /\ c \in Record
    <2>1. cited \in Nat
      BY <1>2 DEF NoId
    <2> HIDE DEF cited
    <2> QED
      BY <1>1, <2>1, WrittenAreRecords
  <1>8. CASE j.op = "belief"
    <2>1. new = Append(Append(gone, e), c)
      BY <1>8, LandedIsCommit
    <2>2. /\ e.role # "kernel" /\ e.slot = "evidence" /\ e.kind = ValidationOf(rs[p].kind)
          /\ e.src = p /\ e.trace = j.trace
      BY DEF EvidenceFor
    <2>3. cited = n + 1 /\ rs[p].slot = "beliefs"
      BY <1>2, <1>8
    <2> HIDE DEF gone, e, c, new, cited, p
    <2>4. Append(gone, e) \in Seq(Record) /\ Len(Append(gone, e)) = n + 1 /\ Append(gone, e)[n + 1] = e
      BY <1>3, <1>7, AppendProperties
    <2>5. DOMAIN new = 1..(n + 2) /\ new[n + 1] = e /\ new[n + 2] = c
      BY <1>2, <1>4, <1>7, <2>1, <2>4, AppendProperties, LenProperties
    <2>6. i = n + 1 \/ i = n + 2
      BY <1>2, <2>5 DEF new
    <2>7. n + 1 \in DOMAIN new /\ n + 2 \in DOMAIN new
      BY <1>2, <2>5
    <2>8. CASE i = n + 1
      <3>1. ~(new[i].role = "kernel") /\ ~(new[i].slot \in {"beliefs", "actions"})
        BY <2>2, <2>5, <2>8
      <3>2. new[n + 2].src = new[i].src /\ new[n + 2].evid = i
        BY <1>6, <2>2, <2>3, <2>5, <2>8
      <3> QED
        BY <1>6, <2>3, <2>5, <2>7, <3>1, <3>2, Zenon DEF WholeAt, new
    <2>9. CASE i = n + 2
      <3>1. new[i] = c /\ c.slot = "beliefs" /\ c.evid = n + 1
        BY <1>6, <2>3, <2>5, <2>9
      <3>2. new[c.src].slot = c.slot /\ new[c.src].kind = c.kind
            /\ new[c.src].body = c.body /\ new[c.src].conf = c.conf
        BY <1>5, <1>6 DEF Kept
      <3> QED
        BY <1>5, <1>6, <2>2, <2>5, <2>7, <3>1, <3>2 DEF WholeAt, new
    <2> QED
      BY <2>6, <2>8, <2>9
  <1>9. CASE j.op # "belief"
    <2>1. cited = NoId /\ rs[p].slot # "beliefs" /\ rs[p].slot # "evidence"
      BY <1>9
    <2>2. new = Append(gone, c)
      BY <1>9, <2>1, LandedIsCommit
    <2> HIDE DEF gone, c, new, cited, p
    <2>3. DOMAIN new = 1..(n + 1) /\ new[n + 1] = c
      BY <1>2, <1>3, <1>4, <1>7, <2>2, AppendProperties, LenProperties
    <2>4. new[i] = c
      BY <1>2, <2>3 DEF new
    <2> QED
      <3>1. new[c.src].slot = c.slot /\ new[c.src].kind = c.kind
            /\ new[c.src].body = c.body /\ new[c.src].conf = c.conf
        BY <1>5, <1>6 DEF Kept
      <3>2. c.slot # "beliefs"
        BY <1>6, <2>1
      <3>3. c.slot # "evidence"
        BY <1>6, <2>1
      <3> QED
        BY <1>5, <1>6, <2>4, <3>1, <3>2, <3>3 DEF WholeAt, new
  <1> QED
    BY <1>8, <1>9

\* A step that adds no record keeps commits whole.
LEMMA SameCommits ==
    ASSUME Whole, Grown(recs, recs'), \A i \in DOMAIN recs' : i \in DOMAIN recs
    PROVE  Whole'
  <1>1. ASSUME NEW i \in DOMAIN recs' PROVE WholeAt(recs', i)
    BY WholeLater, Zenon DEF Whole
  <1> QED
    BY <1>1, Zenon DEF Whole

LEMMA WriteWhole ==
    ASSUME Inv, Whole, NEW d \in Drafts, Write(d)
    PROVE  Whole'
  <1>1. d \in Record /\ FreshRecord(d) /\ Permits(d) /\ recs' = Append(recs, d)
    BY PublishedIsRecord DEF Write
  <1>2. recs \in Seq(Record)
    BY DEF Inv, TypeOK
  <1>3. Grown(recs, recs')
    BY <1>1, <1>2, AppendGrows DEF FreshRecord
  <1>4. \A i \in DOMAIN recs' : i \in DOMAIN recs \/ recs'[i] = d
    BY <1>1, <1>2, AppendProperties, LenProperties
  <1>5. ASSUME NEW i \in DOMAIN recs' PROVE WholeAt(recs', i)
    BY <1>1, <1>3, <1>4, WholeLater, DraftIsWhole, Zenon DEF Whole
  <1> QED
    BY <1>5, Zenon DEF Whole

LEMMA EndTxWhole ==
    ASSUME Inv, Whole, NEW t \in Threads, EndTx(t)
    PROVE  Whole'
  <1> DEFINE j == job[t]
  <1>1. pc[t] \in Writing /\ recs' = Landed(recs, j)
    BY DEF EndTx, At, Inv, Safe, Ready, Writing, InTx
  <1>2. pc[t] \in Pending /\ j.op \in {"belief", "prediction", "action"}
    BY <1>1, InTransaction DEF AllOps
  <1>3. /\ j \in Job /\ j.prop \in DOMAIN recs /\ WellFormed(recs[j.prop]) /\ j.trace \in Traces
        /\ recs \in Seq(Record) /\ Grown(recs, recs')
    BY <1>1, <1>2, AcceptedBoards DEF Inv, TypeOK
  <1>4. recs[j.prop].mode = "PROPOSE" /\ recs[j.prop].slot = SlotOf[j.op]
    BY <1>2, ThreadFacts DEF Fit
  <1>5. /\ j.op = "belief" <=> recs[j.prop].slot = "beliefs"
        /\ recs[j.prop].slot # "evidence"
    BY <1>2, <1>4 DEF SlotOf
  <1> HIDE DEF j
  <1>6. ASSUME NEW i \in DOMAIN recs' PROVE WholeAt(recs', i)
    <2>1. CASE i \in DOMAIN recs
      BY <1>3, <2>1, WholeLater, Zenon DEF Whole
    <2>2. CASE i \notin DOMAIN recs
      BY <1>1, <1>3, <1>4, <1>5, <2>2, LandedIsWhole
    <2> QED
      BY <2>1, <2>2
  <1> QED
    BY <1>6, Zenon DEF Whole

LEMMA NextWhole == Inv /\ Whole /\ [Next]_vars => Whole'
  <1> SUFFICES ASSUME Inv, Whole, [Next]_vars PROVE Whole'
    OBVIOUS
  <1>0. recs \in Seq(Record) /\ Grown(recs, recs)
    BY GrownSame DEF Inv, TypeOK
  <1>1. ASSUME recs' = recs PROVE Whole'
    BY <1>0, <1>1, SameCommits
  <1>2. ASSUME NEW t \in Threads, Refuse(t) PROVE Whole'
    <2>1. recs' = Invalidate(recs, job[t].prop, job[t].code) /\ pc[t] = "refuse"
      BY <1>2 DEF Refuse, At
    <2>2. job[t].prop \in DOMAIN recs /\ job[t].code \in Reasons
      BY <2>1, ThreadFacts DEF Fit, Pending, Holding, Labels, Reasons
    <2> QED
      BY <1>0, <2>1, <2>2, InvalidateGrows, InvalidateFacts, SameCommits
  <1>3. ASSUME NEW i \in DOMAIN recs, Expire(i) PROVE Whole'
    <2>1. recs' = ExpireRecord(recs, i)
      BY <1>3 DEF Expire
    <2>2. DOMAIN recs' = DOMAIN recs /\ Grown(recs, recs')
      BY <1>0, <2>1, ExpireFacts, UpdateGrows
    <2> QED
      BY <2>2, SameCommits
  <1>4. ASSUME NEW t \in Threads, Step(t) PROVE Whole'
    <2>1. \/ Refuse(t) \/ EndTx(t) \/ recs' = recs
      BY <1>4, Zenon DEF Step, Acquire, Fetch, ListSlot, JudgeBelief, Arbitrate, Gate, Claims,
         JudgePlan, JudgeAction, CheckNeeds, BeginTx, WriteEvidence, Supersede, WriteRecord, Return
    <2> QED
      BY <1>1, <1>2, <2>1, EndTxWhole
  <1>5. ASSUME NEW t \in Threads, Raise(t) PROVE recs' = recs
    BY <1>5 DEF Raise
  <1>6. ASSUME NEW k \in Kernels, Crash(k) PROVE recs' = recs
    BY <1>6 DEF Crash
  <1>7. \A t, op, p, trace, need : Call(t, op, p, trace, need) => recs' = recs
    BY DEF Call
  <1>8. CASE UNCHANGED vars
    BY <1>1, <1>8 DEF vars
  <1> QED
    BY <1>1, <1>3, <1>4, <1>5, <1>6, <1>7, <1>8, WriteWhole DEF Next

\* Every commit on the board is whole, for any number of kernels.
THEOREM KernelWhole == Spec => []Whole
  <1>1. Init => Whole
    BY DEF Init, Whole
  <1> QED
    BY <1>1, NextWhole, KernelInv, PTL DEF Spec

\* A committed belief cites evidence of its own commit, and evidence the kernel
\* wrote has its belief: neither outlives a transaction without the other, also when
\* two kernels commit one proposal.
THEOREM KernelEvidenceVouches == Spec => []EvidenceVouches
  <1>1. Whole => EvidenceVouches
    <2> SUFFICES ASSUME Whole, NEW i \in DOMAIN recs
                 PROVE  /\ recs[i].role = "kernel" /\ recs[i].slot = "beliefs" => Trail!BeliefCites(i)
                        /\ recs[i].slot = "evidence" /\ recs[i].src # Trail!NoId =>
                             \E b \in Trail!CommitsOf(recs[i].src) :
                                recs[b].slot = "beliefs" /\ recs[b].evid = i
      BY DEF EvidenceVouches, Trail!EvidenceVouches
    <2>1. WholeAt(recs, i)
      BY DEF Whole
    <2> QED
      BY <2>1 DEF WholeAt, Trail!BeliefCites, Trail!CommitsOf, Trail!ValidationOf, ValidationOf,
                  Trail!NoId, NoId
  <1> QED
    BY <1>1, KernelWhole, PTL

\* What is committed was proposed, with that payload, kind and confidence, whichever
\* kernel commits it.
THEOREM KernelCommitsAreProposals == Spec => []CommitsAreProposals
  <1>1. Whole => CommitsAreProposals
    BY Zenon DEF Whole, WholeAt, CommitsAreProposals, Trail!CommitsAreProposals
  <1> QED
    BY <1>1, KernelWhole, PTL
=============================================================================
