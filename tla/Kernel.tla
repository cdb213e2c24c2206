-------------------------------- MODULE Kernel --------------------------------
(***************************************************************************)
(* The kernel at work: threads run its four proposal pipelines             *)
(* (commit_belief_from_proposal, validate_plan, commit_prediction and      *)
(* commit_action_from_proposal) on one store, while clients go on writing, *)
(* records expire, store calls fail and processes crash.                   *)
(*                                                                         *)
(* One step is one call of the store, which its lock makes atomic; between *)
(* two of them anything may happen.  A pipeline holds the commit lock of   *)
(* ITS kernel from start to end; `write` does not take that lock, and      *)
(* kernels that share a store do not share it.  A transaction keeps the    *)
(* lock of the store: its writes go to `work`, which becomes the board     *)
(* when it commits and is forgotten when it fails.                         *)
(*                                                                         *)
(* The store is SqliteStore: it is durable, so a crash leaves `recs` as it *)
(* is, and it hands out copies, so that testing a record belongs to the    *)
(* call that returned it.  MemoryStore hands out its own records, and a    *)
(* pipeline tests their status after the call: it may find a record of its *)
(* view expired since it was listed, or refuse as INVALID_PROPOSAL one     *)
(* that a transaction of ANOTHER kernel has marked and will unmark.        *)
(* Neither is here; CurrentView has the views of both stores.              *)
(***************************************************************************)
EXTENDS Validators

CONSTANTS
    Kernels,    \* the kernels that share the store
    Threads,    \* the threads that call them
    NoThread,   \* the holder of a free lock
    Home,       \* Home[t] is the kernel thread t calls
    Ops,        \* the pipelines called, some of AllOps
    MaxCalls,   \* bound on the calls made
    MinConf,    \* min_confidence
    ArbConf     \* conflict_confidence_threshold

AllOps == {"belief", "plan", "prediction", "action"}

ASSUME KernelAssumption ==
    /\ NoThread \notin Threads
    /\ Home \in [Threads -> Kernels]
    /\ Ops \subseteq AllOps
    /\ MaxCalls \in Nat
    /\ MinConf \in 0..MaxConf /\ ArbConf \in 0..MaxConf

VARIABLES
    recs,           \* the board, as the store would answer
    work,           \* the board as the open transaction sees it
    owner,          \* the thread in a transaction
    commitLock,     \* commitLock[k] is the holder of kernel k's _commit_lock
    pc,             \* where each thread is in its pipeline
    job,            \* the locals of its call
    calls           \* how many calls were made

vars == <<recs, work, owner, commitLock, pc, job, calls>>

\* The slot whose proposals each pipeline takes.
SlotOf == [belief |-> "beliefs", plan |-> "plans",
           prediction |-> "predictions", action |-> "actions"]

\* The slots current_view lists, in its order, without those whose content the
\* pipeline never looks at.
Consulted == [belief |-> <<"percepts">>, plan |-> <<"beliefs", "constraints">>,
              prediction |-> << >>, action |-> <<"beliefs", "constraints", "predictions">>]

NoJob == [op |-> "none", prop |-> NoId, trace |-> "none", need |-> FALSE,
          since |-> 0, pos |-> 1, view |-> {}, claims |-> FALSE, vetted |-> FALSE,
          code |-> "none"]

Init ==
    /\ recs = << >> /\ work = << >>
    /\ owner = NoThread
    /\ commitLock = [k \in Kernels |-> NoThread]
    /\ pc = [t \in Threads |-> "idle"]
    /\ job = [t \in Threads |-> NoJob]
    /\ calls = 0

-----------------------------------------------------------------------------
\* No thread is in a transaction: the lock of the store is free.
StoreFree == owner = NoThread

\* Who sees the store as free or holds its lock.
CanUseStore(t) == owner \in {NoThread, t}

\* Mutant: every pipeline gets in at once.
LockFree_Always(k) == TRUE

LockFree(k) == commitLock[k] = NoThread

At(t, label) == pc[t] = label

Goto(t, label) == pc' = [pc EXCEPT ![t] = label]

Deps(t)     == recs[job[t].prop].body.depends_on
Requires(t) == recs[job[t].prop].body.requires_beliefs
Find(t, slot, kind) == FindActiveByKind(recs, slot, kind, job[t].trace)

\* Mutant: a committed record passes for a proposal.
IsProposal_AnyMode(rs, p, op) ==
    /\ p \in DOMAIN rs
    /\ Active(rs, p)
    /\ rs[p].slot = SlotOf[op]

\* A proposal a pipeline accepts.
IsProposal(rs, p, op) ==
    /\ p \in DOMAIN rs
    /\ Active(rs, p)
    /\ rs[p].slot = SlotOf[op]
    /\ rs[p].mode = "PROPOSE"

-----------------------------------------------------------------------------
\* The clients and the clock.

\* Kernel.write for a caller outside the pipelines.
Write(d) ==
    /\ StoreFree
    /\ Permits(d)
    /\ ConfidenceOK(d)
    /\ Len(recs) < MaxRecs
    /\ recs' = Append(recs, d)
    /\ UNCHANGED <<work, owner, commitLock, pc, job, calls>>

\* The deadline of record i passes.
Expire(i) ==
    /\ StoreFree
    /\ Active(recs, i)
    /\ recs[i].ttl
    /\ recs' = ExpireRecord(recs, i)
    /\ UNCHANGED <<work, owner, commitLock, pc, job, calls>>

-----------------------------------------------------------------------------
\* Entering a pipeline.

Call(t, op, p, trace, need) ==
    /\ At(t, "idle")
    /\ calls < MaxCalls
    /\ calls' = calls + 1
    /\ job' = [job EXCEPT ![t] = [NoJob EXCEPT !.op = op, !.prop = p,
                                               !.trace = trace, !.need = need]]
    /\ Goto(t, "acquire")
    /\ UNCHANGED <<recs, work, owner, commitLock>>

Acquire(t) ==
    /\ At(t, "acquire")
    /\ LockFree(Home[t])
    /\ commitLock' = [commitLock EXCEPT ![Home[t]] = t]
    /\ Goto(t, "fetch")
    /\ UNCHANGED <<recs, work, owner, job, calls>>

\* store.get and the test of the copy it returned.
Fetch(t) ==
    /\ At(t, "fetch")
    /\ StoreFree
    /\ LET j == job[t]
       IN  \/ /\ IsProposal(recs, j.prop, j.op)
              /\ job' = [job EXCEPT ![t].since = Len(recs)]
              /\ Goto(t, IF j.op # "prediction" THEN "view"
                         ELSE IF Requires(t) = << >> THEN "begin" ELSE "needs")
           \/ /\ ~IsProposal(recs, j.prop, j.op)
              /\ job' = [job EXCEPT ![t].code = "INVALID_PROPOSAL"]
              /\ Goto(t, "return")
    /\ UNCHANGED <<recs, work, owner, commitLock, calls>>

\* One list_slot of current_view(trace_id), and the loop over the copies it returned.
ListSlot(t) ==
    /\ At(t, "view")
    /\ StoreFree
    /\ LET j     == job[t]
           slots == Consulted[j.op]
           seen  == Listed(recs, slots[j.pos], j.trace, FALSE)
           last  == j.pos = Len(slots)
       IN  /\ job' = [job EXCEPT ![t].view = j.view \cup seen,
                                 ![t].pos = IF last THEN 1 ELSE j.pos + 1]
           /\ Goto(t, IF last THEN "judge" ELSE "view")
    /\ UNCHANGED <<recs, work, owner, commitLock, calls>>

-----------------------------------------------------------------------------
\* Judging the proposal.

\* The proposal is to be refused under a code.
Reject(t, code) ==
    /\ job' = [job EXCEPT ![t].code = code]
    /\ Goto(t, "refuse")

JudgeBelief(t) ==
    /\ At(t, "judge")
    /\ job[t].op = "belief"
    /\ LET res == BeliefVerdict(recs, job[t].view, Deps(t))
       IN  \/ /\ res.code = "OK"
              /\ Goto(t, IF Deps(t) = << >> THEN "begin" ELSE "gate")
              /\ UNCHANGED job
           \/ /\ res.code = "CONFLICTING_EVIDENCE"
              /\ job' = [job EXCEPT ![t].pos = res.at]
              /\ Goto(t, "arbitrate")
           \/ /\ res.code \in {"MISSING_EVIDENCE", "STALE_EVIDENCE"}
              /\ Reject(t, res.code)
    /\ UNCHANGED <<recs, work, owner, commitLock, calls>>

\* A conflict is overridden by a confident percept of the kind; what the verdict
\* left unexamined, the dependencies after the conflicting one, stays unexamined.
Arbitrate(t) ==
    /\ At(t, "arbitrate")
    /\ StoreFree
    /\ LET conf == ConfOf(recs, Find(t, "percepts", Deps(t)[job[t].pos]))
       IN  \/ /\ conf >= ArbConf
              /\ job' = [job EXCEPT ![t].pos = 1]
              /\ Goto(t, "gate")
           \/ /\ conf < ArbConf     \* NoConf among them
              /\ Reject(t, "UNRESOLVED_CONFLICT")
    /\ UNCHANGED <<recs, work, owner, commitLock, calls>>

\* Mutant: `if confidence`, which takes 0.0 for unknown.
TooWeak_Truthy(conf) == conf > 0 /\ conf < MinConf

\* An unknown confidence passes the gate.
TooWeak(conf) == conf # NoConf /\ conf < MinConf

\* One turn of the confidence gate.
Gate(t) ==
    /\ At(t, "gate")
    /\ StoreFree
    /\ LET j    == job[t]
           conf == ConfOf(recs, Find(t, "percepts", Deps(t)[j.pos]))
           last == j.pos = Len(Deps(t))
       IN  \/ /\ TooWeak(conf)
              /\ Reject(t, "LOW_CONFIDENCE")
           \/ /\ ~TooWeak(conf)
              /\ job' = [job EXCEPT ![t].pos = IF last THEN 1 ELSE j.pos + 1,
                                    ![t].vetted = j.vetted \/ conf # NoConf]
              /\ Goto(t, IF last THEN "claims" ELSE "gate")
    /\ UNCHANGED <<recs, work, owner, commitLock, calls>>

\* One turn of the loop that puts "confidence" among the evidence's checks.
Claims(t) ==
    /\ At(t, "claims")
    /\ StoreFree
    /\ LET j    == job[t]
           conf == ConfOf(recs, Find(t, "percepts", Deps(t)[j.pos]))
           last == j.pos = Len(Deps(t))
       IN  \/ /\ conf # NoConf
              /\ job' = [job EXCEPT ![t].claims = TRUE]
              /\ Goto(t, "begin")
           \/ /\ conf = NoConf
              /\ job' = [job EXCEPT ![t].pos = j.pos + 1]
              /\ Goto(t, IF last THEN "begin" ELSE "claims")
    /\ UNCHANGED <<recs, work, owner, commitLock, calls>>

\* One turn of commit_prediction's loop: any ACTIVE record in beliefs will do.
CheckNeeds(t) ==
    /\ At(t, "needs")
    /\ StoreFree
    /\ LET j     == job[t]
           found == Find(t, "beliefs", Requires(t)[j.pos])
           last  == j.pos = Len(Requires(t))
       IN  \/ /\ found = NoId
              /\ Reject(t, "PREDICTION_MISSING_BELIEF")
           \/ /\ found # NoId
              /\ job' = [job EXCEPT ![t].pos = j.pos + 1]
              /\ Goto(t, IF last THEN "begin" ELSE "needs")
    /\ UNCHANGED <<recs, work, owner, commitLock, calls>>

\* validate_plan changes nothing when the plan is feasible.
JudgePlan(t) ==
    /\ At(t, "judge")
    /\ job[t].op = "plan"
    /\ LET code == PlanVerdict(recs, job[t].view, recs[job[t].prop].body.steps)
       IN  \/ /\ code = "PLAN_FEASIBLE"
              /\ job' = [job EXCEPT ![t].code = code]
              /\ Goto(t, "return")
           \/ /\ code # "PLAN_FEASIBLE"
              /\ Reject(t, code)
    /\ UNCHANGED <<recs, work, owner, commitLock, calls>>

\* The optional prediction gate, then the symbolic validation.
JudgeAction(t) ==
    /\ At(t, "judge")
    /\ job[t].op = "action"
    /\ LET j        == job[t]
           r        == recs[j.prop]
           forecast == IF j.need THEN PredictionVerdict(recs, j.view, ActionType(r)) ELSE "OK"
           verdict  == ActionVerdict(recs, j.view, r.body.requires_beliefs, r.body.flags)
       IN  \/ /\ forecast # "OK"
              /\ Reject(t, forecast)
           \/ /\ forecast = "OK" /\ verdict # "OK"
              /\ Reject(t, verdict)
           \/ /\ forecast = "OK" /\ verdict = "OK"
              /\ Goto(t, "begin")
              /\ UNCHANGED job
    /\ UNCHANGED <<recs, work, owner, commitLock, calls>>

-----------------------------------------------------------------------------
\* Settling the proposal.

\* Mutant: the caller is told of the refusal, the board is not.
Refuse_Unrecorded(t) ==
    /\ At(t, "refuse")
    /\ StoreFree
    /\ Goto(t, "return")
    /\ UNCHANGED <<recs, work, owner, commitLock, job, calls>>

\* invalidate(proposal_id, res.detail), a store call of its own.
Refuse(t) ==
    /\ At(t, "refuse")
    /\ StoreFree
    /\ recs' = Invalidate(recs, job[t].prop, job[t].code)
    /\ Goto(t, "return")
    /\ UNCHANGED <<work, owner, commitLock, job, calls>>

BeginTx(t) ==
    /\ At(t, "begin")
    /\ StoreFree
    /\ owner' = t
    /\ work' = recs
    /\ Goto(t, IF job[t].op = "belief" THEN "evidence" ELSE "supersede")
    /\ UNCHANGED <<recs, commitLock, job, calls>>

\* Mutant: the evidence is written outside the transaction.
WriteEvidence_AtOnce(t) ==
    /\ At(t, "evidence")
    /\ CanUseStore(t)
    /\ LET j == job[t]
       IN  work' = Append(work, EvidenceFor(work, j.prop, j.trace,
                              [claims |-> j.claims, vetted |-> j.vetted], j.since))
    /\ recs' = work'
    /\ Goto(t, "supersede")
    /\ UNCHANGED <<owner, commitLock, job, calls>>

WriteEvidence(t) ==
    /\ At(t, "evidence")
    /\ CanUseStore(t)
    /\ LET j == job[t]
       IN  work' = Append(work, EvidenceFor(work, j.prop, j.trace,
                              [claims |-> j.claims, vetted |-> j.vetted], j.since))
    /\ Goto(t, "supersede")
    /\ UNCHANGED <<recs, owner, commitLock, job, calls>>

Supersede(t) ==
    /\ At(t, "supersede")
    /\ CanUseStore(t)
    /\ work' = Invalidate(work, job[t].prop, "SUPERSEDED_BY_COMMIT")
    /\ Goto(t, "commit")
    /\ UNCHANGED <<recs, owner, commitLock, job, calls>>

\* A belief cites the evidence just written.
WriteRecord(t) ==
    /\ At(t, "commit")
    /\ CanUseStore(t)
    /\ LET j    == job[t]
           evid == IF j.op = "belief" THEN Len(work) ELSE NoId
       IN  work' = Append(work, CommittedFrom(work, j.prop, j.trace, evid, j.since))
    /\ Goto(t, "end")
    /\ UNCHANGED <<recs, owner, commitLock, job, calls>>

EndTx(t) ==
    /\ At(t, "end")
    /\ owner = t
    /\ recs' = work
    /\ work' = << >>
    /\ owner' = NoThread
    /\ job' = [job EXCEPT ![t].code = "COMMITTED"]
    /\ Goto(t, "return")
    /\ UNCHANGED <<commitLock, calls>>

Return(t) ==
    /\ At(t, "return")
    /\ commitLock' = [commitLock EXCEPT ![Home[t]] = NoThread]
    /\ job' = [job EXCEPT ![t] = NoJob]
    /\ Goto(t, "idle")
    /\ UNCHANGED <<recs, work, owner, calls>>

-----------------------------------------------------------------------------
\* Failures.

InTx    == {"evidence", "supersede", "commit"}
AtStore == {"fetch", "view", "arbitrate", "gate", "claims", "needs", "refuse", "begin"} \cup InTx

\* Mutant: the commit lock is not released.
Raise_HoldingLock(t) ==
    /\ pc[t] \in AtStore
    /\ CanUseStore(t)
    /\ work' = << >>
    /\ owner' = NoThread
    /\ job' = [job EXCEPT ![t] = NoJob]
    /\ Goto(t, "idle")
    /\ UNCHANGED <<recs, commitLock, calls>>

\* A store call of t raises: an open transaction is rolled back, the locks are
\* released on the way out and the caller gets the exception.
Raise(t) ==
    /\ pc[t] \in AtStore
    /\ CanUseStore(t)
    /\ work' = << >>
    /\ owner' = NoThread
    /\ commitLock' = [commitLock EXCEPT ![Home[t]] = NoThread]
    /\ job' = [job EXCEPT ![t] = NoJob]
    /\ Goto(t, "idle")
    /\ UNCHANGED <<recs, calls>>

\* The process of kernel k dies and starts again: its threads, its lock and its
\* open transaction are gone.
Crash(k) ==
    LET dead == {t \in Threads : Home[t] = k}
    IN  /\ \E t \in dead : ~At(t, "idle")
        /\ work' = IF owner \in dead THEN << >> ELSE work
        /\ owner' = IF owner \in dead THEN NoThread ELSE owner
        /\ commitLock' = [commitLock EXCEPT ![k] = NoThread]
        /\ pc' = [t \in Threads |-> IF t \in dead THEN "idle" ELSE pc[t]]
        /\ job' = [t \in Threads |-> IF t \in dead THEN NoJob ELSE job[t]]
        /\ UNCHANGED <<recs, calls>>

-----------------------------------------------------------------------------
\* What a call does once it is made.
Step(t) ==
    \/ Acquire(t) \/ Fetch(t) \/ ListSlot(t)
    \/ JudgeBelief(t) \/ Arbitrate(t) \/ Gate(t) \/ Claims(t)
    \/ JudgePlan(t) \/ JudgeAction(t) \/ CheckNeeds(t)
    \/ Refuse(t)
    \/ BeginTx(t) \/ WriteEvidence(t) \/ Supersede(t) \/ WriteRecord(t) \/ EndTx(t)
    \/ Return(t)

Next ==
    \/ \E d \in Drafts : Write(d)
    \/ \E i \in DOMAIN recs : Expire(i)
    \/ \E t \in Threads, op \in Ops, p \in 0..Len(recs), trace \in Traces :
         \E need \in (IF op = "action" THEN BOOLEAN ELSE {FALSE}) :
            Call(t, op, p, trace, need)
    \/ \E t \in Threads : Step(t) \/ Raise(t)
    \/ \E k \in Kernels : Crash(k)

\* A thread inside a call keeps running until its call returns.
Fairness == \A t \in Threads : WF_vars(Step(t))

Spec == Init /\ [][Next]_vars
FairSpec == Spec /\ Fairness
=============================================================================
