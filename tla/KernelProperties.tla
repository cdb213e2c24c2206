-------------------------- MODULE KernelProperties --------------------------
(***************************************************************************)
(* What must hold of the kernel at work.  That its board is an audit trail *)
(* (one commit per proposal, whole commits, nothing unsettled) is stated   *)
(* by refinement; the invariants here say when a commit is justified,      *)
(* whatever was written, expired or failed while it was being judged.      *)
(***************************************************************************)
EXTENDS Kernel

Labels == {"idle", "acquire", "fetch", "view", "judge", "arbitrate", "gate", "claims",
           "needs", "refuse", "begin", "evidence", "supersede", "commit", "end", "return"}

Job == [op : AllOps \cup {"none"}, prop : Nat, trace : Traces \cup {"none"},
        need : BOOLEAN, since : Nat, pos : Nat, view : SUBSET Nat,
        claims : BOOLEAN, vetted : BOOLEAN,
        code : Refusals \cup {"none", "INVALID_PROPOSAL", "PLAN_FEASIBLE", "COMMITTED"}]

\* The variables have their types, and what is proposed has the lists its pipeline walks.
TypeOK ==
    /\ recs \in Seq(Record)
    /\ \A i \in DOMAIN recs : recs[i].mode = "PROPOSE" => WellFormed(recs[i])
    /\ work \in Seq(Record)
    /\ owner \in Threads \cup {NoThread}
    /\ commitLock \in [Kernels -> Threads \cup {NoThread}]
    /\ pc \in [Threads -> Labels]
    /\ job \in [Threads -> Job]
    /\ calls \in 0..MaxCalls

-----------------------------------------------------------------------------
\* The board, seen from outside, is an audit trail: every step adds records, lets
\* one expire, refuses a proposal or commits it whole (the transactions and the
\* commit lock of the four pipelines).
Trail == INSTANCE AuditTrail WITH trail <- recs
IsAuditTrail == Trail!Spec

AtMostOneCommit     == Trail!AtMostOneCommit
VerdictsAgree       == Trail!VerdictsAgree
EvidenceVouches     == Trail!EvidenceVouches
CommitsAreProposals == Trail!CommitsAreProposals
Settled             == Trail!Settled

-----------------------------------------------------------------------------
\* Justification.  A commit is judged by what was certainly there: records that
\* cannot expire, on the board when the proposal was fetched, and not followed
\* by a later one of their kind before the commit landed.

\* The commits of one slot.
CommitsIn(slot) == {c \in DOMAIN recs : recs[c].role = "kernel" /\ recs[c].slot = slot}

\* The committed records of a kind that were there by the time c was written.
Before(c, slot, kind) ==
    {i \in 1..(c - 1) : /\ recs[i].slot = slot /\ recs[i].kind = kind
                        /\ recs[i].mode = "COMMIT" /\ recs[i].trace = recs[c].trace}

\* Record q was the last of its kind all the while c was being judged.
Standing(c, q) ==
    /\ q <= recs[c].since
    /\ ~recs[q].ttl
    /\ \A i \in Before(c, recs[q].slot, recs[q].kind) : i <= q

\* A belief is not committed on a dependency nobody observed, or one whose standing
\* percept is stale, or is in conflict while no percept of its kind is confident
\* enough to arbitrate.  Only dependencies named after one that conflicts escape
\* this: arbitration skips them.
DependenciesJudged ==
    \A c \in CommitsIn("beliefs") :
        LET deps == recs[c].body.depends_on
        IN  \A k \in DOMAIN deps :
              (\A j \in 1..(k - 1) : \A i \in Before(c, "percepts", deps[j]) : ~recs[i].body.conflict)
              => /\ Before(c, "percepts", deps[k]) # {}
                 /\ \A q \in Before(c, "percepts", deps[k]) : Standing(c, q) =>
                      /\ ~recs[q].body.stale
                      /\ recs[q].body.conflict =>
                           \E i \in Before(c, "percepts", deps[k]) : recs[i].conf >= ArbConf

\* A belief is not committed on a dependency of which every percept is below
\* min_confidence, arbitrated or not.
WeakEvidenceRefused ==
    \A c \in CommitsIn("beliefs") :
        \A k \in DOMAIN recs[c].body.depends_on :
            LET seen == Before(c, "percepts", recs[c].body.depends_on[k])
            IN  ~(/\ \E q \in seen : q <= recs[c].since /\ ~recs[q].ttl
                  /\ \A i \in seen : recs[i].conf \in 0..(MinConf - 1))

\* An action is not committed against a standing constraint of its episode, nor
\* without a committed, true belief for everything it requires.
ActionsJudged ==
    \A c \in CommitsIn("actions") :
        /\ \A i \in DOMAIN recs[c].body.requires_beliefs :
             \E b \in Before(c, "beliefs", recs[c].body.requires_beliefs[i]) : recs[b].body.value
        /\ \A q \in DOMAIN recs :
             /\ recs[q].slot = "constraints" /\ recs[q].trace = recs[c].trace
             /\ Standing(c, q)
             => ~(recs[q].body.enabled /\ recs[q].body.blocks_field \in recs[c].body.flags \ {NoField})

\* The committed predictions of the episode that were there by the time c was written.
Foretellings(c) ==
    {i \in 1..(c - 1) : /\ recs[i].slot = "predictions" /\ recs[i].mode = "COMMIT"
                        /\ recs[i].trace = recs[c].trace}

\* Prediction i put its kind first in every view the gate can have had.
Leads(c, i) ==
    /\ i <= recs[c].since
    /\ ~recs[i].ttl
    /\ \A later \in Foretellings(c) : recs[later].kind # recs[i].kind => i < later

\* Some prediction permits action c, and none advises against it that stood as the
\* last of the leading kind: that is the one the gate must ask.
ForecastPermits(c) ==
    LET of == {i \in Foretellings(c) : recs[i].body.action_type = ActionType(recs[c])}
    IN  /\ \E i \in of : ~(recs[i].body.expected_outcome < 0)
        /\ \A q \in of, i \in Foretellings(c) :
             recs[i].kind = recs[q].kind /\ Leads(c, i) /\ Standing(c, q)
             => ~(recs[q].body.expected_outcome < 0)

\* COMMITTED: the commit is there and, under require_prediction, was permitted.
CommittedHolds(j) ==
    j.code = "COMMITTED" =>
        \E c \in Trail!CommitsOf(j.prop) :
            recs[c].trace = j.trace /\ (j.need => ForecastPermits(c))

\* A refusal: the proposal is settled with that reason, and not committed.
RefusedHolds(j) ==
    j.code \in Refusals =>
        /\ recs[j.prop].status = "INVALIDATED" /\ recs[j.prop].reason = j.code
        /\ Trail!CommitsOf(j.prop) = {}

\* PLAN_FEASIBLE: every belief the plan needs was committed true, and no constraint
\* standing since the call began blocks a step of it.
FeasibleHolds(j) ==
    j.code = "PLAN_FEASIBLE" =>
        \A s \in DOMAIN recs[j.prop].body.steps :
            LET step == recs[j.prop].body.steps[s]
            IN  /\ \A i \in DOMAIN step.requires_beliefs : \E b \in DOMAIN recs :
                     /\ recs[b].slot = "beliefs" /\ recs[b].mode = "COMMIT"
                     /\ recs[b].kind = step.requires_beliefs[i]
                     /\ recs[b].trace = j.trace
                     /\ recs[b].body.value
                /\ \A q \in 1..j.since :
                     /\ recs[q].slot = "constraints" /\ recs[q].trace = j.trace
                     /\ ~recs[q].ttl
                     /\ \A i \in DOMAIN recs :
                          recs[i].slot = "constraints" /\ recs[i].kind = recs[q].kind
                          /\ recs[i].trace = j.trace => i <= q
                     => ~(recs[q].body.enabled /\ recs[q].body.blocks_field \in step.flags \ {NoField})

\* The answer a caller gets is true of the board, and stays true until the call has
\* returned, whatever is written meanwhile and whichever store call fails.
AnswersHold ==
    \A t \in Threads : pc[t] = "return" =>
        CommittedHolds(job[t]) /\ RefusedHolds(job[t]) /\ FeasibleHolds(job[t])

\* Every call comes back to its caller, with an answer or an exception: neither a
\* failed store call nor a crash leaves a lock behind that others wait for.
CallsReturn == \A t \in Threads : pc[t] # "idle" ~> pc[t] = "idle"
=============================================================================
