------------------------------ MODULE AuditTrail ------------------------------
(***************************************************************************)
(* What the kernel promises of the board, whatever runs inside it: records *)
(* are only added, a proposal is settled at most once, and a commit lands  *)
(* whole (the proposal superseded, the record that replaces it and, for a  *)
(* belief, the evidence that vouches for it) or not at all.  Nothing is    *)
(* said of when a commit is justified: that is what Kernel is about.       *)
(***************************************************************************)
EXTENDS Blackboard

VARIABLE trail

Init == trail = <<>>

\* The proposals that are not settled.  An expired one is among them: it may
\* have been fetched before its deadline.
Committable == {"beliefs", "predictions", "actions"}

\* Mutant: the status is not tested.
Open_AnyStatus(p) == trail[p].mode = "PROPOSE"

Open(p) == trail[p].mode = "PROPOSE" /\ trail[p].status # "INVALIDATED"

Publish(d) ==
    /\ Permits(d)
    /\ ConfidenceOK(d)
    /\ Len(trail) < MaxRecs
    /\ trail' = Append(trail, d)

Lapse(i) ==
    /\ Active(trail, i)
    /\ trail[i].ttl
    /\ trail' = ExpireRecord(trail, i)

Refuse(p) ==
    /\ Open(p)
    /\ \E why \in Refusals : trail' = Invalidate(trail, p, why)

CommitBelief(p, trace, voucher, since) ==
    /\ Open(p)
    /\ trail[p].slot = "beliefs"
    /\ trail' = Append(Append(Invalidate(trail, p, "SUPERSEDED_BY_COMMIT"),
                              EvidenceFor(trail, p, trace, voucher, since)),
                       CommittedFrom(trail, p, trace, Len(trail) + 1, since))

CommitOther(p, trace, since) ==
    /\ Open(p)
    /\ trail[p].slot \in Committable \ {"beliefs"}
    /\ trail' = Append(Invalidate(trail, p, "SUPERSEDED_BY_COMMIT"),
                       CommittedFrom(trail, p, trace, NoId, since))

\* The commit of proposal p, under any trace_id.
Land(p) ==
    \E trace \in Traces, since \in 0..Len(trail) :
        \/ \E voucher \in Vouchers : CommitBelief(p, trace, voucher, since)
        \/ CommitOther(p, trace, since)

Next ==
    \/ \E d \in Drafts : Publish(d)
    \/ \E i \in DOMAIN trail : Lapse(i) \/ Refuse(i) \/ Land(i)

Spec == Init /\ [][Next]_trail

-----------------------------------------------------------------------------
\* Every record on the board is a record, its references are to records already
\* there, and what is proposed is of a kind that can be committed.
TypeOK ==
    /\ trail \in Seq(Record)
    /\ \A i \in DOMAIN trail :
         /\ trail[i].evid < i /\ trail[i].src < i
         /\ trail[i].mode = "PROPOSE" => trail[i].kind \in Kinds

\* The records the kernel itself wrote in place of proposal p.
CommitsOf(p) == {i \in DOMAIN trail : trail[i].role = "kernel" /\ trail[i].src = p}

\* A proposal is committed at most once, however often and from wherever its
\* commit is asked for (the status test and commit lock of commit_*_from_proposal).
AtMostOneCommit ==
    \A p \in DOMAIN trail : \A i, j \in CommitsOf(p) : i = j

\* A proposal says SUPERSEDED_BY_COMMIT exactly when the record that supersedes it
\* is on the board: no interruption, refusal or second call separates the two
\* (the transaction of commit_*_from_proposal).
VerdictsAgree ==
    \A p \in DOMAIN trail :
        /\ trail[p].reason = "SUPERSEDED_BY_COMMIT" <=> CommitsOf(p) # {}
        /\ trail[p].reason = "SUPERSEDED_BY_COMMIT" => trail[p].status = "INVALIDATED"

\* A committed belief cites evidence for a belief of its kind, from the same
\* proposal and episode; and evidence the kernel wrote has its belief right after
\* it ("evidence saying validation passed must not outlive the belief it vouches for").
BeliefCites(i) ==
    LET e == trail[i].evid
    IN  /\ e \in DOMAIN trail
        /\ trail[e].slot = "evidence"
        /\ trail[e].kind = ValidationOf(trail[i].kind)
        /\ trail[e].src = trail[i].src
        /\ trail[e].trace = trail[i].trace

EvidenceVouches ==
    \A i \in DOMAIN trail :
        /\ trail[i].role = "kernel" /\ trail[i].slot = "beliefs" => BeliefCites(i)
        /\ trail[i].slot = "evidence" /\ trail[i].src # NoId =>
             \E b \in CommitsOf(trail[i].src) : trail[b].slot = "beliefs" /\ trail[b].evid = i

\* What the kernel committed is what was proposed: a PROPOSE record of that slot,
\* kind, payload and confidence.
CommitsAreProposals ==
    \A i \in DOMAIN trail : trail[i].mode = "COMMIT" /\ trail[i].slot \in {"beliefs", "actions"} =>
        LET p == trail[i].src
        IN  /\ p \in DOMAIN trail
            /\ trail[p].mode = "PROPOSE"
            /\ trail[i].slot = trail[p].slot
            /\ trail[i].kind = trail[p].kind
            /\ trail[i].body = trail[p].body
            /\ trail[i].conf = trail[p].conf

\* The trail is append-only and a settled record is settled for good: a record
\* never changes but in its status and reason, never becomes ACTIVE again, and
\* keeps the first reason it was invalidated for.
SettledStep ==
    /\ Len(trail) <= Len(trail')
    /\ \A i \in DOMAIN trail :
         /\ [trail'[i] EXCEPT !.status = "ACTIVE", !.reason = "none"]
              = [trail[i] EXCEPT !.status = "ACTIVE", !.reason = "none"]
         /\ trail[i].status = "INVALIDATED" => trail'[i] = trail[i]
         /\ trail'[i].status = "ACTIVE" => trail[i].status = "ACTIVE"

Settled == [][SettledStep]_trail
=============================================================================
