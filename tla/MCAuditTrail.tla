----------------------------- MODULE MCAuditTrail -----------------------------
(***************************************************************************)
(* A small instance of the audit trail and its views for TLC: proposals,   *)
(* one of which may expire, a client's evidence that other episodes may    *)
(* see, and a commit no planner may make.                                  *)
(***************************************************************************)
EXTENDS CurrentView

CONSTANTS refund, ep1, ep2

Draft(role, slot, mode, ttl, body) ==
    [role |-> role, slot |-> slot, mode |-> mode, kind |-> refund, trace |-> ep1,
     conf |-> NoConf, ttl |-> ttl, scope |-> "episode", body |-> body,
     status |-> "ACTIVE", reason |-> "none", evid |-> NoId, src |-> NoId, since |-> 0]

Weight(n) == [weight |-> n, depends_on |-> << >>, requires_beliefs |-> << >>]

MCDrafts ==
    {Draft("planner", "beliefs", "PROPOSE", TRUE, Weight(1)),
     [Draft("planner", "actions", "PROPOSE", FALSE, Weight(2)) EXCEPT !.conf = 1],
     [Draft("evidence_validator", "evidence", "COMMIT", FALSE, Weight(3))
        EXCEPT !.kind = ValidationOf(refund), !.trace = ep2, !.scope = "persistent"],
     Draft("planner", "beliefs", "COMMIT", FALSE, Weight(1)),
     [Draft("tool", "percepts", "COMMIT", TRUE, Weight(1)) EXCEPT !.conf = MaxConf + 1]}

\* A view without the persistent records is this one less those of other episodes.
MCViewCalls == [trace : {ep1}, includePersistent : {TRUE}]

MCPayloads == {Weight(n) : n \in 1..3}
=============================================================================
