------------------------------ MODULE Blackboard ------------------------------
(***************************************************************************)
(* The blackboard every other module reads and writes: the records, who    *)
(* may write which of them, and the queries and updates a store offers.    *)
(*                                                                         *)
(* The board is the sequence of the records in the order they were         *)
(* appended; a record's id is its place in it.  (How the kernel picks a    *)
(* free id string is a matter of its own and is abstracted here.)  Records *)
(* are never removed, so an id stays good.                                 *)
(*                                                                         *)
(* A payload is a record with the fields the kernel looks at, the defaults *)
(* of payload.get(...) filled in.  Time is abstracted: a record with a     *)
(* ttl may become EXPIRED at any moment, which is when the first reader    *)
(* after its deadline marks it.                                            *)
(***************************************************************************)
EXTENDS Integers, Sequences, FiniteSets, FiniteSetsExt

CONSTANTS
    Kinds,      \* the names of percepts, beliefs, constraints, ...
    Traces,     \* the episodes
    Payloads,   \* the payloads the clients write
    MaxConf,    \* the confidence 1.0; a confidence is a step of a scale 0..MaxConf
    Drafts,     \* the records clients may ask `write` to append
    MaxRecs     \* bound on the records when a client writes

ASSUME ScaleAssumption == MaxConf \in Nat

NoConf == -1    \* confidence=None
NoId   == 0     \* no record: None, or the absence of an evidence reference

Slots == {"percepts", "beliefs", "constraints", "plans",
          "evidence", "predictions", "actions"}
Modes == {"PROPOSE", "COMMIT"}
Roles == {"kernel", "tool", "planner", "symbolic_validator",
          "evidence_validator", "sim_validator"}

\* PERMISSIONS as the triples it allows.
Permissions ==
    {<<"tool", "percepts", "COMMIT">>,
     <<"symbolic_validator", "constraints", "COMMIT">>,
     <<"evidence_validator", "evidence", "COMMIT">>,
     <<"sim_validator", "evidence", "COMMIT">>,
     <<"sim_validator", "predictions", "COMMIT">>}
    \cup {<<"planner", s, "PROPOSE">> : s \in {"beliefs", "plans", "actions", "predictions"}}
    \cup {<<"kernel", s, "COMMIT">> : s \in {"beliefs", "actions", "predictions"}}

\* The codes under which a validation refuses; the reason a refused proposal
\* keeps is the text of the same verdict.
Refusals ==
    {"MISSING_EVIDENCE", "STALE_EVIDENCE", "UNRESOLVED_CONFLICT", "LOW_CONFIDENCE",
     "PLAN_MISSING_BELIEF", "PLAN_BELIEF_NOT_SATISFIED", "PLAN_BLOCKED",
     "PREDICTION_MISSING_BELIEF", "NO_PREDICTION", "NEGATIVE_PREDICTION",
     "NO_COMMITTED_BELIEF", "BELIEF_NOT_SATISFIED", "BLOCKED"}

\* The payload of the evidence the kernel writes: `claims` is whether "confidence"
\* is among its "checks".  `vetted` is a history variable: whether the gate did
\* compare a confidence.
Vouchers == [claims : BOOLEAN, vetted : BOOLEAN]

\* The kind of the evidence for a belief, "validation_" and the belief's kind.
ValidationOf(kind) == <<"validation", kind>>

Reasons == Refusals \cup {"none", "TTL_EXPIRED", "SUPERSEDED_BY_COMMIT"}

\* A record.  Two fields are history variables the code does not keep: `src`, the
\* proposal a commit came from (NoId when a client wrote the record), and `since`,
\* the number of records on the board when the commit fetched that proposal.
RecordWith(confidences) ==
    [role : Roles, slot : Slots, mode : Modes,
     kind : Kinds \cup {ValidationOf(k) : k \in Kinds},
     trace : Traces, conf : confidences, ttl : BOOLEAN,
     scope : {"episode", "persistent"}, body : Payloads \cup Vouchers,
     status : {"ACTIVE", "INVALIDATED", "EXPIRED"},
     reason : Reasons, evid : Nat, src : Nat, since : Nat]

Record == RecordWith(NoConf..MaxConf)

\* A proposal whose payload has the lists its pipeline walks.
WellFormed(r) ==
    /\ r.kind \in Kinds
    /\ r.slot = "beliefs" => r.body.depends_on \in Seq(Kinds)
    /\ r.slot = "plans" =>
         r.body.steps \in Seq([requires_beliefs : Seq(Kinds), flags : SUBSET STRING])
    /\ r.slot = "actions" => r.body.requires_beliefs \in Seq(Kinds)

\* Clients write fresh records, of any confidence, and never in the kernel's name.
FreshRecord(r) ==
    /\ r \in RecordWith(Int)
    /\ r.role # "kernel"
    /\ r.mode = "PROPOSE" => WellFormed(r)
    /\ r.status = "ACTIVE" /\ r.reason = "none"
    /\ r.evid = NoId /\ r.src = NoId

ASSUME DraftsAssumption == MaxRecs \in Nat /\ \A d \in Drafts : FreshRecord(d)

-----------------------------------------------------------------------------
\* What `write` accepts.

Permits(r) == <<r.role, r.slot, r.mode>> \in Permissions

\* Mutant: the range test is gone.
ConfidenceOK_Untested(r) == TRUE

ConfidenceOK(r) == r.conf # NoConf => r.conf \in 0..MaxConf

-----------------------------------------------------------------------------
\* The queries of a store.

\* Mutant: the deadline counts for a settled record too.
Active_Any(rs, i) == TRUE

Active(rs, i) == rs[i].status = "ACTIVE"

\* find_active_by_kind: the oldest ACTIVE record of a kind, whatever its mode.
FindActiveByKind(rs, slot, kind, trace) ==
    LET found == {i \in DOMAIN rs : /\ rs[i].slot = slot
                                    /\ rs[i].kind = kind
                                    /\ rs[i].trace = trace
                                    /\ Active(rs, i)}
    IN  IF found = {} THEN NoId ELSE Min(found)

\* The confidence of a record that may not be there.
ConfOf(rs, i) == IF i = NoId THEN NoConf ELSE rs[i].conf

\* Whether current_view may show a record.
Visible(r, trace, includePersistent) ==
    r.trace = trace \/ (includePersistent /\ r.scope = "persistent")

\* The records it takes from one slot when nothing happens meanwhile.
Listed(rs, slot, trace, includePersistent) ==
    {i \in DOMAIN rs : /\ rs[i].slot = slot
                       /\ Active(rs, i)
                       /\ Visible(rs[i], trace, includePersistent)}

\* view[slot] is a dict from kind to payload: among the committed records of a
\* kind that a view lists the last one wins.  Committed(rs, v, slot) are the
\* records that may, Held(rs, v, slot, kind) the one that did.
Committed(rs, v, slot) == {i \in v : rs[i].slot = slot /\ rs[i].mode = "COMMIT"}

\* Mutant: the first record of a kind wins.
Held_First(rs, v, slot, kind) ==
    LET writers == {i \in Committed(rs, v, slot) : rs[i].kind = kind}
    IN  IF writers = {} THEN NoId ELSE Min(writers)

Held(rs, v, slot, kind) ==
    LET writers == {i \in Committed(rs, v, slot) : rs[i].kind = kind}
    IN  IF writers = {} THEN NoId ELSE Max(writers)

-----------------------------------------------------------------------------
\* The updates of a store.

\* Mutant: the reason is not recorded.
Invalidate_Silently(rs, i, why) == [rs EXCEPT ![i].status = "INVALIDATED"]

\* invalidate: whatever the record's status was.
Invalidate(rs, i, why) ==
    [rs EXCEPT ![i].status = "INVALIDATED", ![i].reason = why]

\* _check_ttl past the deadline.
ExpireRecord(rs, i) ==
    [rs EXCEPT ![i].status = "EXPIRED", ![i].reason = "TTL_EXPIRED"]

\* Mutants: the evidence is not cited; the confidence is not passed on.
CommittedFrom_Uncited(rs, p, trace, evid, since) ==
    [role |-> "kernel", slot |-> rs[p].slot, mode |-> "COMMIT", kind |-> rs[p].kind,
     trace |-> trace, conf |-> rs[p].conf, ttl |-> FALSE, scope |-> "episode",
     body |-> rs[p].body, status |-> "ACTIVE", reason |-> "none",
     evid |-> NoId, src |-> p, since |-> since]
CommittedFrom_Unsure(rs, p, trace, evid, since) ==
    [CommittedFrom_Uncited(rs, p, trace, evid, since) EXCEPT !.conf = NoConf, !.evid = evid]

\* The record a commit writes for proposal p: its payload, kind and confidence,
\* without its ttl and its scope.
CommittedFrom(rs, p, trace, evid, since) ==
    [role |-> "kernel", slot |-> rs[p].slot, mode |-> "COMMIT", kind |-> rs[p].kind,
     trace |-> trace, conf |-> rs[p].conf, ttl |-> FALSE, scope |-> "episode",
     body |-> rs[p].body, status |-> "ACTIVE", reason |-> "none",
     evid |-> evid, src |-> p, since |-> since]

\* The evidence a belief commit writes for proposal p.
EvidenceFor(rs, p, trace, voucher, since) ==
    [role |-> "evidence_validator", slot |-> "evidence", mode |-> "COMMIT",
     kind |-> ValidationOf(rs[p].kind), trace |-> trace, conf |-> NoConf,
     ttl |-> FALSE, scope |-> "episode", body |-> voucher,
     status |-> "ACTIVE", reason |-> "none",
     evid |-> NoId, src |-> p, since |-> since]
=============================================================================
