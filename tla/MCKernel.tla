------------------------------- MODULE MCKernel -------------------------------
(***************************************************************************)
(* Instances of the kernel for TLC: what clients write, in the cast of the *)
(* documentation's refund case, and the sizes.                             *)
(***************************************************************************)
EXTENDS KernelClaims, TLC

CONSTANTS photo, claim, refund, limit, ep1, t1, t2, k1, k2

\* The fields every fresh record starts with.
Fresh == [conf |-> NoConf, ttl |-> FALSE, scope |-> "episode",
          status |-> "ACTIVE", reason |-> "none",
          evid |-> NoId, src |-> NoId, since |-> 0]

Draft(role, slot, mode, kind, body) ==
    [role |-> role, slot |-> slot, mode |-> mode, kind |-> kind,
     trace |-> ep1, body |-> body] @@ Fresh

Percept(kind, stale, conflict, conf) ==
    [Draft("tool", "percepts", "COMMIT", kind, [stale |-> stale, conflict |-> conflict])
        EXCEPT !.conf = conf]

Belief(kind, deps, value) ==
    Draft("planner", "beliefs", "PROPOSE", kind, [value |-> value, depends_on |-> deps])

Constraint(kind, enabled, field) ==
    Draft("symbolic_validator", "constraints", "COMMIT", kind,
          [enabled |-> enabled, blocks_field |-> field])

Plan(kind, steps) == Draft("planner", "plans", "PROPOSE", kind, [steps |-> steps])

Prediction(role, mode, kind, type, outcome, requires) ==
    Draft(role, "predictions", mode, kind,
          [action_type |-> type, expected_outcome |-> outcome, requires_beliefs |-> requires])

Action(kind, type, requires, flags) ==
    Draft("planner", "actions", "PROPOSE", kind,
          [type |-> type, requires_beliefs |-> requires, flags |-> flags])

Expiring(r) == [r EXCEPT !.ttl = TRUE]

-----------------------------------------------------------------------------
\* Two dependencies, each with good, bad and weak percepts; a percept no scale
\* holds and a commit no planner may make, which `write` turns away.
BeliefDrafts ==
    {Belief(refund, <<photo, claim>>, TRUE),
     Percept(photo, FALSE, FALSE, 2), Percept(photo, FALSE, TRUE, 2), Percept(photo, FALSE, FALSE, 0),
     Percept(photo, FALSE, FALSE, MaxConf + 1),
     Percept(claim, TRUE, FALSE, NoConf), Expiring(Percept(claim, FALSE, FALSE, 1)),
     Draft("planner", "beliefs", "COMMIT", refund, [value |-> TRUE, depends_on |-> << >>])}

\* A proposal that may expire, one that depends on what becomes of it, and a
\* percept that decides it.
ContendedDrafts ==
    {Expiring(Belief(refund, <<photo>>, TRUE)),
     Percept(photo, FALSE, FALSE, 2), Percept(photo, TRUE, FALSE, NoConf),
     Prediction("planner", "PROPOSE", claim, refund, 1, <<refund>>)}

\* A plan and two actions, and the beliefs, constraints and predictions that
\* decide them.
DecisionDrafts ==
    {Belief(refund, << >>, TRUE), Belief(refund, << >>, FALSE),
     Constraint(limit, TRUE, "large"), Constraint(limit, FALSE, "large"),
     Prediction("sim_validator", "COMMIT", claim, refund, 0, << >>),
     Prediction("sim_validator", "COMMIT", refund, refund, -1, << >>),
     Prediction("planner", "PROPOSE", claim, refund, -1, <<refund>>),
     Action(refund, NoType, <<refund>>, {"large"}), Action(refund, NoType, << >>, {"large"}),
     Plan(refund, <<[requires_beliefs |-> <<refund>>, flags |-> {}],
                    [requires_beliefs |-> << >>, flags |-> {"large"}]>>)}

\* One proposal of each kind that needs nothing.
PlainDrafts ==
    {Belief(refund, <<photo>>, TRUE), Percept(photo, FALSE, FALSE, 2),
     Action(refund, refund, << >>, {})}

\* The smallest casts in which the documented claims fail.
ConflictDrafts  == {Belief(refund, <<photo, claim>>, TRUE), Percept(photo, FALSE, TRUE, 2)}
WeakDrafts      == {Belief(refund, <<photo>>, TRUE),
                    Percept(photo, FALSE, FALSE, 2), Percept(photo, FALSE, FALSE, 0)}
LateDrafts      == {Belief(refund, <<photo>>, TRUE),
                    Expiring(Percept(photo, FALSE, FALSE, NoConf)), Percept(photo, FALSE, FALSE, 2)}
NeedyDrafts     == {Belief(refund, << >>, TRUE),
                    Prediction("planner", "PROPOSE", claim, refund, 1, <<refund>>)}

MCPayloads ==
    {d.body : d \in BeliefDrafts \cup ContendedDrafts \cup DecisionDrafts \cup PlainDrafts}

OneHome  == [t \in Threads |-> k1]
TwoHomes == [t \in Threads |-> IF t = t1 THEN k1 ELSE k2]
Symmetry == Permutations(Threads)
=============================================================================
