------------------------------ MODULE Validators ------------------------------
(***************************************************************************)
(* The pure part of the kernel: the verdict of each validation on a view   *)
(* of the board.  A view is the set of the ids that current_view listed.   *)
(***************************************************************************)
EXTENDS Blackboard

NoField == "no_field"    \* a constraint without blocks_field
NoType  == "no_type"     \* an action without a type

\* What is wrong with one percept a belief depends on.
PerceptVerdict(rs, v, kind) ==
    LET q == Held(rs, v, "percepts", kind)
    IN  IF q = NoId THEN "MISSING_EVIDENCE"
        ELSE IF rs[q].body.stale THEN "STALE_EVIDENCE"
        ELSE IF rs[q].body.conflict THEN "CONFLICTING_EVIDENCE"
        ELSE "OK"

\* validate_belief_commit stops at the first dependency that fails, `at`.
BeliefVerdict(rs, v, deps) ==
    LET failing == {i \in DOMAIN deps : PerceptVerdict(rs, v, deps[i]) # "OK"}
    IN  IF failing = {} THEN [code |-> "OK", at |-> 0]
        ELSE [code |-> PerceptVerdict(rs, v, deps[Min(failing)]), at |-> Min(failing)]

\* What is wrong with one belief an action or a plan step requires.
RequirementVerdict(rs, v, kind) ==
    LET b == Held(rs, v, "beliefs", kind)
    IN  IF b = NoId THEN "NO_COMMITTED_BELIEF"
        ELSE IF ~rs[b].body.value THEN "BELIEF_NOT_SATISFIED"
        ELSE "OK"

\* Constraint c, the one its kind holds in the view, blocks an action or a step
\* whose fields in `flags` are True.
Blocks(rs, v, c, flags) ==
    /\ c = Held(rs, v, "constraints", rs[c].kind)
    /\ rs[c].body.enabled
    /\ rs[c].body.blocks_field # NoField
    /\ rs[c].body.blocks_field \in flags

\* Mutant: the constraints count only when no belief is required.
ActionVerdict_EarlyOK(rs, v, requires, flags) ==
    LET failing == {i \in DOMAIN requires : RequirementVerdict(rs, v, requires[i]) # "OK"}
    IN  IF failing # {} THEN RequirementVerdict(rs, v, requires[Min(failing)])
        ELSE IF requires # << >> THEN "OK"
        ELSE IF \E c \in Committed(rs, v, "constraints") : Blocks(rs, v, c, flags) THEN "BLOCKED"
        ELSE "OK"

\* validate_action, and the same test on one step of a plan: the required beliefs
\* in their order, then the constraints.
ActionVerdict(rs, v, requires, flags) ==
    LET failing == {i \in DOMAIN requires : RequirementVerdict(rs, v, requires[i]) # "OK"}
    IN  IF failing # {} THEN RequirementVerdict(rs, v, requires[Min(failing)])
        ELSE IF \E c \in Committed(rs, v, "constraints") : Blocks(rs, v, c, flags) THEN "BLOCKED"
        ELSE "OK"

\* validate_plan's names for the verdict on a step.
PlanCode ==
    [NO_COMMITTED_BELIEF  |-> "PLAN_MISSING_BELIEF",
     BELIEF_NOT_SATISFIED |-> "PLAN_BELIEF_NOT_SATISFIED",
     BLOCKED              |-> "PLAN_BLOCKED"]

\* Mutant: only the first step is looked at.
PlanVerdict_FirstStep(rs, v, steps) ==
    LET verdict == ActionVerdict(rs, v, steps[1].requires_beliefs, steps[1].flags)
    IN  IF verdict = "OK" THEN "PLAN_FEASIBLE" ELSE PlanCode[verdict]

\* validate_plan stops at the first step that fails.
PlanVerdict(rs, v, steps) ==
    LET verdict(i) == ActionVerdict(rs, v, steps[i].requires_beliefs, steps[i].flags)
        failing    == {i \in DOMAIN steps : verdict(i) # "OK"}
    IN  IF failing = {} THEN "PLAN_FEASIBLE" ELSE PlanCode[verdict(Min(failing))]

ActionType(r) == IF r.body.type = NoType THEN r.kind ELSE r.body.type

\* Mutant: the kind that appeared last decides.
PredictionFor_LastKind(rs, v, type) ==
    LET made  == Committed(rs, v, "predictions")
        held(i) == Held(rs, v, "predictions", rs[i].kind)
        match == {i \in made : rs[held(i)].body.action_type = type}
    IN  IF match = {} THEN NoId ELSE held(Max(match))

\* The prediction the gate of an action judges: view["predictions"] is walked in
\* the order its kinds first appeared, each kind holding its last payload, up to
\* the first one made for this type of action.
PredictionFor(rs, v, type) ==
    LET made  == Committed(rs, v, "predictions")
        held(i) == Held(rs, v, "predictions", rs[i].kind)
        match == {i \in made : rs[held(i)].body.action_type = type}
    IN  IF match = {} THEN NoId ELSE held(Min(match))

\* Mutant: the outcome of the prediction does not matter.
PredictionVerdict_AnyOutcome(rs, v, type) ==
    IF PredictionFor(rs, v, type) = NoId THEN "NO_PREDICTION" ELSE "OK"

PredictionVerdict(rs, v, type) ==
    LET m == PredictionFor(rs, v, type)
    IN  IF m = NoId THEN "NO_PREDICTION"
        ELSE IF rs[m].body.expected_outcome < 0 THEN "NEGATIVE_PREDICTION"
        ELSE "OK"
=============================================================================
