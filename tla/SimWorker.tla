------------------------------- MODULE SimWorker -------------------------------
(***************************************************************************)
(* The pure part of SimulatorWorker: when a declarative rule matches a     *)
(* view, and which rules a step goes on to predict from.  A view is the    *)
(* set of the ids that current_view listed; it stays what it was while the *)
(* worker's own predictions change the board.                              *)
(*                                                                         *)
(* A rule is a record of the fields of SimRule: requires_beliefs, and the  *)
(* conditions, functions from a kind to a set of [field, op, value] (the   *)
(* key "value__gt" is the field "value" and the operator "gt"; a key that  *)
(* is a field alone has the operator "eq").                                *)
(***************************************************************************)
EXTENDS Validators

AreConditions(c) ==
    \A kind \in DOMAIN c : c[kind] \subseteq [field : STRING, op : STRING, value : Int]

IsSimRule(r) ==
    /\ r.action_type \in Kinds /\ r.expected_outcome \in Int
    /\ r.requires_beliefs \in Seq(Kinds)
    /\ AreConditions(r.percept_conditions) /\ AreConditions(r.belief_conditions)
    /\ r.confidence \in 0..MaxConf

\* The kind of the predictions about a type of action, f"pred_{action_type}".
PredKind(type) == <<"pred", type>>

\* _OPS, and the equality; an operator of another name never holds.
Holds(op, actual, expected) ==
    \/ op \in {"eq", "gte", "lte"} /\ actual = expected
    \/ op = "ne" /\ actual # expected
    \/ op \in {"gt", "gte"} /\ actual > expected
    \/ op \in {"lt", "lte"} /\ actual < expected

\* _check_conditions: a field the payload lacks meets no condition.
MeetsConditions(payload, conditions) ==
    \A c \in conditions :
        c.field \in DOMAIN payload /\ Holds(c.op, payload[c.field], c.value)

\* The conditions of a rule on one slot of the view.
SlotMeets(rs, v, slot, conditions) ==
    \A kind \in DOMAIN conditions :
        LET held == Held(rs, v, slot, kind)
        IN  held # NoId /\ MeetsConditions(rs[held].body, conditions[kind])

\* evaluate_rule: whether it returns the rule's expected_outcome.
RuleMatches(rs, v, rule) ==
    /\ \A i \in DOMAIN rule.requires_beliefs : Held(rs, v, "beliefs", rule.requires_beliefs[i]) # NoId
    /\ SlotMeets(rs, v, "beliefs", rule.belief_conditions)
    /\ SlotMeets(rs, v, "percepts", rule.percept_conditions)

\* should_activate: anything in view["beliefs"] will do, its _proposals included.
SimulatorWants(rs, v) == \E i \in v : rs[i].slot = "beliefs"

\* The rules, from the one numbered `from` on, that step proposes a prediction for.
Firing(rs, v, rules, from) ==
    {n \in from..Len(rules) :
        /\ Held(rs, v, "predictions", PredKind(rules[n].action_type)) = NoId
        /\ RuleMatches(rs, v, rules[n])}

\* What step writes for a rule.
PredictionFrom(rule, trace) ==
    [role |-> "planner", slot |-> "predictions", mode |-> "PROPOSE",
     kind |-> PredKind(rule.action_type), trace |-> trace, conf |-> rule.confidence,
     ttl |-> FALSE, scope |-> "episode",
     body |-> [action_type |-> rule.action_type, expected_outcome |-> rule.expected_outcome,
               requires_beliefs |-> rule.requires_beliefs],
     status |-> "ACTIVE", reason |-> "none", evid |-> NoId, src |-> NoId, since |-> 0]
=============================================================================
