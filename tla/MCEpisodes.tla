------------------------------ MODULE MCEpisodes ------------------------------
(***************************************************************************)
(* A small instance of the monitoring demo for TLC: its two rules, with    *)
(* temperatures at and above the bound of 90.                              *)
(***************************************************************************)
EXTENDS EpisodeProperties

CONSTANTS ep1, ep2, ep3, main, k1

MCTraceIds == <<ep1, ep2, ep3>>

Above(op) == [k \in {temperature} |-> {[field |-> "value", op |-> op, value |-> 90]}]

MCRules ==
    <<[action_type |-> alert, expected_outcome |-> 2, requires_beliefs |-> <<anomaly_detected>>,
       percept_conditions |-> Above("gt"), belief_conditions |-> << >>, confidence |-> 2],
      [action_type |-> alert, expected_outcome |-> -1, requires_beliefs |-> <<anomaly_detected>>,
       percept_conditions |-> Above("lte"), belief_conditions |-> << >>, confidence |-> 1]>>

\* They are rules the outcome of an episode can be proved for.
ASSUME MCRulesAssumption == DemoRules

Good     == [value |-> 91, stale |-> FALSE, conflict |-> FALSE, conf |-> 1]
Cool     == [Good EXCEPT !.value = 90]
Stale    == [Good EXCEPT !.stale = TRUE]
Weak     == [Good EXCEPT !.conf = 0]
Disputed == [Good EXCEPT !.conflict = TRUE]
Arbitrated == [Good EXCEPT !.conflict = TRUE, !.conf = 2]

MCReadings == <<{Stale, Arbitrated}, {Stale, Cool, Weak}, {Good, Disputed}>>

MCHome == [t \in Threads |-> k1]

\* The kinds: the names the demo uses, and those made of them.
MCKinds == {temperature, anomaly_detected, alert, queue_for_review, PredKind(alert)}
           \cup {Lesson(base) : base \in BaseReasons}

MCPayloads == {d.body : d \in DemoDrafts}
=============================================================================
