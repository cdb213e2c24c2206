--------------------------- MODULE EpisodeProperties ---------------------------
(***************************************************************************)
(* What the demo as a whole must do: from one reading to the alert or the  *)
(* review it leads to, and from the failures of some episodes to the       *)
(* constraints of later ones, whichever store calls fail and whenever the  *)
(* process is restarted.                                                   *)
(***************************************************************************)
EXTENDS Episodes

\* The records of an episode in one slot and mode, and the committed ones of a kind.
Of(trace, slot, mode) ==
    {i \in DOMAIN recs : recs[i].trace = trace /\ recs[i].slot = slot /\ recs[i].mode = mode}

CommittedAs(trace, slot, kind) == {i \in Of(trace, slot, "COMMIT") : recs[i].kind = kind}

\* The proposals refused for a reason.
RefusedFor(why) == {f \in DOMAIN recs : recs[f].mode = "PROPOSE" /\ recs[f].reason = why}

\* A run has come to its end without an exception.
Completed == stage = "between" /\ episode > 0 /\ ~errors

\* What the demo does to the board are steps of its kernel, under the kernel's own
\* rules for threads, locks and transactions (the workers go through kernel.write
\* and the pipelines only, whatever fails and whenever the process is restarted).
UsesKernel == Spec

\* No alert without its grounds, in its own episode: a reading that is not stale,
\* is confident enough, and is in conflict only above the arbitration threshold;
\* the belief and the favourable prediction made of it, in that order.
AlertsAreGrounded ==
    \A a \in DOMAIN recs : recs[a].mode = "COMMIT" /\ recs[a].slot = "actions" /\ recs[a].kind = alert =>
        LET tr == recs[a].trace
        IN  \E p \in CommittedAs(tr, "percepts", temperature),
               b \in CommittedAs(tr, "beliefs", anomaly_detected),
               f \in CommittedAs(tr, "predictions", PredKind(alert)) :
                 /\ p < b /\ b < f /\ f < a
                 /\ ~recs[p].body.stale
                 /\ recs[p].conf >= (IF recs[p].body.conflict THEN ArbConf ELSE MinConf)
                 /\ recs[f].body.expected_outcome >= 0
                 /\ \E n \in DOMAIN Rules :
                      /\ Rules[n].expected_outcome >= 0
                      /\ MeetsConditions(recs[p].body, Rules[n].percept_conditions[temperature])

\* The reading is good evidence: not stale, and confident enough, in conflict or not.
GoodEvidence ==
    ~reading.stale /\ reading.conf >= (IF reading.conflict THEN ArbConf ELSE MinConf)

\* What a percept of reading r says meets the conditions of rule n.
Meets(r, n) == MeetsConditions(Payload(r), Rules[n].percept_conditions[temperature])

\* Some rule makes a favourable prediction of the reading.
Promised == \E n \in DOMAIN Rules : Rules[n].expected_outcome >= 0 /\ Meets(reading, n)

\* Rules and thresholds like those of the demo: a rule is about alerts and asks for the
\* belief and a temperature, rules that one reading meets do not contradict each other,
\* and a conflict is not easier to override than no conflict.
DemoRules ==
    /\ MinConf <= ArbConf
    /\ \A n \in DOMAIN Rules :
         /\ Rules[n].action_type = alert /\ Rules[n].requires_beliefs = <<anomaly_detected>>
         /\ DOMAIN Rules[n].belief_conditions = {}
         /\ DOMAIN Rules[n].percept_conditions = {temperature}
    /\ \A k \in DOMAIN Readings : \A r \in Readings[k] : \A m, n \in DOMAIN Rules :
         Meets(r, m) /\ Meets(r, n) =>
            (Rules[m].expected_outcome >= 0 <=> Rules[n].expected_outcome >= 0)

\* An episode without an exception is decided by its reading alone: believed if the
\* reading is good evidence, and then exactly one action, the alert if the rules
\* promise a favourable outcome and otherwise the review.  Nothing is left proposed.
EpisodeDecided ==
    Completed =>
        /\ CommittedAs(Trace, "beliefs", anomaly_detected) # {} <=> GoodEvidence
        /\ Cardinality(Of(Trace, "actions", "COMMIT")) = IF GoodEvidence THEN 1 ELSE 0
        /\ CommittedAs(Trace, "actions", alert) # {} <=> GoodEvidence /\ Promised
        /\ \A slot \in Slots : \A i \in Of(Trace, slot, "PROPOSE") : ~Active(recs, i)

\* A store call that raises costs an episode no more than the proposal it had in hand:
\* a step that raised is not tried again (the one-shot flags are set before the
\* work, and the others go on with the view they had), no episode acts twice, and
\* every other proposal has its verdict.
FaultsContained ==
    /\ \A trace \in Traces : Cardinality(Of(trace, "actions", "COMMIT")) <= 1
    /\ stage = "between" =>
         Cardinality({i \in DOMAIN recs : recs[i].mode = "PROPOSE" /\ Active(recs, i)}) <= faults

\* A run without an exception stops because nobody has anything left to do on the
\* board as it is, not because a worker judged by an old view, and long before
\* max_rounds ("the loop stops at quiescence").
RunsEndQuiet == Completed => Wanting = {} /\ round < MaxRounds

\* A constraint is learned only from failures that are on the board, as many of its
\* kind as the threshold asks for, and all from before the episode that wrote it.
LessonsHaveCauses ==
    \A base \in BaseReasons : \A i \in DOMAIN recs : recs[i].kind = Lesson(base) =>
        Cardinality({f \in RefusedFor(base) : f < i /\ recs[f].trace # recs[i].trace}) >= threshold

\* What was learned is not lost: once a process has scanned the board, a pattern it
\* found is on the board as a constraint or waits in the queue, also when the step
\* that writes the queue raised.
NothingForgotten ==
    stage = "between" /\ lap > 1 =>
        \A base \in BaseReasons :
            LET causes == {f \in RefusedFor(base) : recs[f].trace # Trace}
            IN  causes # {} /\ Cardinality(causes) >= threshold
                => \/ base \in queued
                   \/ \E i \in DOMAIN recs : recs[i].kind = Lesson(base)

\* A constraint is written again only by a process that was restarted, or by a step
\* that raised before it emptied its queue: once, and once more for every fault.
LessonsNotRepeated ==
    \A base \in BaseReasons :
        Cardinality({i \in DOMAIN recs : recs[i].kind = Lesson(base)}) <= 1 + faults

\* Every run that is begun comes to its end.
RunsEnd == stage # "between" ~> stage = "between"
=============================================================================
