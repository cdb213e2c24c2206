---------------------------- MODULE AdaptiveWorker ----------------------------
(***************************************************************************)
(* The pure part of AdaptiveWorker: which refusals on the board it takes   *)
(* for failures of a kind, and which constraints it learns from them.      *)
(*                                                                         *)
(* A reason on the board is the code of a verdict and stands for its text. *)
(* _base_reason searches the text for a word of a base reason.  The text   *)
(* of a verdict under one of the codes below has that word; what the       *)
(* kernel writes of the other verdicts has none of its own, and then the   *)
(* text is counted under itself and teaches nothing.  But the texts also   *)
(* quote kinds and names, and those are taken to be free of the words:     *)
(* `Constraint 'block_stale_actions' blocks action` would count as         *)
(* STALE_EVIDENCE.  The demo's kinds are, and its actions have no field    *)
(* that a constraint could block.                                          *)
(***************************************************************************)
EXTENDS Blackboard

\* _DEFAULT_REASON_TO_CONSTRAINT: for each base reason the name of the constraint
\* and the field of an action that it blocks.
ReasonToConstraint ==
    [STALE_EVIDENCE      |-> [name |-> "block_stale_actions", blocks |-> "uses_stale_data"],
     UNRESOLVED_CONFLICT |-> [name |-> "block_conflicted_actions", blocks |-> "uses_conflicted_data"],
     LOW_CONFIDENCE      |-> [name |-> "block_low_confidence_actions",
                              blocks |-> "uses_low_confidence_data"],
     NEGATIVE_PREDICTION |-> [name |-> "block_negative_predictions",
                              blocks |-> "has_negative_prediction"]]

BaseReasons == DOMAIN ReasonToConstraint

\* The name of the constraint, as a kind of record.
Lesson(base) == <<"learned", ReasonToConstraint[base].name>>

\* The slots analyze scans, all episodes of them.
Scanned == {"beliefs", "actions", "plans", "predictions"}

\* The refusals of a base reason.
Failures(rs, base) ==
    {i \in DOMAIN rs : /\ rs[i].slot \in Scanned
                       /\ rs[i].status = "INVALIDATED"
                       /\ rs[i].reason = base}

\* Mutant: one failure less will do.
Patterns_Early(rs, often) ==
    {base \in BaseReasons : /\ Failures(rs, base) # {}
                            /\ Cardinality(Failures(rs, base)) >= often - 1}

\* The base reasons that were met, and often enough: `counts` has no others.
Patterns(rs, often) ==
    {base \in BaseReasons : /\ Failures(rs, base) # {}
                            /\ Cardinality(Failures(rs, base)) >= often}

\* Mutant: what was emitted is queued again.
Learned_Again(rs, often, before) == Patterns(rs, often)

\* What analyze queues; `before` has the constraints this worker has written.
Learned(rs, often, before) == Patterns(rs, often) \ before

\* What step writes for a queued constraint.
LessonRecord(base, trace) ==
    [role |-> "symbolic_validator", slot |-> "constraints", mode |-> "COMMIT",
     kind |-> Lesson(base), trace |-> trace, conf |-> NoConf,
     ttl |-> FALSE, scope |-> "persistent",
     body |-> [enabled |-> TRUE, blocks_field |-> ReasonToConstraint[base].blocks],
     status |-> "ACTIVE", reason |-> "none", evid |-> NoId, src |-> NoId, since |-> 0]
=============================================================================
