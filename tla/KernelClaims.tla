----------------------------- MODULE KernelClaims -----------------------------
(***************************************************************************)
(* What the documentation and the comments say of the pipelines and the    *)
(* code does not do.  Each claim is one property, and one run in which TLC *)
(* finds it violated.  AtMostOneCommit, which holds of one kernel, is the  *)
(* last of them: it fails for two kernels that share a store.              *)
(***************************************************************************)
EXTENDS KernelProperties

\* docs/architecture.md: "Every percept in `depends_on` must exist on the
\* blackboard".  The verdict stops at the first failing dependency, and when that
\* one is a conflict that is arbitrated the later ones are never looked at.
EveryDependencyExists ==
    \A c \in CommitsIn("beliefs") : \A k \in DOMAIN recs[c].body.depends_on :
        Before(c, "percepts", recs[c].body.depends_on[k]) # {}

\* docs/architecture.md: "Dependent percepts must have confidence >=
\* `min_confidence`".  The verdict is on the newest percept of a kind, the gate on
\* the oldest: a weak observation hides behind an older, confident one.
StandingPerceptIsConfident ==
    \A c \in CommitsIn("beliefs") : \A k \in DOMAIN recs[c].body.depends_on :
        \A q \in Before(c, "percepts", recs[c].body.depends_on[k]) :
            Standing(c, q) /\ recs[q].conf # NoConf => recs[q].conf >= MinConf

\* docs/architecture.md: "an evidence artifact is committed documenting which
\* checks passed".  The loop that writes "confidence" among the checks asks the
\* store again, and finds a percept that arrived after the gate.
ClaimsOnlyChecksMade ==
    \A e \in DOMAIN recs :
        recs[e].slot = "evidence" /\ recs[e].src # NoId =>
            (recs[e].body.claims => recs[e].body.vetted)

\* docs/architecture.md: "Every belief in `requires_beliefs` must exist as a
\* committed belief".  commit_prediction takes any ACTIVE record of the slot, an
\* unvalidated proposal included.
PredictionsNeedCommittedBeliefs ==
    \A c \in CommitsIn("predictions") :
        \A i \in DOMAIN recs[c].body.requires_beliefs :
            Before(c, "beliefs", recs[c].body.requires_beliefs[i]) # {}
=============================================================================
