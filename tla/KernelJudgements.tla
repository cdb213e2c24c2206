--------------------------- MODULE KernelJudgements ---------------------------
(***************************************************************************)
(* Proofs that a commit, and an answer, of the kernel is justified, for    *)
(* any number of kernels and threads and whatever is written, expires or   *)
(* fails while it is being judged.  What a call has found out is stated    *)
(* of the board alone, in a form that later boards keep: then no step of   *)
(* another thread can undo it, and it still holds when the commit lands.   *)
(***************************************************************************)
EXTENDS KernelProofs

-----------------------------------------------------------------------------
\* What is known of the first n records of board rs for x, a call or the commit it
\* makes: both have a `trace` and a `since`.

\* The committed records of a kind.
Prior(rs, n, x, slot, kind) ==
    {i \in 1..n : /\ rs[i].slot = slot /\ rs[i].kind = kind
                  /\ rs[i].mode = "COMMIT" /\ rs[i].trace = x.trace}

\* Record q has been the last of its kind since x fetched its proposal.
Stood(rs, n, x, q) ==
    /\ q <= x.since
    /\ ~rs[q].ttl
    /\ \A i \in Prior(rs, n, x, rs[q].slot, rs[q].kind) : i <= q

\* The dependencies before the k-th have no percept in conflict.
CalmBefore(rs, n, x, deps, k) ==
    \A m \in 1..(k - 1) : \A i \in Prior(rs, n, x, "percepts", deps[m]) : ~rs[i].body.conflict

Observed(rs, n, x, kind) ==
    /\ Prior(rs, n, x, "percepts", kind) # {}
    /\ \A q \in Prior(rs, n, x, "percepts", kind) : Stood(rs, n, x, q) => ~rs[q].body.stale

Arbitrated(rs, n, x, kind) ==
    \A q \in Prior(rs, n, x, "percepts", kind) :
        Stood(rs, n, x, q) /\ rs[q].body.conflict =>
            \E i \in Prior(rs, n, x, "percepts", kind) : rs[i].conf >= ArbConf

\* The dependencies deps are judged, but for the arbitration of the open-th.
DepsJudged(rs, n, x, deps, open) ==
    \A k \in DOMAIN deps : CalmBefore(rs, n, x, deps, k) =>
        /\ Observed(rs, n, x, deps[k])
        /\ k # open => Arbitrated(rs, n, x, deps[k])

\* Not every percept of a kind is below min_confidence, unless all are late or expire.
Weighed(rs, n, x, kind) ==
    ~(/\ \E q \in Prior(rs, n, x, "percepts", kind) : q <= x.since /\ ~rs[q].ttl
      /\ \A i \in Prior(rs, n, x, "percepts", kind) : rs[i].conf \in 0..(MinConf - 1))

Satisfied(rs, n, x, requires) ==
    \A i \in DOMAIN requires :
        \E b \in Prior(rs, n, x, "beliefs", requires[i]) : rs[b].body.value

Unblocked(rs, n, x, flags) ==
    \A q \in 1..n :
        /\ rs[q].slot = "constraints" /\ rs[q].trace = x.trace
        /\ Stood(rs, n, x, q)
        => ~(rs[q].body.enabled /\ rs[q].body.blocks_field \in flags \ {NoField})

\* A prediction permits action r.
Foretold(rs, n, x, r) ==
    \E i \in 1..n :
        /\ rs[i].slot = "predictions" /\ rs[i].mode = "COMMIT" /\ rs[i].trace = x.trace
        /\ rs[i].body.action_type = ActionType(r)
        /\ ~(rs[i].body.expected_outcome < 0)

\* The predictions of the episode, and those that lead the view with their kind.
Forecasts(rs, n, x) ==
    {i \in 1..n : /\ rs[i].slot = "predictions" /\ rs[i].mode = "COMMIT"
                  /\ rs[i].trace = x.trace}

Foremost(rs, n, x, i) ==
    /\ i <= x.since
    /\ ~rs[i].ttl
    /\ \A other \in Forecasts(rs, n, x) : rs[other].kind # rs[i].kind => i < other

\* No prediction that stood as the last of the leading kind advises against r.
Unwarned(rs, n, x, r) ==
    \A q, i \in Forecasts(rs, n, x) :
        /\ rs[i].kind = rs[q].kind
        /\ Foremost(rs, n, x, i)
        /\ rs[q].body.action_type = ActionType(r)
        /\ Stood(rs, n, x, q)
        => ~(rs[q].body.expected_outcome < 0)

-----------------------------------------------------------------------------
\* What a call knows at each place of its pipeline.

\* The slots of the view that have been listed.
Walked(label, j) ==
    {Consulted[j.op][k] : k \in IF label = "view" THEN 1..(j.pos - 1)
                                ELSE DOMAIN Consulted[j.op]}

\* The view has what cannot have left the board since the proposal was fetched.
Caught(rs, j, slot) ==
    \A q \in 1..j.since :
        /\ rs[q].slot = slot /\ rs[q].mode = "COMMIT"
        /\ rs[q].trace = j.trace /\ ~rs[q].ttl
        => q \in j.view

\* The places after the verdict, by what the verdict was on.
Vetted  == {"claims", "begin"} \cup Writing
Cleared == {"begin"} \cup Writing

KnowsView(rs, label, j) ==
    /\ label \in {"acquire", "fetch"} => j.view = {} /\ j.pos = 1
    /\ label \in Pending =>
         /\ \A i \in j.view : i \in DOMAIN rs /\ rs[i].trace = j.trace
         /\ \A slot \in Walked(label, j) : Caught(rs, j, slot)
    /\ label = "view" => j.pos \in DOMAIN Consulted[j.op]
    /\ label = "judge" => j.pos = 1
    /\ label = "needs" => j.op = "prediction"
    /\ j.need => j.op = "action"

KnowsBelief(rs, label, j) ==
    j.op = "belief" =>
        LET deps == rs[j.prop].body.depends_on
            n    == Len(rs)
        IN  /\ label = "arbitrate" =>
                 j.pos \in DOMAIN deps /\ DepsJudged(rs, n, j, deps, j.pos)
            /\ label = "gate" =>
                 /\ j.pos \in DOMAIN deps /\ DepsJudged(rs, n, j, deps, 0)
                 /\ \A k \in 1..(j.pos - 1) : Weighed(rs, n, j, deps[k])
            /\ label \in Vetted =>
                 /\ DepsJudged(rs, n, j, deps, 0)
                 /\ \A k \in DOMAIN deps : Weighed(rs, n, j, deps[k])

KnowsAction(rs, label, j) ==
    j.op = "action" /\ label \in Cleared =>
        LET r == rs[j.prop]
            n == Len(rs)
        IN  /\ Satisfied(rs, n, j, r.body.requires_beliefs)
            /\ Unblocked(rs, n, j, r.body.flags)
            /\ j.need => Foretold(rs, n, j, r) /\ Unwarned(rs, n, j, r)

\* The answer of a call that is about to return.
KnowsAnswer(rs, label, j) ==
    label = "return" =>
        /\ j.code = "COMMITTED" =>
             \E c \in DOMAIN rs :
                /\ rs[c].role = "kernel" /\ rs[c].src = j.prop /\ rs[c].trace = j.trace
                /\ rs[c].since \in 0..(c - 1)
                /\ j.need => Foretold(rs, c - 1, j, rs[c]) /\ Unwarned(rs, c - 1, rs[c], rs[c])
        /\ j.code = "PLAN_FEASIBLE" =>
             /\ j.prop \in DOMAIN rs /\ j.since \in 0..Len(rs)
             /\ \A s \in DOMAIN rs[j.prop].body.steps :
                  LET step == rs[j.prop].body.steps[s]
                  IN  /\ Satisfied(rs, Len(rs), j, step.requires_beliefs)
                      /\ Unblocked(rs, Len(rs), j, step.flags)

Knows(rs, label, j) ==
    /\ KnowsView(rs, label, j)
    /\ KnowsBelief(rs, label, j)
    /\ KnowsAction(rs, label, j)
    /\ KnowsAnswer(rs, label, j)

-----------------------------------------------------------------------------
\* What holds of the board.

\* Percepts and constraints are never proposed, and what is committed leaves the
\* board only by its deadline.
StandsOrExpires(rs) ==
    \A i \in DOMAIN rs :
        /\ rs[i].slot \in {"percepts", "constraints"} => rs[i].mode = "COMMIT"
        /\ rs[i].mode = "COMMIT" /\ ~rs[i].ttl => rs[i].status = "ACTIVE"

\* A commit is what its call knew when it was written.
Justified(rs, c) ==
    rs[c].role = "kernel" =>
        /\ rs[c].since < c
        /\ rs[c].slot = "beliefs" =>
             LET deps == rs[c].body.depends_on
             IN  /\ deps \in Seq(Kinds)
                 /\ DepsJudged(rs, c - 1, rs[c], deps, 0)
                 /\ \A k \in DOMAIN deps : Weighed(rs, c - 1, rs[c], deps[k])
        /\ rs[c].slot = "actions" =>
             /\ Satisfied(rs, c - 1, rs[c], rs[c].body.requires_beliefs)
             /\ Unblocked(rs, c - 1, rs[c], rs[c].body.flags)

\* The invariant: what calls know is true of the board, and what is on it was known.
Known ==
    /\ StandsOrExpires(recs)
    /\ \A c \in DOMAIN recs : Justified(recs, c)
    /\ \A t \in Threads : Knows(recs, pc[t], job[t])

-----------------------------------------------------------------------------
\* What is known stays known: boards rs and new, of which the first n records of the
\* one are among the first m of the other, and x and y of one call.
Later(rs, n, x, new, m, y) ==
    /\ n \in Nat /\ m \in Nat /\ n <= m
    /\ \A i \in 1..n : Kept(rs[i], new[i])
    /\ x.since \in 0..n
    /\ y.since = x.since /\ y.trace = x.trace

LEMMA PriorGrows ==
    ASSUME NEW rs, NEW n, NEW x, NEW new, NEW m, NEW y, Later(rs, n, x, new, m, y),
           NEW slot, NEW kind
    PROVE  /\ Prior(rs, n, x, slot, kind) \subseteq Prior(new, m, y, slot, kind)
           /\ \A i \in Prior(new, m, y, slot, kind) : i <= n => i \in Prior(rs, n, x, slot, kind)
           /\ \A i \in Prior(rs, n, x, slot, kind) : i \in 1..n /\ Kept(rs[i], new[i])
BY DEF Later, Prior, Kept

LEMMA StoodBefore ==
    ASSUME NEW rs, NEW n, NEW x, NEW new, NEW m, NEW y, Later(rs, n, x, new, m, y),
           NEW q \in 1..m, Stood(new, m, y, q)
    PROVE  q \in 1..n /\ Kept(rs[q], new[q]) /\ Stood(rs, n, x, q)
  <1>1. q \in 1..n /\ Kept(rs[q], new[q])
    BY DEF Later, Stood
  <1>2. rs[q].slot = new[q].slot /\ rs[q].kind = new[q].kind /\ rs[q].ttl = new[q].ttl
    BY <1>1 DEF Kept
  <1>3. q <= x.since
    BY DEF Later, Stood
  <1> QED
    BY <1>1, <1>2, <1>3, PriorGrows DEF Stood

LEMMA DepsJudgedLater ==
    ASSUME NEW rs, NEW n, NEW x, NEW new, NEW m, NEW y, Later(rs, n, x, new, m, y),
           NEW deps, NEW open, DepsJudged(rs, n, x, deps, open)
    PROVE  DepsJudged(new, m, y, deps, open)
  <1> SUFFICES ASSUME NEW k \in DOMAIN deps, CalmBefore(new, m, y, deps, k)
               PROVE  /\ Observed(new, m, y, deps[k])
                      /\ k # open => Arbitrated(new, m, y, deps[k])
    BY DEF DepsJudged
  <1>1. CalmBefore(rs, n, x, deps, k)
    BY PriorGrows DEF CalmBefore, Kept
  <1>2. Observed(rs, n, x, deps[k]) /\ (k # open => Arbitrated(rs, n, x, deps[k]))
    BY <1>1 DEF DepsJudged
  <1>3. ASSUME NEW q \in Prior(new, m, y, "percepts", deps[k]), Stood(new, m, y, q)
        PROVE  q \in Prior(rs, n, x, "percepts", deps[k]) /\ Stood(rs, n, x, q) /\ Kept(rs[q], new[q])
    <2>1. q \in 1..m
      BY DEF Prior
    <2>2. q \in 1..n /\ Kept(rs[q], new[q]) /\ Stood(rs, n, x, q)
      BY <1>3, <2>1, StoodBefore
    <2> QED
      BY <2>2, PriorGrows
  <1>4. Observed(new, m, y, deps[k])
    BY <1>2, <1>3, PriorGrows DEF Observed, Kept
  <1>5. Arbitrated(rs, n, x, deps[k]) => Arbitrated(new, m, y, deps[k])
    BY <1>3, PriorGrows DEF Arbitrated, Kept
  <1> QED
    BY <1>2, <1>4, <1>5

LEMMA WeighedLater ==
    ASSUME NEW rs, NEW n, NEW x, NEW new, NEW m, NEW y, Later(rs, n, x, new, m, y),
           NEW kind, Weighed(rs, n, x, kind)
    PROVE  Weighed(new, m, y, kind)
  <1>1. ASSUME NEW q \in Prior(new, m, y, "percepts", kind), q <= y.since, ~new[q].ttl
        PROVE  q \in Prior(rs, n, x, "percepts", kind) /\ q <= x.since /\ ~rs[q].ttl
    <2>1. q \in 1..n /\ q <= n
      BY <1>1 DEF Later, Prior
    <2>2. q \in Prior(rs, n, x, "percepts", kind) /\ Kept(rs[q], new[q])
      BY <1>1, <2>1, PriorGrows
    <2> QED
      BY <1>1, <2>2 DEF Later, Kept
  <1> QED
    BY <1>1, PriorGrows DEF Weighed, Kept

LEMMA SatisfiedLater ==
    ASSUME NEW rs, NEW n, NEW x, NEW new, NEW m, NEW y, Later(rs, n, x, new, m, y),
           NEW requires, Satisfied(rs, n, x, requires)
    PROVE  Satisfied(new, m, y, requires)
BY PriorGrows DEF Satisfied, Kept

LEMMA UnblockedLater ==
    ASSUME NEW rs, NEW n, NEW x, NEW new, NEW m, NEW y, Later(rs, n, x, new, m, y),
           NEW flags, Unblocked(rs, n, x, flags)
    PROVE  Unblocked(new, m, y, flags)
BY StoodBefore DEF Unblocked, Kept, Later

LEMMA ForetoldLater ==
    ASSUME NEW rs, NEW n \in Nat, NEW x, NEW new, NEW m \in Nat, NEW y, n <= m,
           \A i \in 1..n : Kept(rs[i], new[i]), y.trace = x.trace,
           NEW r, NEW s, r.body = s.body, r.kind = s.kind, Foretold(rs, n, x, r)
    PROVE  Foretold(new, m, y, s)
  <1>1. ActionType(r) = ActionType(s)
    BY DEF ActionType
  <1> QED
    BY <1>1 DEF Foretold, Kept

LEMMA UnwarnedLater ==
    ASSUME NEW rs, NEW n, NEW x, NEW new, NEW m, NEW y, Later(rs, n, x, new, m, y),
           NEW r, NEW s, r.body = s.body, r.kind = s.kind, Unwarned(rs, n, x, r)
    PROVE  Unwarned(new, m, y, s)
  <1> SUFFICES ASSUME NEW q \in Forecasts(new, m, y), NEW i \in Forecasts(new, m, y),
                      new[i].kind = new[q].kind, Foremost(new, m, y, i),
                      new[q].body.action_type = ActionType(s), Stood(new, m, y, q)
               PROVE  ~(new[q].body.expected_outcome < 0)
    BY DEF Unwarned
  <1>1. ActionType(r) = ActionType(s)
    BY DEF ActionType
  <1>2. q \in 1..n /\ Kept(rs[q], new[q]) /\ Stood(rs, n, x, q)
    BY StoodBefore DEF Forecasts
  <1>3. i \in 1..n /\ i <= x.since /\ Kept(rs[i], new[i])
    BY DEF Later, Foremost, Forecasts
  <1>4. \A k \in Forecasts(rs, n, x) : k \in Forecasts(new, m, y) /\ rs[k].kind = new[k].kind
    BY DEF Later, Forecasts, Kept
  <1>5. q \in Forecasts(rs, n, x) /\ i \in Forecasts(rs, n, x)
    BY <1>2, <1>3 DEF Later, Forecasts, Kept
  <1>6. Foremost(rs, n, x, i)
    BY <1>3, <1>4, <1>5 DEF Foremost, Kept
  <1>7. rs[q].body = new[q].body /\ rs[i].kind = rs[q].kind
    BY <1>2, <1>3 DEF Kept
  <1> QED
    BY <1>1, <1>2, <1>5, <1>6, <1>7 DEF Unwarned

\* Labels at which a proposal is accepted.
LEMMA PendingLabels ==
    /\ Pending = {"view", "judge", "arbitrate", "gate", "claims", "needs", "refuse", "begin",
                  "evidence", "supersede", "commit", "end"}
    /\ Vetted \subseteq Pending /\ Cleared \subseteq Pending /\ "return" \notin Pending
BY DEF Pending, Holding, Labels, Vetted, Cleared, Writing, InTx

LEMMA GrownIsLater ==
    ASSUME NEW rs \in Seq(Record), NEW new, Grown(rs, new), NEW j, j.since \in 0..Len(rs)
    PROVE  /\ Later(rs, Len(rs), j, new, Len(new), j)
           /\ \A i \in 1..Len(rs) : i \in DOMAIN new /\ Kept(rs[i], new[i])
           /\ DOMAIN rs = 1..Len(rs) /\ DOMAIN new = 1..Len(new)
           /\ Len(rs) \in Nat /\ Len(new) \in Nat
  <1>1. /\ DOMAIN rs = 1..Len(rs) /\ Len(rs) \in Nat
        /\ DOMAIN new = 1..Len(new) /\ Len(new) \in Nat
    BY LenProperties DEF Grown
  <1>2. \A i \in 1..Len(rs) : i \in DOMAIN new /\ Kept(rs[i], new[i])
    BY <1>1 DEF Grown
  <1> QED
    BY <1>1, <1>2 DEF Grown, Later

\* What a call knows it still knows when the board has grown.
LEMMA KnowsLater ==
    ASSUME NEW rs \in Seq(Record), NEW new, Grown(rs, new), NEW label, NEW j,
           Fit(rs, label, j), Knows(rs, label, j)
    PROVE  Knows(new, label, j)
  <1>1. CASE label \in Pending
    <2> DEFINE p == j.prop
    <2>1. p \in DOMAIN rs /\ j.since \in 0..Len(rs)
      BY <1>1 DEF Fit
    <2>2. /\ Later(rs, Len(rs), j, new, Len(new), j)
          /\ \A i \in 1..Len(rs) : i \in DOMAIN new /\ Kept(rs[i], new[i])
          /\ DOMAIN rs = 1..Len(rs) /\ DOMAIN new = 1..Len(new)
          /\ Len(rs) \in Nat /\ Len(new) \in Nat
      BY <2>1, GrownIsLater
    <2>3. rs[p].body = new[p].body /\ rs[p].kind = new[p].kind
      BY <2>1, <2>2 DEF Kept
    <2> HIDE DEF p
    <2>4. KnowsView(new, label, j)
      <3>1. \A i \in j.view : i \in DOMAIN new /\ new[i].trace = j.trace
        BY <1>1, <2>2 DEF Knows, KnowsView, Kept
      <3>2. ASSUME NEW slot \in Walked(label, j) PROVE Caught(new, j, slot)
        <4>1. Caught(rs, j, slot)
          BY <1>1 DEF Knows, KnowsView
        <4> QED
          BY <2>1, <2>2, <4>1 DEF Caught, Kept
      <3> QED
        BY <3>1, <3>2 DEF Knows, KnowsView
    <2>5. KnowsBelief(new, label, j)
      <3>1. \A deps, open : DepsJudged(rs, Len(rs), j, deps, open)
                              => DepsJudged(new, Len(new), j, deps, open)
        BY <2>2, DepsJudgedLater
      <3>2. \A kind : Weighed(rs, Len(rs), j, kind) => Weighed(new, Len(new), j, kind)
        BY <2>2, WeighedLater
      <3>3. KnowsBelief(rs, label, j)
        BY DEF Knows
      <3> QED
        BY <2>3, <3>1, <3>2, <3>3 DEF KnowsBelief, p
    <2>6. KnowsAction(new, label, j)
      <3> SUFFICES ASSUME j.op = "action", label \in Cleared
                   PROVE  /\ Satisfied(new, Len(new), j, new[p].body.requires_beliefs)
                          /\ Unblocked(new, Len(new), j, new[p].body.flags)
                          /\ j.need => Foretold(new, Len(new), j, new[p])
                                       /\ Unwarned(new, Len(new), j, new[p])
        BY Zenon DEF KnowsAction, p
      <3>1. /\ Satisfied(rs, Len(rs), j, rs[p].body.requires_beliefs)
            /\ Unblocked(rs, Len(rs), j, rs[p].body.flags)
            /\ j.need => Foretold(rs, Len(rs), j, rs[p]) /\ Unwarned(rs, Len(rs), j, rs[p])
        BY Zenon DEF Knows, KnowsAction, p
      <3>2. j.need => Foretold(new, Len(new), j, new[p])
        <4>1. \A i \in 1..Len(rs) : Kept(rs[i], new[i])
          BY <2>2
        <4>2. Len(rs) <= Len(new)
          BY DEF Grown
        <4> QED
          BY <2>2, <2>3, <3>1, <4>1, <4>2, ForetoldLater
      <3>3. j.need => Unwarned(new, Len(new), j, new[p])
        BY <2>2, <2>3, <3>1, UnwarnedLater
      <3> QED
        BY <2>2, <2>3, <3>1, <3>2, <3>3, SatisfiedLater, UnblockedLater
    <2>7. KnowsAnswer(new, label, j)
      BY <1>1, PendingLabels DEF KnowsAnswer
    <2> QED
      BY <2>4, <2>5, <2>6, <2>7 DEF Knows
  <1>2. CASE label \notin Pending
    <2>1. KnowsView(new, label, j)
      BY <1>2, PendingLabels DEF Knows, KnowsView
    <2>2. KnowsBelief(new, label, j) /\ KnowsAction(new, label, j)
      BY <1>2, PendingLabels DEF KnowsBelief, KnowsAction
    <2>3. KnowsAnswer(new, label, j)
      <3>1. /\ DOMAIN rs = 1..Len(rs) /\ Len(rs) \in Nat /\ DOMAIN new = 1..Len(new)
            /\ Len(new) \in Nat
            /\ \A i \in 1..Len(rs) : i \in DOMAIN new /\ Kept(rs[i], new[i])
            /\ Len(rs) <= Len(new)
        BY LenProperties DEF Grown
      <3>2. ASSUME label = "return", j.code = "COMMITTED"
            PROVE  \E c \in DOMAIN new :
                     /\ new[c].role = "kernel" /\ new[c].src = j.prop /\ new[c].trace = j.trace
                     /\ new[c].since \in 0..(c - 1)
                     /\ j.need => Foretold(new, c - 1, j, new[c])
                                  /\ Unwarned(new, c - 1, new[c], new[c])
        <4>1. PICK c \in DOMAIN rs :
                /\ rs[c].role = "kernel" /\ rs[c].src = j.prop /\ rs[c].trace = j.trace
                /\ rs[c].since \in 0..(c - 1)
                /\ j.need => Foretold(rs, c - 1, j, rs[c]) /\ Unwarned(rs, c - 1, rs[c], rs[c])
          BY <3>2 DEF Knows, KnowsAnswer
        <4>2. c \in DOMAIN new /\ Kept(rs[c], new[c]) /\ c - 1 \in Nat /\ c \in Nat
              /\ \A i \in 1..(c - 1) : Kept(rs[i], new[i])
          BY <3>1
        <4>3. rs[c].body = new[c].body /\ rs[c].kind = new[c].kind
              /\ new[c].role = "kernel" /\ new[c].src = j.prop /\ new[c].trace = j.trace
              /\ new[c].since = rs[c].since /\ new[c].trace = rs[c].trace
          BY <4>1, <4>2 DEF Kept
        <4>4. j.need => Foretold(new, c - 1, j, new[c])
          <5> DEFINE n == c - 1
          <5>1. n \in Nat /\ n <= n /\ \A i \in 1..n : Kept(rs[i], new[i])
            BY <4>2
          <5>2. j.need => Foretold(rs, n, j, rs[c])
            BY <4>1
          <5> HIDE DEF n
          <5>3. j.need => Foretold(new, n, j, new[c])
            BY <4>3, <5>1, <5>2, ForetoldLater
          <5> QED
            BY <5>3 DEF n
        <4>5. j.need => Unwarned(new, c - 1, new[c], new[c])
          <5> DEFINE n == c - 1
          <5>1. n \in Nat /\ (\A i \in 1..n : Kept(rs[i], new[i])) /\ rs[c].since \in 0..n
            BY <4>1, <4>2
          <5>2. j.need => Unwarned(rs, n, rs[c], rs[c])
            BY <4>1
          <5> HIDE DEF n
          <5>3. Later(rs, n, rs[c], new, n, new[c])
            BY <4>3, <5>1 DEF Later
          <5>4. j.need => Unwarned(new, n, new[c], new[c])
            BY <4>3, <5>2, <5>3, UnwarnedLater
          <5> QED
            BY <5>4 DEF n
        <4> QED
          BY <4>1, <4>2, <4>3, <4>4, <4>5
      <3>3. ASSUME label = "return", j.code = "PLAN_FEASIBLE"
            PROVE  /\ j.prop \in DOMAIN new /\ j.since \in 0..Len(new)
                   /\ \A s \in DOMAIN new[j.prop].body.steps :
                        LET step == new[j.prop].body.steps[s]
                        IN  /\ Satisfied(new, Len(new), j, step.requires_beliefs)
                            /\ Unblocked(new, Len(new), j, step.flags)
        <4>1. /\ j.prop \in DOMAIN rs /\ j.since \in 0..Len(rs)
              /\ \A s \in DOMAIN rs[j.prop].body.steps :
                   LET step == rs[j.prop].body.steps[s]
                   IN  /\ Satisfied(rs, Len(rs), j, step.requires_beliefs)
                       /\ Unblocked(rs, Len(rs), j, step.flags)
          BY <3>3 DEF Knows, KnowsAnswer
        <4>2. Later(rs, Len(rs), j, new, Len(new), j)
          BY <4>1, GrownIsLater
        <4>3. new[j.prop].body = rs[j.prop].body /\ j.prop \in DOMAIN new /\ j.since \in 0..Len(new)
          BY <3>1, <4>1 DEF Kept
        <4>4. \A requires : Satisfied(rs, Len(rs), j, requires) => Satisfied(new, Len(new), j, requires)
          BY <4>2, SatisfiedLater
        <4>5. \A flags : Unblocked(rs, Len(rs), j, flags) => Unblocked(new, Len(new), j, flags)
          BY <4>2, UnblockedLater
        <4> QED
          BY <4>1, <4>3, <4>4, <4>5
      <3> QED
        BY <3>2, <3>3 DEF KnowsAnswer
    <2> QED
      BY <2>1, <2>2, <2>3 DEF Knows
  <1> QED
    BY <1>1, <1>2

-----------------------------------------------------------------------------
\* What a verdict on the view says of the board.

\* The view of call j is of its episode and, of one slot, complete.
Viewed(rs, j, slot) ==
    /\ \A i \in j.view : i \in DOMAIN rs /\ rs[i].trace = j.trace
    /\ Caught(rs, j, slot)

LEMMA HeldIsPrior ==
    ASSUME NEW rs \in Seq(Record), NEW j, NEW slot, NEW kind,
           \A i \in j.view : i \in DOMAIN rs /\ rs[i].trace = j.trace,
           Held(rs, j.view, slot, kind) # NoId
    PROVE  LET q == Held(rs, j.view, slot, kind)
           IN  /\ q \in Prior(rs, Len(rs), j, slot, kind)
               /\ \A i \in Prior(rs, Len(rs), j, slot, kind) : i \in j.view => i <= q
  <1> DEFINE writers == {i \in Committed(rs, j.view, slot) : rs[i].kind = kind}
  <1>1. DOMAIN rs = 1..Len(rs) /\ Len(rs) \in Nat
    BY LenProperties
  <1>2. writers \in SUBSET (1..Len(rs))
    BY <1>1 DEF Committed
  <1>3. writers # {} /\ Held(rs, j.view, slot, kind) = Max(writers)
    BY Zenon DEF Held
  <1>4. /\ writers \subseteq Prior(rs, Len(rs), j, slot, kind)
        /\ \A i \in Prior(rs, Len(rs), j, slot, kind) : i \in j.view => i \in writers
    BY <1>1 DEF Prior, Committed
  <1> HIDE DEF writers
  <1>5. Max(writers) \in writers /\ \A y \in writers : y <= Max(writers)
    BY <1>1, <1>2, <1>3, MaxIsMember
  <1> QED
    BY <1>3, <1>4, <1>5

\* What stood is what the view holds.
LEMMA StoodIsHeld ==
    ASSUME NEW rs \in Seq(Record), NEW j, NEW slot, Viewed(rs, j, slot), NEW kind, j.since \in Nat,
           NEW q \in Prior(rs, Len(rs), j, slot, kind), Stood(rs, Len(rs), j, q)
    PROVE  Held(rs, j.view, slot, kind) = q
  <1>1. /\ q \in 1..Len(rs) /\ rs[q].slot = slot /\ rs[q].kind = kind
        /\ rs[q].mode = "COMMIT" /\ rs[q].trace = j.trace /\ Len(rs) \in Nat
    BY LenProperties DEF Prior
  <1>2. q \in j.view
    BY <1>1 DEF Viewed, Caught, Stood
  <1>3. Held(rs, j.view, slot, kind) # NoId
    <2> DEFINE writers == {i \in Committed(rs, j.view, slot) : rs[i].kind = kind}
    <2>1. q \in writers
      BY <1>1, <1>2 DEF Committed
    <2>2. writers \in SUBSET (1..Len(rs))
      BY LenProperties DEF Viewed, Committed
    <2>3. Held(rs, j.view, slot, kind) = Max(writers)
      BY <2>1, Zenon DEF Held
    <2> HIDE DEF writers
    <2>4. Max(writers) \in writers
      BY <1>1, <2>1, <2>2, MaxIsMember
    <2> QED
      BY <2>2, <2>3, <2>4 DEF NoId
  <1> DEFINE h == Held(rs, j.view, slot, kind)
  <1>4. h \in Prior(rs, Len(rs), j, slot, kind) /\ q <= h
    BY <1>2, <1>3, HeldIsPrior DEF Viewed
  <1> HIDE DEF h
  <1>5. h <= q /\ h \in 1..Len(rs)
    BY <1>1, <1>4 DEF Stood, Prior
  <1>6. h = q
    BY <1>1, <1>4, <1>5
  <1> QED
    BY <1>6 DEF h

LEMMA PerceptJudged ==
    ASSUME NEW rs \in Seq(Record), NEW j, Viewed(rs, j, "percepts"), j.since \in Nat, NEW kind,
           PerceptVerdict(rs, j.view, kind) \in {"OK", "CONFLICTING_EVIDENCE"}
    PROVE  /\ Observed(rs, Len(rs), j, kind)
           /\ PerceptVerdict(rs, j.view, kind) = "OK" => Arbitrated(rs, Len(rs), j, kind)
           /\ PerceptVerdict(rs, j.view, kind) # "OK" =>
                \E i \in Prior(rs, Len(rs), j, "percepts", kind) : rs[i].body.conflict
  <1> DEFINE h == Held(rs, j.view, "percepts", kind)
  <1>1. /\ h # NoId /\ ~rs[h].body.stale
        /\ PerceptVerdict(rs, j.view, kind) = "OK" => ~rs[h].body.conflict
        /\ PerceptVerdict(rs, j.view, kind) # "OK" => rs[h].body.conflict
    BY Zenon DEF PerceptVerdict
  <1>2. h \in Prior(rs, Len(rs), j, "percepts", kind)
    BY <1>1, HeldIsPrior DEF Viewed
  <1>3. \A q \in Prior(rs, Len(rs), j, "percepts", kind) : Stood(rs, Len(rs), j, q) => q = h
    BY StoodIsHeld
  <1> HIDE DEF h
  <1> QED
    BY <1>1, <1>2, <1>3 DEF Observed, Arbitrated

\* validate_belief_commit: every dependency is judged when it passes; when it stops
\* at a conflict the dependencies up to that one are, but for the arbitration.
LEMMA BeliefJudged ==
    ASSUME NEW rs \in Seq(Record), NEW j, Viewed(rs, j, "percepts"), j.since \in Nat,
           NEW deps \in Seq(Kinds)
    PROVE  LET res == BeliefVerdict(rs, j.view, deps)
           IN  /\ res.code = "OK" => DepsJudged(rs, Len(rs), j, deps, 0)
               /\ res.code = "CONFLICTING_EVIDENCE" =>
                    res.at \in DOMAIN deps /\ DepsJudged(rs, Len(rs), j, deps, res.at)
  <1> DEFINE verdict(i) == PerceptVerdict(rs, j.view, deps[i])
             failing == {i \in DOMAIN deps : verdict(i) # "OK"}
             res     == BeliefVerdict(rs, j.view, deps)
             first   == Min(failing)
  <1>1. failing \in SUBSET DOMAIN deps /\ DOMAIN deps \subseteq Nat
    BY LenProperties
  <1>2. \A i : verdict(i) \in {"MISSING_EVIDENCE", "STALE_EVIDENCE", "CONFLICTING_EVIDENCE", "OK"}
    BY Zenon DEF PerceptVerdict
  <1>3. failing = {} => res.code = "OK"
    BY DEF BeliefVerdict
  <1>4. failing # {} => res.code = verdict(first) /\ res.at = first
    BY DEF BeliefVerdict
  <1>5. failing # {} => /\ first \in failing /\ first \in Nat
                        /\ \A i \in failing : first <= i
    BY <1>1, MinIsMember
  <1>6. ASSUME NEW i \in DOMAIN deps, verdict(i) \in {"OK", "CONFLICTING_EVIDENCE"}
        PROVE  /\ Observed(rs, Len(rs), j, deps[i])
               /\ verdict(i) = "OK" => Arbitrated(rs, Len(rs), j, deps[i])
               /\ verdict(i) # "OK" =>
                    \E q \in Prior(rs, Len(rs), j, "percepts", deps[i]) : rs[q].body.conflict
    BY <1>6, PerceptJudged
  <1>7. \A i \in DOMAIN deps : i \notin failing => verdict(i) = "OK"
    OBVIOUS
  <1>8. failing # {} => verdict(first) # "OK"
    BY <1>5
  <1> HIDE DEF verdict, failing, res, first
  <1>9. CASE failing = {}
    BY <1>1, <1>3, <1>6, <1>7, <1>9 DEF DepsJudged, res
  <1>10. CASE failing # {}
    <2>1. res.code # "OK" /\ (res.code = "CONFLICTING_EVIDENCE" => verdict(first) = "CONFLICTING_EVIDENCE")
      BY <1>4, <1>8, <1>10
    <2>2. ASSUME verdict(first) = "CONFLICTING_EVIDENCE"
          PROVE  DepsJudged(rs, Len(rs), j, deps, first) /\ first \in DOMAIN deps
      <3>1. first \in DOMAIN deps /\ first \in Nat
        BY <1>1, <1>5, <1>10
      <3>2. ASSUME NEW k \in DOMAIN deps, k > first
            PROVE  ~CalmBefore(rs, Len(rs), j, deps, k)
        <4>1. first \in 1..(k - 1)
          BY <1>1, <3>1, <3>2, LenProperties
        <4> QED
          BY <1>6, <1>8, <1>10, <2>2, <3>1, <4>1 DEF CalmBefore
      <3>3. ASSUME NEW k \in DOMAIN deps, k < first
            PROVE  verdict(k) = "OK"
        BY <1>1, <1>5, <1>7, <1>10, <3>1, <3>3
      <3>4. \A k \in DOMAIN deps : k < first \/ k = first \/ k > first
        BY <1>1, <3>1
      <3> QED
        BY <1>6, <2>2, <3>1, <3>2, <3>3, <3>4 DEF DepsJudged
    <2> QED
      BY <1>4, <1>10, <2>1, <2>2 DEF res
  <1> QED
    BY <1>9, <1>10

LEMMA RequirementMet ==
    ASSUME NEW rs \in Seq(Record), NEW j, NEW kind,
           \A i \in j.view : i \in DOMAIN rs /\ rs[i].trace = j.trace,
           RequirementVerdict(rs, j.view, kind) = "OK"
    PROVE  \E b \in Prior(rs, Len(rs), j, "beliefs", kind) : rs[b].body.value
  <1> DEFINE h == Held(rs, j.view, "beliefs", kind)
  <1>1. h # NoId /\ rs[h].body.value
    BY Zenon DEF RequirementVerdict
  <1>2. h \in Prior(rs, Len(rs), j, "beliefs", kind)
    BY <1>1, HeldIsPrior
  <1> QED
    BY <1>1, <1>2

\* validate_action, and the test of a step of a plan.
LEMMA ActionJudged ==
    ASSUME NEW rs \in Seq(Record), NEW j, Viewed(rs, j, "constraints"), j.since \in Nat,
           StandsOrExpires(rs), NEW requires \in Seq(Kinds), NEW flags,
           ActionVerdict(rs, j.view, requires, flags) = "OK"
    PROVE  /\ Satisfied(rs, Len(rs), j, requires)
           /\ Unblocked(rs, Len(rs), j, flags)
  <1> DEFINE verdict(i) == RequirementVerdict(rs, j.view, requires[i])
             failing == {i \in DOMAIN requires : verdict(i) # "OK"}
  <1>1. failing = {}
    <2> SUFFICES ASSUME failing # {} PROVE FALSE
      OBVIOUS
    <2>1. failing \in SUBSET Nat
      BY LenProperties
    <2>2. Min(failing) \in failing
      BY <2>1, MinIsMember
    <2>3. ActionVerdict(rs, j.view, requires, flags) = verdict(Min(failing))
      BY Zenon DEF ActionVerdict
    <2> QED
      BY <2>2, <2>3, Zenon
  <1>2. ~\E c \in Committed(rs, j.view, "constraints") : Blocks(rs, j.view, c, flags)
    BY <1>1, Zenon DEF ActionVerdict
  <1>3. Satisfied(rs, Len(rs), j, requires)
    BY <1>1, RequirementMet DEF Satisfied, Viewed
  <1>4. Unblocked(rs, Len(rs), j, flags)
    <2> SUFFICES ASSUME NEW q \in 1..Len(rs), rs[q].slot = "constraints",
                        rs[q].trace = j.trace, Stood(rs, Len(rs), j, q)
                 PROVE  ~(rs[q].body.enabled /\ rs[q].body.blocks_field \in flags \ {NoField})
      BY DEF Unblocked
    <2>1. rs[q].mode = "COMMIT" /\ Len(rs) \in Nat
      BY LenProperties DEF StandsOrExpires
    <2>2. q \in Prior(rs, Len(rs), j, "constraints", rs[q].kind)
      BY <2>1 DEF Prior
    <2>3. Held(rs, j.view, "constraints", rs[q].kind) = q
      BY <2>2, StoodIsHeld
    <2>4. q \in j.view
      BY <2>1 DEF Viewed, Caught, Stood
    <2>5. q \in Committed(rs, j.view, "constraints")
      BY <2>1, <2>4 DEF Committed
    <2> QED
      BY <1>2, <2>3, <2>5 DEF Blocks
  <1> QED
    BY <1>3, <1>4

LEMMA PlanJudged ==
    ASSUME NEW rs \in Seq(Record), NEW j, Viewed(rs, j, "constraints"), j.since \in Nat,
           StandsOrExpires(rs),
           NEW steps \in Seq([requires_beliefs : Seq(Kinds), flags : SUBSET STRING]),
           PlanVerdict(rs, j.view, steps) = "PLAN_FEASIBLE"
    PROVE  \A s \in DOMAIN steps :
             /\ Satisfied(rs, Len(rs), j, steps[s].requires_beliefs)
             /\ Unblocked(rs, Len(rs), j, steps[s].flags)
  <1> DEFINE verdict(i) == ActionVerdict(rs, j.view, steps[i].requires_beliefs, steps[i].flags)
             failing == {i \in DOMAIN steps : verdict(i) # "OK"}
  <1>1. failing = {}
    <2> SUFFICES ASSUME failing # {} PROVE FALSE
      OBVIOUS
    <2>1. failing \in SUBSET Nat
      BY LenProperties
    <2>2. Min(failing) \in failing
      BY <2>1, MinIsMember
    <2>3. PlanCode[verdict(Min(failing))] = "PLAN_FEASIBLE"
      BY Zenon DEF PlanVerdict
    <2>4. verdict(Min(failing)) \in {"BLOCKED", "NO_COMMITTED_BELIEF", "BELIEF_NOT_SATISFIED"}
      <3>1. verdict(Min(failing)) # "OK"
        BY <2>2, Zenon
      <3> QED
        BY <3>1, ActionVerdicts
    <2> HIDE DEF verdict, failing
    <2> QED
      BY <2>3, <2>4 DEF PlanCode
  <1>2. ASSUME NEW s \in DOMAIN steps
        PROVE  /\ Satisfied(rs, Len(rs), j, steps[s].requires_beliefs)
               /\ Unblocked(rs, Len(rs), j, steps[s].flags)
    <2>1. steps[s].requires_beliefs \in Seq(Kinds)
      <3>1. steps[s] \in [requires_beliefs : Seq(Kinds), flags : SUBSET STRING]
        BY ElementOfSeq, LenProperties
      <3> QED
        BY <3>1
    <2>2. verdict(s) = "OK"
      BY <1>1
    <2> QED
      BY <2>1, <2>2, ActionJudged
  <1> QED
    BY <1>2

\* The prediction gate of an action.
LEMMA PredictionJudged ==
    ASSUME NEW rs \in Seq(Record), NEW j, NEW r,
           \A i \in j.view : i \in DOMAIN rs /\ rs[i].trace = j.trace,
           PredictionVerdict(rs, j.view, ActionType(r)) = "OK"
    PROVE  Foretold(rs, Len(rs), j, r)
  <1> DEFINE made    == Committed(rs, j.view, "predictions")
             held(i) == Held(rs, j.view, "predictions", rs[i].kind)
             match   == {i \in made : rs[held(i)].body.action_type = ActionType(r)}
             m       == PredictionFor(rs, j.view, ActionType(r))
  <1>1. m # NoId /\ ~(rs[m].body.expected_outcome < 0)
    BY Zenon DEF PredictionVerdict
  <1>2. match # {} /\ m = held(Min(match))
    BY <1>1, Zenon DEF PredictionFor
  <1>3. match \in SUBSET Nat
    BY LenProperties DEF Committed
  <1>4. Min(match) \in match
    BY <1>2, <1>3, MinIsMember
  <1>5. rs[m].body.action_type = ActionType(r)
    BY <1>2, <1>4, Zenon
  <1>6. m \in Prior(rs, Len(rs), j, "predictions", rs[Min(match)].kind)
    BY <1>1, <1>2, HeldIsPrior
  <1> HIDE DEF m, match
  <1> QED
    BY <1>1, <1>5, <1>6 DEF Foretold, Prior

\* The leading kind's last prediction is the one the gate asks.
LEMMA WarningsHeeded ==
    ASSUME NEW rs \in Seq(Record), NEW j, NEW r, Viewed(rs, j, "predictions"), j.since \in Nat,
           PredictionVerdict(rs, j.view, ActionType(r)) = "OK"
    PROVE  Unwarned(rs, Len(rs), j, r)
  <1> DEFINE n       == Len(rs)
             made    == Committed(rs, j.view, "predictions")
             held(k) == Held(rs, j.view, "predictions", rs[k].kind)
             match   == {k \in made : rs[held(k)].body.action_type = ActionType(r)}
             m       == PredictionFor(rs, j.view, ActionType(r))
  <1> SUFFICES ASSUME NEW q \in Forecasts(rs, n, j), NEW i \in Forecasts(rs, n, j),
                      rs[i].kind = rs[q].kind, Foremost(rs, n, j, i),
                      rs[q].body.action_type = ActionType(r), Stood(rs, n, j, q)
               PROVE  ~(rs[q].body.expected_outcome < 0)
    BY Zenon DEF Unwarned
  <1>1. q \in Prior(rs, n, j, "predictions", rs[q].kind)
    BY DEF Forecasts, Prior
  <1>2. Held(rs, j.view, "predictions", rs[q].kind) = q
    BY <1>1, StoodIsHeld
  <1>3. i \in made
    BY LenProperties DEF Viewed, Caught, Foremost, Forecasts, Committed
  <1>4. held(i) = q
    BY <1>2, Zenon
  <1>5. i \in match
    BY <1>3, <1>4, Zenon
  <1>6. match \in SUBSET Nat /\ made \subseteq Forecasts(rs, n, j)
    BY LenProperties DEF Committed, Forecasts, Viewed
  <1>7. Min(match) \in match /\ Min(match) <= i
    BY <1>5, <1>6, MinIsMember
  <1>8. Min(match) \in Forecasts(rs, n, j) /\ Min(match) \in Nat /\ i \in Nat
    BY <1>5, <1>6, <1>7
  <1>9. m = held(Min(match))
    BY <1>5, Zenon DEF PredictionFor
  <1>10. m # NoId => ~(rs[m].body.expected_outcome < 0)
    BY Zenon DEF PredictionVerdict
  <1>11. m # NoId
    BY Zenon DEF PredictionVerdict
  <1>12. rs[Min(match)].kind = rs[i].kind
    <2> DEFINE first == Min(match)
    <2>1. first \in Forecasts(rs, n, j) /\ first <= i /\ first \in Nat /\ i \in Nat
      BY <1>7, <1>8
    <2> HIDE DEF first
    <2>2. rs[first].kind = rs[i].kind
      BY <2>1 DEF Foremost
    <2> QED
      BY <2>2 DEF first
  <1>13. m = q
    BY <1>2, <1>9, <1>12, Zenon
  <1> QED
    BY <1>10, <1>11, <1>13

\* What find_active_by_kind finds among the percepts, all of them committed.
LEMMA FoundPercept ==
    ASSUME NEW rs \in Seq(Record), StandsOrExpires(rs), NEW j, NEW kind
    PROVE  LET found == FindActiveByKind(rs, "percepts", kind, j.trace)
           IN  /\ found # NoId => found \in Prior(rs, Len(rs), j, "percepts", kind)
               /\ found = NoId =>
                    \A q \in Prior(rs, Len(rs), j, "percepts", kind) : rs[q].ttl
  <1> DEFINE all == {i \in DOMAIN rs : /\ rs[i].slot = "percepts" /\ rs[i].kind = kind
                                       /\ rs[i].trace = j.trace /\ Active(rs, i)}
             found == FindActiveByKind(rs, "percepts", kind, j.trace)
  <1>1. DOMAIN rs = 1..Len(rs) /\ Len(rs) \in Nat
    BY LenProperties
  <1>2. CASE all = {}
    <2>1. found = NoId
      BY <1>2, Zenon DEF FindActiveByKind
    <2>2. ASSUME NEW q \in Prior(rs, Len(rs), j, "percepts", kind), ~rs[q].ttl PROVE FALSE
      BY <1>1, <1>2, <2>2 DEF Prior, StandsOrExpires, Active
    <2> QED
      BY <2>1, <2>2
  <1>3. CASE all # {}
    <2>1. found = Min(all)
      BY <1>3, Zenon DEF FindActiveByKind
    <2>2. all \in SUBSET Nat
      BY <1>1
    <2>3. Min(all) \in all
      BY <1>3, <2>2, MinIsMember
    <2>4. all \subseteq Prior(rs, Len(rs), j, "percepts", kind) /\ NoId \notin all
      BY <1>1 DEF Prior, StandsOrExpires, NoId
    <2> HIDE DEF all, found
    <2> QED
      BY <2>1, <2>3, <2>4 DEF found
  <1> QED
    BY <1>2, <1>3

\* A turn of the confidence gate.
LEMMA GateWeighs ==
    ASSUME NEW rs \in Seq(Record), StandsOrExpires(rs), NEW j, NEW kind,
           ~TooWeak(ConfOf(rs, FindActiveByKind(rs, "percepts", kind, j.trace)))
    PROVE  Weighed(rs, Len(rs), j, kind)
  <1> DEFINE found == FindActiveByKind(rs, "percepts", kind, j.trace)
  <1>1. CASE found = NoId
    BY <1>1, FoundPercept DEF Weighed
  <1>2. CASE found # NoId
    <2>1. found \in Prior(rs, Len(rs), j, "percepts", kind)
      BY <1>2, FoundPercept
    <2>2. rs[found].conf = NoConf \/ ~(rs[found].conf < MinConf)
      BY <1>2 DEF ConfOf, TooWeak
    <2>3. rs[found].conf \notin 0..(MinConf - 1)
      <3>1. MinConf \in Nat
        BY KernelAssumption, ScaleAssumption
      <3> HIDE DEF found
      <3> QED
        BY <2>2, <3>1 DEF NoConf
    <2> HIDE DEF found
    <2> QED
      BY <2>1, <2>3 DEF Weighed
  <1> QED
    BY <1>1, <1>2

\* Arbitration settles what the verdict left open.
LEMMA ArbitrationSettles ==
    ASSUME NEW rs \in Seq(Record), StandsOrExpires(rs), NEW j, NEW deps, NEW k \in DOMAIN deps,
           DepsJudged(rs, Len(rs), j, deps, k),
           ConfOf(rs, FindActiveByKind(rs, "percepts", deps[k], j.trace)) >= ArbConf
    PROVE  DepsJudged(rs, Len(rs), j, deps, 0)
  <1> DEFINE found == FindActiveByKind(rs, "percepts", deps[k], j.trace)
  <1>1. found # NoId
    BY KernelAssumption, ScaleAssumption DEF ConfOf, NoConf
  <1>2. found \in Prior(rs, Len(rs), j, "percepts", deps[k])
    BY <1>1, FoundPercept
  <1>3. rs[found].conf >= ArbConf
    BY <1>1 DEF ConfOf
  <1>4. Arbitrated(rs, Len(rs), j, deps[k])
    BY <1>2, <1>3 DEF Arbitrated
  <1> QED
    BY <1>4 DEF DepsJudged

-----------------------------------------------------------------------------
\* How a step keeps the invariant.

\* A commit stays justified.
LEMMA JustifiedLater ==
    ASSUME NEW rs \in Seq(Record), NEW new, Grown(rs, new), NEW c \in DOMAIN rs, Justified(rs, c)
    PROVE  Justified(new, c)
  <1> DEFINE n == c - 1
             x == rs[c]
             y == new[c]
  <1>1. /\ c \in Nat /\ n \in Nat /\ c \in DOMAIN new
        /\ \A i \in 1..c : Kept(rs[i], new[i])
    BY LenProperties DEF Grown
  <1>2. x \in Record
    BY ElementOfSeq, LenProperties
  <1>3. x.since \in Nat
    BY <1>2 DEF Record, RecordWith
  <1>4. /\ y.role = x.role /\ y.slot = x.slot /\ y.body = x.body
        /\ y.since = x.since /\ y.trace = x.trace
    BY <1>1 DEF Kept
  <1> HIDE DEF x, y
  <1> SUFFICES ASSUME y.role = "kernel" PROVE Justified(new, c)
    BY DEF Justified, y
  <1>5. /\ x.since < c
        /\ x.slot = "beliefs" => /\ x.body.depends_on \in Seq(Kinds)
                                 /\ DepsJudged(rs, n, x, x.body.depends_on, 0)
                                 /\ \A k \in DOMAIN x.body.depends_on :
                                      Weighed(rs, n, x, x.body.depends_on[k])
        /\ x.slot = "actions" => /\ Satisfied(rs, n, x, x.body.requires_beliefs)
                                 /\ Unblocked(rs, n, x, x.body.flags)
    BY <1>4 DEF Justified, x
  <1>6. Later(rs, n, x, new, n, y)
    BY <1>1, <1>3, <1>4, <1>5 DEF Later
  <1> HIDE DEF n
  <1>7. /\ y.since < c
        /\ y.slot = "beliefs" => /\ y.body.depends_on \in Seq(Kinds)
                                 /\ DepsJudged(new, n, y, y.body.depends_on, 0)
                                 /\ \A k \in DOMAIN y.body.depends_on :
                                      Weighed(new, n, y, y.body.depends_on[k])
        /\ y.slot = "actions" => /\ Satisfied(new, n, y, y.body.requires_beliefs)
                                 /\ Unblocked(new, n, y, y.body.flags)
    BY <1>4, <1>5, <1>6, DepsJudgedLater, WeighedLater, SatisfiedLater, UnblockedLater
  <1> QED
    BY <1>7 DEF Justified, y, n

\* Whoever does not move knows what it knew.
LEMMA GrownBoard ==
    ASSUME Inv, Known, Grown(recs, recs'), StandsOrExpires(recs'),
           \A c \in DOMAIN recs' : c \notin DOMAIN recs => Justified(recs', c),
           \A u \in Threads : \/ pc'[u] = pc[u] /\ job'[u] = job[u]
                              \/ Knows(recs', pc'[u], job'[u])
    PROVE  Known'
  <1>1. recs \in Seq(Record)
    BY DEF Inv, TypeOK
  <1>2. ASSUME NEW c \in DOMAIN recs' PROVE Justified(recs', c)
    BY <1>1, JustifiedLater DEF Known
  <1>3. ASSUME NEW u \in Threads PROVE Knows(recs', pc'[u], job'[u])
    <2>1. Fit(recs, pc[u], job[u]) /\ Knows(recs, pc[u], job[u])
      BY ThreadFacts DEF Known
    <2> QED
      BY <1>1, <2>1, KnowsLater
  <1> QED
    BY <1>2, <1>3 DEF Known

LEMMA SameBoard ==
    ASSUME Inv, Known, recs' = recs,
           \A u \in Threads : \/ pc'[u] = pc[u] /\ job'[u] = job[u]
                              \/ Knows(recs, pc'[u], job'[u])
    PROVE  Known'
BY DEF Known

\* A thread that moves alone, and what it then knows.
LEMMA KnowingStep ==
    ASSUME Inv, Known, NEW t \in Threads, NEW label, NEW j, recs' = recs,
           pc' = [pc EXCEPT ![t] = label], job' = [job EXCEPT ![t] = j],
           Knows(recs, label, j)
    PROVE  Known'
  <1>1. \A u \in Threads : IF u = t THEN pc'[u] = label /\ job'[u] = j
                           ELSE pc'[u] = pc[u] /\ job'[u] = job[u]
    BY DEF Inv, TypeOK
  <1> QED
    BY <1>1, SameBoard

LEMMA IdleKnows ==
    ASSUME NEW rs
    PROVE  Knows(rs, "idle", NoJob)
  <1>1. NoJob.op = "none" /\ NoJob.need = FALSE
    BY DEF NoJob
  <1> QED
    BY <1>1, PendingLabels DEF Knows, KnowsView, KnowsBelief, KnowsAction, KnowsAnswer

LEMMA ConsultedLists ==
    /\ \A op \in AllOps : DOMAIN Consulted[op] = 1..Len(Consulted[op]) /\ Len(Consulted[op]) \in Nat
    /\ Consulted["prediction"] = << >>
    /\ \A op \in AllOps : op # "prediction" => 1 \in DOMAIN Consulted[op]
    /\ \E k \in DOMAIN Consulted["belief"] : Consulted["belief"][k] = "percepts"
    /\ \A op \in {"plan", "action"} : \E k \in DOMAIN Consulted[op] : Consulted[op][k] = "constraints"
    /\ \E k \in DOMAIN Consulted["action"] : Consulted["action"][k] = "predictions"
  <1>1. /\ Consulted["belief"] = <<"percepts">> /\ Consulted["plan"] = <<"beliefs", "constraints">>
        /\ Consulted["prediction"] = << >>
        /\ Consulted["action"] = <<"beliefs", "constraints", "predictions">>
    BY DEF Consulted
  <1>2. ASSUME NEW op \in AllOps
        PROVE  DOMAIN Consulted[op] = 1..Len(Consulted[op]) /\ Len(Consulted[op]) \in Nat
    <2>1. << >> \in Seq(Slots) /\ <<"percepts">> \in Seq(Slots)
          /\ <<"beliefs", "constraints">> \in Seq(Slots)
          /\ <<"beliefs", "constraints", "predictions">> \in Seq(Slots)
      BY DEF Slots
    <2>2. Consulted[op] \in Seq(Slots)
      BY <1>1, <2>1, Zenon DEF AllOps
    <2> QED
      BY <2>2, LenProperties
  <1>3. /\ 1 \in DOMAIN Consulted["belief"] /\ 1 \in DOMAIN Consulted["plan"]
        /\ 1 \in DOMAIN Consulted["action"] /\ 2 \in DOMAIN Consulted["plan"]
        /\ 2 \in DOMAIN Consulted["action"]
    BY <1>1
  <1>4. /\ Consulted["belief"][1] = "percepts" /\ Consulted["plan"][2] = "constraints"
        /\ Consulted["action"][2] = "constraints"
        /\ 3 \in DOMAIN Consulted["action"] /\ Consulted["action"][3] = "predictions"
    BY <1>1
  <1> QED
    BY <1>1, <1>2, <1>3, <1>4 DEF AllOps

\* What a call that has walked its slots has in its view.
LEMMA WalkedView ==
    ASSUME Inv, Known, NEW t \in Threads, pc[t] \in Pending, pc[t] # "view"
    PROVE  /\ recs \in Seq(Record) /\ StandsOrExpires(recs) /\ job[t].since \in Nat
           /\ \A i \in job[t].view : i \in DOMAIN recs /\ recs[i].trace = job[t].trace
           /\ job[t].op = "belief" => Viewed(recs, job[t], "percepts")
           /\ job[t].op \in {"plan", "action"} => Viewed(recs, job[t], "constraints")
           /\ job[t].op = "action" => Viewed(recs, job[t], "predictions")
  <1>1. Knows(recs, pc[t], job[t]) /\ job[t] \in Job
    BY ThreadFacts DEF Known
  <1>2. \A slot \in {Consulted[job[t].op][k] : k \in DOMAIN Consulted[job[t].op]} :
            Caught(recs, job[t], slot)
    BY <1>1 DEF Knows, KnowsView, Walked
  <1>3. \A i \in job[t].view : i \in DOMAIN recs /\ recs[i].trace = job[t].trace
    BY <1>1 DEF Knows, KnowsView
  <1>4. job[t].since \in Nat
    BY <1>1 DEF Job
  <1>5. job[t].op = "belief" => Caught(recs, job[t], "percepts")
    BY <1>2, ConsultedLists
  <1>6. job[t].op \in {"plan", "action"} => Caught(recs, job[t], "constraints")
    BY <1>2, ConsultedLists
  <1>7. job[t].op = "action" => Caught(recs, job[t], "predictions")
    BY <1>2, ConsultedLists
  <1> QED
    BY <1>3, <1>4, <1>5, <1>6, <1>7 DEF Viewed, Known, Inv, TypeOK

\* The locals of one call on one board.
LEMMA SameCall ==
    ASSUME NEW rs \in Seq(Record), NEW j, NEW new, j.since \in 0..Len(rs),
           new.since = j.since, new.trace = j.trace
    PROVE  Later(rs, Len(rs), j, rs, Len(rs), new)
BY LenProperties DEF Later, Kept

\* Moving on after the view: the slots are walked and the call stays the same.
LEMMA MovingOn ==
    ASSUME Inv, Known, NEW t \in Threads, pc[t] \in Pending, pc[t] # "view",
           NEW label \in (Pending \ {"view", "judge"}) \cup {"return"}, NEW j,
           j.op = job[t].op, j.trace = job[t].trace, j.since = job[t].since,
           j.view = job[t].view, j.need = job[t].need,
           label = "needs" => j.op = "prediction",
           KnowsBelief(recs, label, j), KnowsAction(recs, label, j), KnowsAnswer(recs, label, j),
           recs' = recs, pc' = [pc EXCEPT ![t] = label], job' = [job EXCEPT ![t] = j]
    PROVE  Known'
  <1>1. KnowsView(recs, pc[t], job[t])
    BY DEF Known, Knows
  <1>2. label \notin {"acquire", "fetch", "view", "judge"}
    BY PendingLabels
  <1>3. \A slot : Caught(recs, j, slot) <=> Caught(recs, job[t], slot)
    BY DEF Caught
  <1>4. Walked(label, j) = Walked(pc[t], job[t])
    BY <1>2 DEF Walked
  <1>5. KnowsView(recs, label, j)
    BY <1>1, <1>2, <1>3, <1>4 DEF KnowsView
  <1> QED
    BY <1>5, KnowingStep DEF Knows

LEMMA RejectKnown ==
    ASSUME Inv, Known, NEW t \in Threads, pc[t] \in Pending, pc[t] # "view",
           NEW code, Reject(t, code), recs' = recs
    PROVE  Known'
  <1> DEFINE j == [job[t] EXCEPT !.code = code]
  <1>1. job[t] \in Job
    BY ThreadFacts
  <1>2. /\ j.op = job[t].op /\ j.trace = job[t].trace /\ j.since = job[t].since
        /\ j.view = job[t].view /\ j.need = job[t].need
    BY <1>1 DEF Job
  <1>3. pc' = [pc EXCEPT ![t] = "refuse"] /\ job' = [job EXCEPT ![t] = j]
    BY DEF Reject, Goto
  <1> HIDE DEF j
  <1>4. /\ KnowsBelief(recs, "refuse", j) /\ KnowsAction(recs, "refuse", j)
        /\ KnowsAnswer(recs, "refuse", j) /\ "refuse" \in Pending \ {"view", "judge"}
    BY PendingLabels DEF KnowsBelief, KnowsAction, KnowsAnswer, Vetted, Cleared, Writing, InTx
  <1> QED
    BY <1>2, <1>3, <1>4, MovingOn

\* After the verdict the call only moves on.
LEMMA VerdictKept ==
    ASSUME Inv, Known, NEW t \in Threads, pc[t] \in Cleared \/ (pc[t] = "claims" /\ job[t].op = "belief"),
           NEW label \in Vetted, NEW j, j.op = job[t].op, j.trace = job[t].trace,
           j.since = job[t].since, j.prop = job[t].prop, j.need = job[t].need
    PROVE  KnowsBelief(recs, label, j) /\ KnowsAction(recs, label, j) /\ KnowsAnswer(recs, label, j)
  <1>1. /\ KnowsBelief(recs, pc[t], job[t]) /\ KnowsAction(recs, pc[t], job[t])
        /\ pc[t] \in Pending /\ pc[t] \in Vetted /\ recs \in Seq(Record)
    BY PendingLabels DEF Known, Knows, Inv, TypeOK, Vetted, Cleared
  <1>2. job[t].since \in 0..Len(recs)
    BY <1>1, ThreadFacts DEF Fit
  <1>3. Later(recs, Len(recs), job[t], recs, Len(recs), j) /\ Len(recs) \in Nat
    BY <1>1, <1>2, SameCall, LenProperties
  <1>4. KnowsBelief(recs, label, j)
    <2>1. label \notin {"arbitrate", "gate"}
      BY DEF Vetted, Writing, InTx
    <2>2. \A deps, open : DepsJudged(recs, Len(recs), job[t], deps, open)
                            => DepsJudged(recs, Len(recs), j, deps, open)
      BY <1>3, DepsJudgedLater
    <2>3. \A kind : Weighed(recs, Len(recs), job[t], kind) => Weighed(recs, Len(recs), j, kind)
      BY <1>3, WeighedLater
    <2> QED
      BY <1>1, <2>1, <2>2, <2>3 DEF KnowsBelief
  <1>5. KnowsAction(recs, label, j)
    <2> SUFFICES ASSUME j.op = "action"
                 PROVE  /\ Satisfied(recs, Len(recs), j, recs[j.prop].body.requires_beliefs)
                        /\ Unblocked(recs, Len(recs), j, recs[j.prop].body.flags)
                        /\ j.need => Foretold(recs, Len(recs), j, recs[j.prop])
                                     /\ Unwarned(recs, Len(recs), j, recs[j.prop])
      BY Zenon DEF KnowsAction
    <2>1. pc[t] \in Cleared
      OBVIOUS
    <2>2. /\ Satisfied(recs, Len(recs), job[t], recs[j.prop].body.requires_beliefs)
          /\ Unblocked(recs, Len(recs), job[t], recs[j.prop].body.flags)
          /\ j.need => Foretold(recs, Len(recs), job[t], recs[j.prop])
                       /\ Unwarned(recs, Len(recs), job[t], recs[j.prop])
      BY <1>1, <2>1, Zenon DEF KnowsAction
    <2>3. j.need => Foretold(recs, Len(recs), j, recs[j.prop])
      BY <2>2 DEF Foretold
    <2>4. j.need => Unwarned(recs, Len(recs), j, recs[j.prop])
      BY <1>3, <2>2, UnwarnedLater
    <2> QED
      BY <1>3, <2>2, <2>3, <2>4, SatisfiedLater, UnblockedLater
  <1>6. KnowsAnswer(recs, label, j)
    BY PendingLabels DEF KnowsAnswer, Vetted, Writing, InTx
  <1> QED
    BY <1>4, <1>5, <1>6

-----------------------------------------------------------------------------
\* The steps that leave the board alone.

LEMMA FetchKnown ==
    ASSUME Inv, Known, NEW t \in Threads, Fetch(t)
    PROVE  Known'
  <1>1. /\ job[t] \in Job /\ pc[t] = "fetch" /\ recs' = recs /\ KnowsView(recs, pc[t], job[t])
        /\ job[t].op \in AllOps
    BY ThreadFacts DEF Fetch, At, Known, Knows, Fit
  <1>2. job[t].view = {} /\ job[t].pos = 1 /\ (job[t].need => job[t].op = "action")
    BY <1>1 DEF KnowsView
  <1>3. CASE IsProposal(recs, job[t].prop, job[t].op)
    <2> DEFINE label == IF job[t].op # "prediction" THEN "view"
                        ELSE IF Requires(t) = << >> THEN "begin" ELSE "needs"
               j == [job[t] EXCEPT !.since = Len(recs)]
    <2>1. pc' = [pc EXCEPT ![t] = label] /\ job' = [job EXCEPT ![t] = j]
      BY <1>3 DEF Fetch, Goto
    <2>2. /\ j.op = job[t].op /\ j.need = job[t].need /\ j.view = {} /\ j.pos = 1
      BY <1>1, <1>2 DEF Job
    <2>3. /\ label \in {"view", "begin", "needs"}
          /\ label = "view" => j.op # "prediction"
          /\ label # "view" => j.op = "prediction"
      BY <2>2
    <2> HIDE DEF label, j
    <2>4. KnowsView(recs, label, j)
      <3>1. CASE label = "view"
        <4>1. Walked(label, j) = {} /\ 1 \in DOMAIN Consulted[j.op]
          BY <1>1, <2>2, <2>3, <3>1, ConsultedLists DEF Walked
        <4> QED
          BY <1>2, <2>2, <3>1, <4>1 DEF KnowsView
      <3>2. CASE label # "view"
        <4>1. Walked(label, j) = {}
          BY <2>3, <3>2, ConsultedLists DEF Walked
        <4> QED
          BY <1>2, <2>2, <2>3, <3>2, <4>1 DEF KnowsView
      <3> QED
        BY <3>1, <3>2
    <2>5. /\ KnowsBelief(recs, label, j) /\ KnowsAction(recs, label, j)
          /\ KnowsAnswer(recs, label, j)
      BY <2>3 DEF KnowsBelief, KnowsAction, KnowsAnswer, Vetted, Cleared, Writing, InTx
    <2> QED
      BY <1>1, <2>1, <2>4, <2>5, KnowingStep DEF Knows
  <1>4. CASE ~IsProposal(recs, job[t].prop, job[t].op)
    <2> DEFINE j == [job[t] EXCEPT !.code = "INVALID_PROPOSAL"]
    <2>1. pc' = [pc EXCEPT ![t] = "return"] /\ job' = [job EXCEPT ![t] = j]
      BY <1>4 DEF Fetch, Goto
    <2>2. j.op = job[t].op /\ j.need = job[t].need /\ j.code = "INVALID_PROPOSAL"
      BY <1>1 DEF Job
    <2> HIDE DEF j
    <2>3. KnowsView(recs, "return", j)
      BY <1>2, <2>2, PendingLabels DEF KnowsView
    <2>4. KnowsBelief(recs, "return", j) /\ KnowsAction(recs, "return", j)
      BY PendingLabels DEF KnowsBelief, KnowsAction
    <2>5. KnowsAnswer(recs, "return", j)
      BY <2>2 DEF KnowsAnswer
    <2> QED
      BY <1>1, <2>1, <2>3, <2>4, <2>5, KnowingStep DEF Knows
  <1> QED
    BY <1>3, <1>4

LEMMA ListSlotKnown ==
    ASSUME Inv, Known, NEW t \in Threads, ListSlot(t)
    PROVE  Known'
  <1> DEFINE slots == Consulted[job[t].op]
             last  == job[t].pos = Len(slots)
             label == IF last THEN "judge" ELSE "view"
             seen  == Listed(recs, slots[job[t].pos], job[t].trace, FALSE)
             pos   == IF last THEN 1 ELSE job[t].pos + 1
             mid   == [job[t] EXCEPT !.view = job[t].view \cup seen]
             j     == [mid EXCEPT !.pos = pos]
  <1>1. /\ job[t] \in Job /\ pc[t] = "view" /\ recs' = recs /\ KnowsView(recs, "view", job[t])
        /\ job[t].op \in AllOps /\ pc[t] \in Pending
    BY ThreadFacts, PendingLabels DEF ListSlot, At, Known, Knows, Fit
  <1>2. job' = [job EXCEPT ![t] = j] /\ pc' = [pc EXCEPT ![t] = label]
    BY Zenon DEF ListSlot, Goto
  <1>3. /\ DOMAIN slots = 1..Len(slots) /\ Len(slots) \in Nat /\ job[t].pos \in DOMAIN slots
        /\ job[t].need => job[t].op = "action"
    BY <1>1, ConsultedLists DEF KnowsView
  <1>4. /\ j.op = job[t].op /\ j.trace = job[t].trace /\ j.since = job[t].since
        /\ j.need = job[t].need /\ j.view = job[t].view \cup seen /\ j.pos = pos
    <2> HIDE DEF seen, pos
    <2> QED
      BY <1>1 DEF Job
  <1>5. \A i \in seen : i \in DOMAIN recs /\ recs[i].trace = j.trace
    BY <1>4, Zenon DEF Listed, Visible
  <1>6. \A i \in job[t].view : i \in DOMAIN recs /\ recs[i].trace = j.trace
    BY <1>1, <1>4, PendingLabels DEF KnowsView
  <1>7. \A slot \in Walked("view", job[t]) : Caught(recs, j, slot)
    <2>1. \A slot \in Walked("view", job[t]) : Caught(recs, job[t], slot)
      BY <1>1, PendingLabels DEF KnowsView
    <2> HIDE DEF seen, j
    <2> QED
      BY <1>4, <2>1 DEF Caught
  <1>8. Caught(recs, j, slots[job[t].pos])
    <2>1. job[t].since \in 0..Len(recs) /\ DOMAIN recs = 1..Len(recs) /\ Len(recs) \in Nat
      BY <1>1, ThreadFacts, LenProperties DEF Fit, Inv, TypeOK
    <2>2. StandsOrExpires(recs)
      BY DEF Known
    <2>3. \A q \in 1..job[t].since :
            /\ recs[q].slot = slots[job[t].pos] /\ recs[q].mode = "COMMIT"
            /\ recs[q].trace = job[t].trace /\ ~recs[q].ttl
            => q \in seen
      <3> HIDE DEF slots
      <3> QED
        BY <2>1, <2>2 DEF StandsOrExpires, Listed, Visible, Active, slots
    <2> HIDE DEF seen, j, slots
    <2> QED
      BY <1>4, <2>3 DEF Caught
  <1>9. \A slot \in Walked(label, j) : slot \in Walked("view", job[t]) \/ slot = slots[job[t].pos]
    <2>1. CASE last
      <3>1. Walked(label, j) = {slots[k] : k \in 1..Len(slots)}
        BY <1>3, <1>4, <2>1 DEF Walked
      <3>2. Walked("view", job[t]) = {slots[k] : k \in 1..(job[t].pos - 1)}
        BY DEF Walked
      <3> HIDE DEF slots, j
      <3> QED
        BY <1>3, <2>1, <3>1, <3>2
    <2>2. CASE ~last
      <3>1. label = "view" /\ j.pos = job[t].pos + 1 /\ j.op = job[t].op
        BY <1>4, <2>2
      <3> HIDE DEF slots, label, j
      <3> QED
        BY <1>3, <3>1 DEF Walked, slots
    <2> QED
      BY <2>1, <2>2
  <1>10. label \in {"view", "judge"} /\ (label = "judge" => pos = 1)
    OBVIOUS
  <1>11. label = "view" => pos \in DOMAIN slots
    BY <1>3
  <1>12. KnowsView(recs, label, j)
    <2> HIDE DEF label, pos, j, seen
    <2> QED
      BY <1>3, <1>4, <1>5, <1>6, <1>7, <1>8, <1>9, <1>10, <1>11 DEF KnowsView
  <1>13. /\ KnowsBelief(recs, label, j) /\ KnowsAction(recs, label, j)
         /\ KnowsAnswer(recs, label, j)
    <2> HIDE DEF label, j
    <2> QED
      BY <1>10 DEF KnowsBelief, KnowsAction, KnowsAnswer, Vetted, Cleared, Writing, InTx
  <1> HIDE DEF label, j
  <1> QED
    BY <1>1, <1>2, <1>12, <1>13, KnowingStep DEF Knows

\* What is judged for a call stays judged when its other locals change.
LEMMA SameCallJudged ==
    ASSUME NEW rs \in Seq(Record), NEW j, NEW new, j.since \in 0..Len(rs),
           new.since = j.since, new.trace = j.trace
    PROVE  /\ \A deps, open : DepsJudged(rs, Len(rs), j, deps, open)
                                => DepsJudged(rs, Len(rs), new, deps, open)
           /\ \A kind : Weighed(rs, Len(rs), j, kind) => Weighed(rs, Len(rs), new, kind)
           /\ \A requires : Satisfied(rs, Len(rs), j, requires)
                              => Satisfied(rs, Len(rs), new, requires)
           /\ \A flags : Unblocked(rs, Len(rs), j, flags) => Unblocked(rs, Len(rs), new, flags)
  <1>1. Later(rs, Len(rs), j, rs, Len(rs), new)
    BY SameCall
  <1>2. \A deps, open : DepsJudged(rs, Len(rs), j, deps, open)
                          => DepsJudged(rs, Len(rs), new, deps, open)
    BY <1>1, DepsJudgedLater
  <1>3. \A kind : Weighed(rs, Len(rs), j, kind) => Weighed(rs, Len(rs), new, kind)
    BY <1>1, WeighedLater
  <1>4. \A requires : Satisfied(rs, Len(rs), j, requires) => Satisfied(rs, Len(rs), new, requires)
    BY <1>1, SatisfiedLater
  <1>5. \A flags : Unblocked(rs, Len(rs), j, flags) => Unblocked(rs, Len(rs), new, flags)
    BY <1>1, UnblockedLater
  <1> QED
    BY <1>2, <1>3, <1>4, <1>5

\* What the judging of a belief starts from.
LEMMA JudgingBelief ==
    ASSUME Inv, Known, NEW t \in Threads, pc[t] \in {"judge", "arbitrate", "gate"},
           job[t].op = "belief"
    PROVE  /\ pc[t] \in Pending /\ pc[t] # "view" /\ job[t] \in Job /\ recs \in Seq(Record)
           /\ job[t].since \in 0..Len(recs) /\ job[t].since \in Nat
           /\ Viewed(recs, job[t], "percepts")
           /\ StandsOrExpires(recs) /\ Deps(t) \in Seq(Kinds)
           /\ DOMAIN Deps(t) = 1..Len(Deps(t)) /\ Len(Deps(t)) \in Nat
           /\ KnowsView(recs, pc[t], job[t]) /\ KnowsBelief(recs, pc[t], job[t])
  <1>1. pc[t] \in Pending /\ pc[t] # "view"
    BY PendingLabels
  <1>2. job[t].since \in 0..Len(recs) /\ job[t] \in Job
    BY <1>1, ThreadFacts DEF Fit
  <1>3. Deps(t) \in Seq(Kinds)
    BY <1>1, AcceptedLists
  <1>4. DOMAIN Deps(t) = 1..Len(Deps(t)) /\ Len(Deps(t)) \in Nat
    BY <1>3, LenProperties
  <1>5. KnowsView(recs, pc[t], job[t]) /\ KnowsBelief(recs, pc[t], job[t])
    BY DEF Known, Knows
  <1> QED
    BY <1>1, <1>2, <1>3, <1>4, <1>5, WalkedView

LEMMA JudgeBeliefKnown ==
    ASSUME Inv, Known, NEW t \in Threads, JudgeBelief(t)
    PROVE  Known'
  <1> DEFINE res == BeliefVerdict(recs, job[t].view, Deps(t))
  <1>1. pc[t] = "judge" /\ job[t].op = "belief" /\ recs' = recs
    BY DEF JudgeBelief, At
  <1>2. /\ pc[t] \in Pending /\ pc[t] # "view" /\ job[t] \in Job /\ recs \in Seq(Record)
        /\ job[t].since \in 0..Len(recs) /\ job[t].since \in Nat
        /\ Viewed(recs, job[t], "percepts")
        /\ Deps(t) \in Seq(Kinds) /\ DOMAIN Deps(t) = 1..Len(Deps(t)) /\ Len(Deps(t)) \in Nat
        /\ KnowsView(recs, pc[t], job[t])
    BY <1>1, JudgingBelief
  <1>3. /\ res.code = "OK" => DepsJudged(recs, Len(recs), job[t], Deps(t), 0)
        /\ res.code = "CONFLICTING_EVIDENCE" =>
             res.at \in DOMAIN Deps(t) /\ DepsJudged(recs, Len(recs), job[t], Deps(t), res.at)
    BY <1>2, BeliefJudged
  <1>4. job[t].pos = 1
    BY <1>1, <1>2 DEF KnowsView
  <1>5. recs[job[t].prop].body.depends_on = Deps(t)
    BY DEF Deps
  <1>6. CASE res.code = "OK" /\ Goto(t, IF Deps(t) = << >> THEN "begin" ELSE "gate") /\ UNCHANGED job
    <2> DEFINE label == IF Deps(t) = << >> THEN "begin" ELSE "gate"
    <2>1. pc' = [pc EXCEPT ![t] = label] /\ job' = [job EXCEPT ![t] = job[t]]
      BY <1>6 DEF Goto, Inv, TypeOK
    <2>2. /\ label \in {"begin", "gate"}
          /\ label = "gate" => 1 \in DOMAIN Deps(t)
          /\ label = "begin" => DOMAIN Deps(t) = {}
      <3>1. Deps(t) # << >> => 1 \in DOMAIN Deps(t)
        BY <1>2, EmptySeq
      <3>2. Deps(t) = << >> => DOMAIN Deps(t) = {}
        OBVIOUS
      <3> QED
        BY <3>1, <3>2
    <2> HIDE DEF label, res
    <2>3. KnowsBelief(recs, label, job[t])
      <3>1. DepsJudged(recs, Len(recs), job[t], Deps(t), 0)
        BY <1>3, <1>6
      <3>2. label \notin {"arbitrate"} /\ (label \in Vetted => label = "begin")
        BY <2>2 DEF Vetted, Writing, InTx
      <3> QED
        BY <1>4, <1>5, <2>2, <3>1, <3>2 DEF KnowsBelief
    <2>4. /\ KnowsAction(recs, label, job[t]) /\ KnowsAnswer(recs, label, job[t])
          /\ label \in Pending \ {"view", "judge"} /\ label # "needs"
      BY <1>1, <2>2, PendingLabels DEF KnowsAction, KnowsAnswer
    <2> QED
      BY <1>1, <1>2, <2>1, <2>3, <2>4, MovingOn
  <1>7. CASE /\ res.code = "CONFLICTING_EVIDENCE"
             /\ job' = [job EXCEPT ![t].pos = res.at] /\ Goto(t, "arbitrate")
    <2> DEFINE j == [job[t] EXCEPT !.pos = res.at]
    <2>1. pc' = [pc EXCEPT ![t] = "arbitrate"] /\ job' = [job EXCEPT ![t] = j]
      BY <1>7 DEF Goto
    <2>2. res.at \in DOMAIN Deps(t) /\ DepsJudged(recs, Len(recs), job[t], Deps(t), res.at)
      BY <1>3, <1>7
    <2> HIDE DEF res
    <2>3. /\ j.op = job[t].op /\ j.trace = job[t].trace /\ j.since = job[t].since
          /\ j.view = job[t].view /\ j.need = job[t].need /\ j.prop = job[t].prop /\ j.pos = res.at
      BY <1>2 DEF Job
    <2> HIDE DEF j
    <2>4. DepsJudged(recs, Len(recs), j, Deps(t), res.at)
      BY <1>2, <2>2, <2>3, SameCallJudged
    <2>5. KnowsBelief(recs, "arbitrate", j)
      BY <1>5, <2>2, <2>3, <2>4 DEF KnowsBelief, Vetted, Writing, InTx
    <2>6. /\ KnowsAction(recs, "arbitrate", j) /\ KnowsAnswer(recs, "arbitrate", j)
          /\ "arbitrate" \in Pending \ {"view", "judge"}
      BY <1>1, <2>3, PendingLabels DEF KnowsAction, KnowsAnswer
    <2> QED
      BY <1>1, <1>2, <2>1, <2>3, <2>5, <2>6, MovingOn
  <1>8. CASE Reject(t, res.code)
    <2> HIDE DEF res
    <2> QED
      BY <1>1, <1>2, <1>8, RejectKnown
  <1> QED
    BY <1>6, <1>7, <1>8, Zenon DEF JudgeBelief

LEMMA ArbitrateKnown ==
    ASSUME Inv, Known, NEW t \in Threads, Arbitrate(t)
    PROVE  Known'
  <1> DEFINE conf == ConfOf(recs, Find(t, "percepts", Deps(t)[job[t].pos]))
             j == [job[t] EXCEPT !.pos = 1]
  <1>1. pc[t] = "arbitrate" /\ job[t].op = "belief" /\ recs' = recs
    BY ThreadFacts DEF Arbitrate, At, Fit
  <1>2. /\ pc[t] \in Pending /\ pc[t] # "view" /\ job[t] \in Job /\ recs \in Seq(Record)
        /\ job[t].since \in 0..Len(recs) /\ StandsOrExpires(recs)
        /\ DOMAIN Deps(t) = 1..Len(Deps(t)) /\ Len(Deps(t)) \in Nat
        /\ KnowsBelief(recs, pc[t], job[t])
    BY <1>1, JudgingBelief
  <1>3. job[t].pos \in DOMAIN Deps(t) /\ DepsJudged(recs, Len(recs), job[t], Deps(t), job[t].pos)
    BY <1>1, <1>2 DEF KnowsBelief, Deps
  <1>4. CASE conf >= ArbConf /\ job' = [job EXCEPT ![t].pos = 1] /\ Goto(t, "gate")
    <2>1. /\ j.op = job[t].op /\ j.trace = job[t].trace /\ j.since = job[t].since
          /\ j.view = job[t].view /\ j.need = job[t].need /\ j.prop = job[t].prop /\ j.pos = 1
      BY <1>2 DEF Job
    <2>2. pc' = [pc EXCEPT ![t] = "gate"] /\ job' = [job EXCEPT ![t] = j]
      BY <1>4 DEF Goto
    <2>3. DepsJudged(recs, Len(recs), job[t], Deps(t), 0)
      BY <1>2, <1>3, <1>4, ArbitrationSettles DEF Find
    <2> HIDE DEF j, conf
    <2>4. DepsJudged(recs, Len(recs), j, Deps(t), 0)
      BY <1>2, <2>1, <2>3, SameCallJudged
    <2>5. j.pos \in DOMAIN Deps(t) /\ 1..(j.pos - 1) = {}
      BY <1>2, <1>3, <2>1
    <2>6. KnowsBelief(recs, "gate", j)
      BY <2>1, <2>4, <2>5 DEF KnowsBelief, Vetted, Writing, InTx, Deps
    <2>7. /\ KnowsAction(recs, "gate", j) /\ KnowsAnswer(recs, "gate", j)
          /\ "gate" \in Pending \ {"view", "judge"}
      BY <1>1, <2>1, PendingLabels DEF KnowsAction, KnowsAnswer
    <2> QED
      BY <1>1, <1>2, <2>1, <2>2, <2>6, <2>7, MovingOn
  <1>5. CASE Reject(t, "UNRESOLVED_CONFLICT")
    BY <1>1, <1>2, <1>5, RejectKnown
  <1> QED
    BY <1>4, <1>5, Zenon DEF Arbitrate

LEMMA GateKnown ==
    ASSUME Inv, Known, NEW t \in Threads, Gate(t)
    PROVE  Known'
  <1> DEFINE conf  == ConfOf(recs, Find(t, "percepts", Deps(t)[job[t].pos]))
             last  == job[t].pos = Len(Deps(t))
             label == IF last THEN "claims" ELSE "gate"
             pos   == IF last THEN 1 ELSE job[t].pos + 1
             saw   == job[t].vetted \/ conf # NoConf
             mid   == [job[t] EXCEPT !.pos = pos]
             j     == [mid EXCEPT !.vetted = saw]
  <1>1. pc[t] = "gate" /\ job[t].op = "belief" /\ recs' = recs
    BY ThreadFacts DEF Gate, At, Fit
  <1>2. /\ pc[t] \in Pending /\ pc[t] # "view" /\ job[t] \in Job /\ recs \in Seq(Record)
        /\ job[t].since \in 0..Len(recs) /\ StandsOrExpires(recs)
        /\ DOMAIN Deps(t) = 1..Len(Deps(t)) /\ Len(Deps(t)) \in Nat
        /\ KnowsBelief(recs, pc[t], job[t])
    BY <1>1, JudgingBelief
  <1>3. /\ job[t].pos \in DOMAIN Deps(t) /\ DepsJudged(recs, Len(recs), job[t], Deps(t), 0)
        /\ \A k \in 1..(job[t].pos - 1) : Weighed(recs, Len(recs), job[t], Deps(t)[k])
    BY <1>1, <1>2 DEF KnowsBelief, Deps
  <1>4. CASE Reject(t, "LOW_CONFIDENCE")
    BY <1>1, <1>2, <1>4, RejectKnown
  <1>5. CASE ~TooWeak(conf)
    <2>1. job' = [job EXCEPT ![t] = j] /\ pc' = [pc EXCEPT ![t] = label]
      BY <1>5, Zenon DEF Gate, Goto
    <2>2. Weighed(recs, Len(recs), job[t], Deps(t)[job[t].pos])
      BY <1>2, <1>5, GateWeighs DEF Find
    <2>3. \A k \in 1..job[t].pos : Weighed(recs, Len(recs), job[t], Deps(t)[k])
      BY <1>2, <1>3, <2>2
    <2>4. /\ label = "claims" => \A k \in DOMAIN Deps(t) : Weighed(recs, Len(recs), job[t], Deps(t)[k])
          /\ label = "gate" => /\ pos \in DOMAIN Deps(t)
                               /\ \A k \in 1..(pos - 1) : Weighed(recs, Len(recs), job[t], Deps(t)[k])
          /\ label \in {"claims", "gate"}
      BY <1>2, <1>3, <2>3
    <2> HIDE DEF pos, saw, label
    <2>5. /\ j.op = job[t].op /\ j.trace = job[t].trace /\ j.since = job[t].since
          /\ j.view = job[t].view /\ j.need = job[t].need /\ j.prop = job[t].prop /\ j.pos = pos
      BY <1>2 DEF Job
    <2> HIDE DEF j
    <2>6. /\ DepsJudged(recs, Len(recs), j, Deps(t), 0)
          /\ \A kind : Weighed(recs, Len(recs), job[t], kind) => Weighed(recs, Len(recs), j, kind)
      BY <1>2, <1>3, <2>5, SameCallJudged
    <2>7. KnowsBelief(recs, label, j)
      BY <2>4, <2>5, <2>6 DEF KnowsBelief, Vetted, Writing, InTx, Deps
    <2>8. /\ KnowsAction(recs, label, j) /\ KnowsAnswer(recs, label, j)
          /\ label \in Pending \ {"view", "judge"} /\ label # "needs"
      BY <1>1, <2>4, <2>5, PendingLabels DEF KnowsAction, KnowsAnswer
    <2> QED
      BY <1>1, <1>2, <2>1, <2>5, <2>7, <2>8, MovingOn
  <1> QED
    BY <1>4, <1>5, Zenon DEF Gate

LEMMA ClaimsKnown ==
    ASSUME Inv, Known, NEW t \in Threads, Claims(t)
    PROVE  Known'
  <1> DEFINE conf  == ConfOf(recs, Find(t, "percepts", Deps(t)[job[t].pos]))
             label == IF conf # NoConf \/ job[t].pos = Len(Deps(t)) THEN "begin" ELSE "claims"
             found == [job[t] EXCEPT !.claims = TRUE]
             next  == [job[t] EXCEPT !.pos = job[t].pos + 1]
             j     == IF conf # NoConf THEN found ELSE next
  <1>1. /\ pc[t] = "claims" /\ job[t].op = "belief" /\ recs' = recs /\ job[t] \in Job
        /\ pc[t] \in Pending /\ pc[t] # "view"
    BY ThreadFacts, PendingLabels DEF Claims, At, Fit
  <1>2. job' = [job EXCEPT ![t] = j] /\ pc' = [pc EXCEPT ![t] = label]
    BY Zenon DEF Claims, Goto
  <1>3. label \in {"begin", "claims"}
    OBVIOUS
  <1>4. /\ j.op = job[t].op /\ j.trace = job[t].trace /\ j.since = job[t].since
        /\ j.view = job[t].view /\ j.need = job[t].need /\ j.prop = job[t].prop
    <2> HIDE DEF conf
    <2> QED
      BY <1>1 DEF Job
  <1> HIDE DEF label, j
  <1>5. label \in Vetted /\ label \in Pending \ {"view", "judge"} /\ label # "needs"
    BY <1>3, PendingLabels DEF Vetted
  <1>6. KnowsBelief(recs, label, j) /\ KnowsAction(recs, label, j) /\ KnowsAnswer(recs, label, j)
    BY <1>1, <1>4, <1>5, VerdictKept
  <1> QED
    BY <1>1, <1>2, <1>4, <1>5, <1>6, MovingOn

LEMMA CheckNeedsKnown ==
    ASSUME Inv, Known, NEW t \in Threads, CheckNeeds(t)
    PROVE  Known'
  <1> DEFINE found == Find(t, "beliefs", Requires(t)[job[t].pos])
             label == IF job[t].pos = Len(Requires(t)) THEN "begin" ELSE "needs"
             j     == [job[t] EXCEPT !.pos = job[t].pos + 1]
  <1>1. /\ pc[t] = "needs" /\ recs' = recs /\ job[t] \in Job /\ pc[t] \in Pending /\ pc[t] # "view"
    BY ThreadFacts, PendingLabels DEF CheckNeeds, At
  <1>2. job[t].op = "prediction"
    BY <1>1 DEF Known, Knows, KnowsView
  <1>3. CASE Reject(t, "PREDICTION_MISSING_BELIEF")
    BY <1>1, <1>3, RejectKnown
  <1>4. CASE found # NoId
    <2>1. job' = [job EXCEPT ![t] = j] /\ pc' = [pc EXCEPT ![t] = label]
      BY <1>4, Zenon DEF CheckNeeds, Goto
    <2>2. /\ j.op = job[t].op /\ j.trace = job[t].trace /\ j.since = job[t].since
          /\ j.view = job[t].view /\ j.need = job[t].need
      BY <1>1 DEF Job
    <2>3. label \in {"begin", "needs"}
      OBVIOUS
    <2> HIDE DEF label, j
    <2>4. /\ KnowsBelief(recs, label, j) /\ KnowsAction(recs, label, j)
          /\ KnowsAnswer(recs, label, j) /\ label \in Pending \ {"view", "judge"}
      BY <1>2, <2>2, <2>3, PendingLabels DEF KnowsBelief, KnowsAction, KnowsAnswer
    <2> QED
      BY <1>1, <1>2, <2>1, <2>2, <2>4, MovingOn
  <1> QED
    BY <1>3, <1>4, Zenon DEF CheckNeeds

LEMMA JudgePlanKnown ==
    ASSUME Inv, Known, NEW t \in Threads, JudgePlan(t)
    PROVE  Known'
  <1> DEFINE steps == recs[job[t].prop].body.steps
             code  == PlanVerdict(recs, job[t].view, steps)
             j     == [job[t] EXCEPT !.code = code]
  <1>1. /\ pc[t] = "judge" /\ job[t].op = "plan" /\ recs' = recs /\ job[t] \in Job
        /\ pc[t] \in Pending /\ pc[t] # "view"
    BY ThreadFacts, PendingLabels DEF JudgePlan, At
  <1>2. /\ job[t].since \in 0..Len(recs) /\ job[t].prop \in DOMAIN recs
        /\ recs \in Seq(Record) /\ StandsOrExpires(recs) /\ job[t].since \in Nat
        /\ Viewed(recs, job[t], "constraints")
        /\ steps \in Seq([requires_beliefs : Seq(Kinds), flags : SUBSET STRING])
    BY <1>1, ThreadFacts, WalkedView, AcceptedLists DEF Fit
  <1>3. CASE code = "PLAN_FEASIBLE"
    <2>1. job' = [job EXCEPT ![t] = j] /\ pc' = [pc EXCEPT ![t] = "return"]
      BY <1>3, Zenon DEF JudgePlan, Goto
    <2>2. \A s \in DOMAIN steps :
             /\ Satisfied(recs, Len(recs), job[t], steps[s].requires_beliefs)
             /\ Unblocked(recs, Len(recs), job[t], steps[s].flags)
      <3> HIDE DEF steps
      <3> QED
        BY <1>2, <1>3, PlanJudged
    <2> HIDE DEF code
    <2>3. /\ j.op = job[t].op /\ j.trace = job[t].trace /\ j.since = job[t].since
          /\ j.view = job[t].view /\ j.need = job[t].need /\ j.prop = job[t].prop
          /\ j.code = "PLAN_FEASIBLE"
      BY <1>1, <1>3 DEF Job
    <2> HIDE DEF j
    <2>4. \A s \in DOMAIN steps :
             /\ Satisfied(recs, Len(recs), j, steps[s].requires_beliefs)
             /\ Unblocked(recs, Len(recs), j, steps[s].flags)
      <3> HIDE DEF steps
      <3> QED
        BY <1>2, <2>2, <2>3, SameCallJudged
    <2>5. KnowsAnswer(recs, "return", j)
      BY <1>2, <2>3, <2>4 DEF KnowsAnswer
    <2>6. KnowsBelief(recs, "return", j) /\ KnowsAction(recs, "return", j)
      BY <1>1, <2>3 DEF KnowsBelief, KnowsAction
    <2> QED
      BY <1>1, <2>1, <2>3, <2>5, <2>6, MovingOn
  <1>4. CASE Reject(t, code)
    <2> HIDE DEF code
    <2> QED
      BY <1>1, <1>4, RejectKnown
  <1> QED
    BY <1>3, <1>4, Zenon DEF JudgePlan

LEMMA JudgeActionKnown ==
    ASSUME Inv, Known, NEW t \in Threads, JudgeAction(t)
    PROVE  Known'
  <1> DEFINE r        == recs[job[t].prop]
             forecast == IF job[t].need THEN PredictionVerdict(recs, job[t].view, ActionType(r)) ELSE "OK"
             verdict  == ActionVerdict(recs, job[t].view, r.body.requires_beliefs, r.body.flags)
  <1>1. /\ pc[t] = "judge" /\ job[t].op = "action" /\ recs' = recs /\ job[t] \in Job
        /\ pc[t] \in Pending /\ pc[t] # "view"
    BY ThreadFacts, PendingLabels DEF JudgeAction, At
  <1>2. /\ recs \in Seq(Record) /\ StandsOrExpires(recs) /\ job[t].since \in Nat
        /\ Viewed(recs, job[t], "constraints") /\ Viewed(recs, job[t], "predictions")
    BY <1>1, WalkedView
  <1>3. r.body.requires_beliefs \in Seq(Kinds)
    <2>1. r.mode = "PROPOSE" /\ r.slot = "actions" /\ job[t].prop \in DOMAIN recs
      BY <1>1, ThreadFacts DEF Fit, SlotOf
    <2> QED
      BY <2>1 DEF Inv, TypeOK, WellFormed
  <1>4. CASE Reject(t, forecast) \/ Reject(t, verdict)
    <2> HIDE DEF forecast, verdict
    <2> QED
      BY <1>1, <1>4, RejectKnown
  <1>5. CASE forecast = "OK" /\ verdict = "OK" /\ Goto(t, "begin") /\ UNCHANGED job
    <2>1. pc' = [pc EXCEPT ![t] = "begin"] /\ job' = [job EXCEPT ![t] = job[t]]
      BY <1>5 DEF Goto, Inv, TypeOK
    <2>2. /\ Satisfied(recs, Len(recs), job[t], r.body.requires_beliefs)
          /\ Unblocked(recs, Len(recs), job[t], r.body.flags)
      <3> HIDE DEF r
      <3> QED
        BY <1>2, <1>3, <1>5, ActionJudged
    <2>3. job[t].need => Foretold(recs, Len(recs), job[t], r) /\ Unwarned(recs, Len(recs), job[t], r)
      <3>1. job[t].need => PredictionVerdict(recs, job[t].view, ActionType(r)) = "OK"
        BY <1>5, Zenon
      <3> HIDE DEF r
      <3> QED
        BY <1>2, <3>1, PredictionJudged, WarningsHeeded DEF Viewed
    <2>4. KnowsAction(recs, "begin", job[t])
      BY <2>2, <2>3, Zenon DEF KnowsAction
    <2>5. /\ KnowsBelief(recs, "begin", job[t]) /\ KnowsAnswer(recs, "begin", job[t])
          /\ "begin" \in Pending \ {"view", "judge"}
      BY <1>1, PendingLabels DEF KnowsBelief, KnowsAnswer
    <2> QED
      BY <1>1, <2>1, <2>4, <2>5, MovingOn
  <1> QED
    BY <1>4, <1>5, Zenon DEF JudgeAction

\* The steps of an open transaction, before it commits.
LEMMA WritingKnown ==
    ASSUME Inv, Known, NEW t \in Threads,
           BeginTx(t) \/ WriteEvidence(t) \/ Supersede(t) \/ WriteRecord(t)
    PROVE  Known'
  <1>1. PICK label \in Writing : pc' = [pc EXCEPT ![t] = label]
    BY DEF BeginTx, WriteEvidence, Supersede, WriteRecord, Goto, Writing, InTx
  <1>2. /\ pc[t] \in Cleared /\ recs' = recs /\ job' = [job EXCEPT ![t] = job[t]]
    BY DEF BeginTx, WriteEvidence, Supersede, WriteRecord, At, Cleared, Writing, InTx, Inv, TypeOK
  <1>3. label \in Vetted /\ label \in Pending \ {"view", "judge"} /\ label # "needs"
    BY PendingLabels DEF Vetted, Writing, InTx
  <1>4. /\ KnowsBelief(recs, label, job[t]) /\ KnowsAction(recs, label, job[t])
        /\ KnowsAnswer(recs, label, job[t])
    BY <1>2, <1>3, VerdictKept
  <1>5. pc[t] \in Pending /\ pc[t] # "view"
    BY <1>2, PendingLabels DEF Cleared, Writing, InTx
  <1> QED
    BY <1>1, <1>2, <1>3, <1>4, <1>5, MovingOn

LEMMA CallKnown ==
    ASSUME Inv, Known, NEW t \in Threads, NEW op, NEW p, NEW trace, NEW need,
           need => op = "action", Call(t, op, p, trace, need)
    PROVE  Known'
  <1> DEFINE j == [NoJob EXCEPT !.op = op, !.prop = p, !.trace = trace, !.need = need]
  <1>1. j.op = op /\ j.need = need /\ j.view = {} /\ j.pos = 1
    BY DEF NoJob
  <1>2. /\ recs' = recs /\ pc' = [pc EXCEPT ![t] = "acquire"] /\ job' = [job EXCEPT ![t] = j]
    BY Zenon DEF Call, Goto
  <1> HIDE DEF j
  <1>3. Knows(recs, "acquire", j)
    BY <1>1, PendingLabels DEF Knows, KnowsView, KnowsBelief, KnowsAction, KnowsAnswer
  <1> QED
    BY <1>2, <1>3, KnowingStep

LEMMA AcquireKnown ==
    ASSUME Inv, Known, NEW t \in Threads, Acquire(t)
    PROVE  Known'
  <1>1. /\ recs' = recs /\ pc[t] = "acquire" /\ pc' = [pc EXCEPT ![t] = "fetch"]
        /\ job' = [job EXCEPT ![t] = job[t]]
    BY DEF Acquire, At, Goto, Inv, TypeOK
  <1>2. KnowsView(recs, "acquire", job[t])
    BY <1>1 DEF Known, Knows
  <1>3. Knows(recs, "fetch", job[t])
    BY <1>2, PendingLabels, Zenon
    DEF Knows, KnowsView, KnowsBelief, KnowsAction, KnowsAnswer, Vetted, Cleared, Writing, InTx
  <1> QED
    BY <1>1, <1>3, KnowingStep

\* The end of a call, and a crash.
LEMMA LeavingKnown ==
    ASSUME Inv, Known, recs' = recs,
           \A u \in Threads : \/ pc'[u] = pc[u] /\ job'[u] = job[u]
                              \/ pc'[u] = "idle" /\ job'[u] = NoJob
    PROVE  Known'
BY IdleKnows, SameBoard

LEMMA ReturnOrRaiseKnown ==
    ASSUME Inv, Known, NEW t \in Threads, Return(t) \/ Raise(t)
    PROVE  Known'
  <1>1. /\ recs' = recs /\ pc' = [pc EXCEPT ![t] = "idle"] /\ job' = [job EXCEPT ![t] = NoJob]
    BY DEF Return, Raise, Goto
  <1>2. \A u \in Threads : IF u = t THEN pc'[u] = "idle" /\ job'[u] = NoJob
                           ELSE pc'[u] = pc[u] /\ job'[u] = job[u]
    BY <1>1 DEF Inv, TypeOK
  <1> QED
    BY <1>1, <1>2, LeavingKnown

LEMMA CrashKnown ==
    ASSUME Inv, Known, NEW k \in Kernels, Crash(k)
    PROVE  Known'
BY LeavingKnown DEF Crash

-----------------------------------------------------------------------------
\* The steps that change the board.

LEMMA WriteKnown ==
    ASSUME Inv, Known, NEW d \in Drafts, Write(d)
    PROVE  Known'
  <1>1. /\ d \in Record /\ FreshRecord(d) /\ Permits(d) /\ recs' = Append(recs, d)
        /\ pc' = pc /\ job' = job /\ recs \in Seq(Record)
    BY PublishedIsRecord DEF Write, Inv, TypeOK
  <1>2. /\ DOMAIN recs = 1..Len(recs) /\ DOMAIN recs' = 1..(Len(recs) + 1) /\ Len(recs) \in Nat
        /\ \A i \in 1..Len(recs) : recs'[i] = recs[i]
        /\ recs'[Len(recs) + 1] = d
    BY <1>1, AppendProperties, LenProperties
  <1>3. \A i \in DOMAIN recs' : i \in DOMAIN recs \/ recs'[i] = d
    BY <1>2
  <1>4. Grown(recs, recs')
    BY <1>1, AppendGrows DEF FreshRecord
  <1>5. StandsOrExpires(recs')
    <2>1. d.slot \in {"percepts", "constraints"} => d.mode = "COMMIT"
      BY <1>1 DEF Permits, Permissions
    <2>2. d.status = "ACTIVE"
      BY <1>1 DEF FreshRecord
    <2>3. StandsOrExpires(recs)
      BY DEF Known
    <2> QED
      BY <1>2, <1>3, <2>1, <2>2, <2>3 DEF StandsOrExpires
  <1>6. \A c \in DOMAIN recs' : c \notin DOMAIN recs => Justified(recs', c)
    BY <1>1, <1>3 DEF Justified, FreshRecord
  <1> QED
    BY <1>1, <1>4, <1>5, <1>6, GrownBoard

LEMMA ExpireKnown ==
    ASSUME Inv, Known, NEW p \in DOMAIN recs, Expire(p)
    PROVE  Known'
  <1>1. /\ recs' = ExpireRecord(recs, p) /\ recs[p].ttl /\ pc' = pc /\ job' = job
        /\ recs \in Seq(Record)
    BY DEF Expire, Inv, TypeOK
  <1>2. /\ recs' \in Seq(Record) /\ Len(recs') = Len(recs) /\ DOMAIN recs' = DOMAIN recs
        /\ Kept(recs[p], recs'[p])
        /\ \A i \in DOMAIN recs : i # p => recs'[i] = recs[i]
    BY <1>1, ExpireFacts
  <1>3. Grown(recs, recs')
    BY <1>1, <1>2, UpdateGrows
  <1>4. StandsOrExpires(recs')
    <2>1. StandsOrExpires(recs)
      BY DEF Known
    <2>2. /\ recs'[p].ttl /\ recs'[p].slot = recs[p].slot /\ recs'[p].mode = recs[p].mode
          /\ DOMAIN recs' = DOMAIN recs /\ \A i \in DOMAIN recs : i # p => recs'[i] = recs[i]
      BY <1>1, <1>2, Zenon DEF Kept
    <2> QED
      BY <2>1, <2>2 DEF StandsOrExpires
  <1> QED
    BY <1>1, <1>2, <1>3, <1>4, GrownBoard

\* An invalidated proposal is none of what stands.
LEMMA InvalidateStands ==
    ASSUME NEW rs \in Seq(Record), NEW p \in DOMAIN rs, NEW why \in Reasons,
           rs[p].mode = "PROPOSE", StandsOrExpires(rs)
    PROVE  StandsOrExpires(Invalidate(rs, p, why))
  <1> DEFINE new == Invalidate(rs, p, why)
  <1>1. /\ DOMAIN new = DOMAIN rs /\ Kept(rs[p], new[p])
        /\ \A i \in DOMAIN rs : i # p => new[i] = rs[i]
    BY InvalidateFacts
  <1> HIDE DEF new
  <1>2. StandsOrExpires(new)
    BY <1>1 DEF StandsOrExpires, Kept
  <1> QED
    BY <1>2 DEF new

LEMMA RefuseKnown ==
    ASSUME Inv, Known, NEW t \in Threads, Refuse(t)
    PROVE  Known'
  <1>1. /\ pc[t] = "refuse" /\ pc[t] \in Pending /\ pc' = [pc EXCEPT ![t] = "return"]
        /\ recs' = Invalidate(recs, job[t].prop, job[t].code) /\ job' = job
        /\ recs \in Seq(Record)
    BY PendingLabels DEF Refuse, At, Goto, Inv, TypeOK
  <1>2. /\ job[t].code \in Refusals /\ job[t].code \in Reasons
        /\ job[t].prop \in DOMAIN recs /\ recs[job[t].prop].mode = "PROPOSE"
    BY <1>1, ThreadFacts DEF Fit, Reasons
  <1>3. Grown(recs, recs')
    BY <1>1, <1>2, InvalidateGrows
  <1>4. StandsOrExpires(recs')
    BY <1>1, <1>2, InvalidateStands DEF Known
  <1>5. DOMAIN recs' = DOMAIN recs
    BY <1>1, <1>2, InvalidateFacts
  <1>6. Knows(recs', "return", job[t])
    <2>1. job[t].need => job[t].op = "action"
      BY DEF Known, Knows, KnowsView
    <2>2. job[t].code \notin {"COMMITTED", "PLAN_FEASIBLE"}
      BY <1>2 DEF Refusals
    <2> QED
      BY <2>1, <2>2, PendingLabels, Zenon
      DEF Knows, KnowsView, KnowsBelief, KnowsAction, KnowsAnswer
  <1>7. \A u \in Threads : \/ pc'[u] = pc[u] /\ job'[u] = job[u]
                           \/ Knows(recs', pc'[u], job'[u])
    <2>1. \A u \in Threads : IF u = t THEN pc'[u] = "return" ELSE pc'[u] = pc[u]
      BY <1>1 DEF Inv, TypeOK
    <2> QED
      BY <1>1, <1>6, <2>1
  <1> QED
    BY <1>3, <1>4, <1>5, <1>7, GrownBoard

\* What a transaction adds to board rs: the last record is the commit.
LEMMA LandedAdds ==
    ASSUME NEW rs \in Seq(Record), NEW j \in Job, j.prop \in DOMAIN rs, j.op \in AllOps,
           WellFormed(rs[j.prop]), j.trace \in Traces, rs[j.prop].mode = "PROPOSE",
           rs[j.prop].slot = SlotOf[j.op], StandsOrExpires(rs)
    PROVE  LET new == Landed(rs, j)
               c   == Len(new)
           IN  /\ new \in Seq(Record) /\ Grown(rs, new) /\ StandsOrExpires(new)
               /\ c \in DOMAIN new /\ c - 1 \in Nat /\ Len(rs) <= c - 1
               /\ \A i \in DOMAIN new : i \notin DOMAIN rs => i = c \/ new[i].role # "kernel"
               /\ new[c].role = "kernel" /\ new[c].slot = rs[j.prop].slot
               /\ new[c].body = rs[j.prop].body /\ new[c].kind = rs[j.prop].kind
               /\ new[c].trace = j.trace /\ new[c].since = j.since /\ new[c].src = j.prop
  <1> DEFINE p    == j.prop
             n    == Len(rs)
             gone == Invalidate(rs, p, "SUPERSEDED_BY_COMMIT")
             e    == EvidenceFor(rs, p, j.trace, Voucher(j), j.since)
             new  == Landed(rs, j)
             facts(mid, commit, evid) ==
                /\ new = Append(mid, commit) /\ commit = CommittedFrom(rs, p, j.trace, evid, j.since)
                /\ mid \in Seq(Record) /\ StandsOrExpires(mid) /\ n <= Len(mid)
                /\ \A i \in DOMAIN mid : i \notin DOMAIN rs => mid[i].role # "kernel"
  <1>1. Voucher(j) \in Vouchers /\ j.since \in Nat /\ rs[p].kind \in Kinds
    BY DEF Job, Voucher, Vouchers, WellFormed
  <1>2. new \in Seq(Record) /\ Grown(rs, new)
    BY BoardsGrow
  <1>3. "SUPERSEDED_BY_COMMIT" \in Reasons
    BY DEF Reasons
  <1>4. /\ gone \in Seq(Record) /\ Len(gone) = n /\ DOMAIN gone = DOMAIN rs
    BY <1>3, InvalidateFacts
  <1>5. StandsOrExpires(gone)
    BY <1>3, InvalidateStands
  <1>6. n \in Nat /\ DOMAIN rs = 1..n
    BY LenProperties
  <1>7. \E mid, commit, evid : facts(mid, commit, evid)
    <2>1. CASE j.op = "belief"
      <3>1. new = Append(Append(gone, e), CommittedFrom(rs, p, j.trace, Len(rs) + 1, j.since))
        BY <2>1, LandedIsCommit
      <3>2. e \in Record
        BY <1>1, WrittenAreRecords, 0 \in Nat
      <3>3. e.role # "kernel" /\ e.slot = "evidence" /\ e.status = "ACTIVE"
        BY DEF EvidenceFor
      <3> HIDE DEF gone, e, new
      <3>4. /\ Append(gone, e) \in Seq(Record) /\ Len(Append(gone, e)) = n + 1
            /\ DOMAIN Append(gone, e) = 1..(n + 1) /\ DOMAIN gone = 1..n
            /\ \A i \in 1..n : Append(gone, e)[i] = gone[i]
            /\ Append(gone, e)[n + 1] = e
        BY <1>4, <1>6, <3>2, AppendProperties, LenProperties
      <3> DEFINE mid == Append(gone, e)
      <3> HIDE DEF mid
      <3>5. \A i \in DOMAIN mid : i \in DOMAIN rs \/ mid[i] = e
        BY <1>6, <3>4 DEF mid
      <3>6. \A i \in DOMAIN mid : i \in DOMAIN rs => mid[i] = gone[i] /\ i \in DOMAIN gone
        BY <1>4, <1>6, <3>4 DEF mid
      <3>7. StandsOrExpires(mid)
        BY <1>5, <3>3, <3>5, <3>6 DEF StandsOrExpires
      <3>8. n <= Len(mid) /\ mid \in Seq(Record)
        BY <1>6, <3>4 DEF mid
      <3>9. facts(mid, CommittedFrom(rs, p, j.trace, Len(rs) + 1, j.since), Len(rs) + 1)
        BY <3>1, <3>3, <3>5, <3>7, <3>8 DEF mid
      <3> HIDE DEF facts
      <3> QED
        BY <3>9
    <2>2. CASE j.op # "belief"
      <3>1. new = Append(gone, CommittedFrom(rs, p, j.trace, NoId, j.since))
        BY <2>2, LandedIsCommit
      <3> HIDE DEF gone, new
      <3>2. facts(gone, CommittedFrom(rs, p, j.trace, NoId, j.since), NoId)
        BY <1>4, <1>5, <1>6, <3>1
      <3> HIDE DEF facts
      <3> QED
        BY <3>2
    <2> QED
      BY <2>1, <2>2
  <1>8. PICK mid, commit, evid : facts(mid, commit, evid)
    BY <1>7
  <1>9. /\ commit.role = "kernel" /\ commit.slot = rs[p].slot /\ commit.body = rs[p].body
        /\ commit.kind = rs[p].kind /\ commit.trace = j.trace /\ commit.since = j.since
        /\ commit.src = p /\ commit.status = "ACTIVE" /\ commit.mode = "COMMIT"
    BY <1>8 DEF CommittedFrom
  <1> DEFINE m == Len(mid)
  <1>10. /\ Len(new) = m + 1 /\ DOMAIN new = 1..(m + 1) /\ DOMAIN mid = 1..m /\ m \in Nat
         /\ \A i \in 1..m : new[i] = mid[i]
         /\ new[m + 1] = commit
    <2>1. new = Append(mid, commit) /\ mid \in Seq(Record)
      BY <1>8
    <2> HIDE DEF new
    <2>2. mid \in Seq(Record \cup {commit})
      BY <2>1
    <2> QED
      BY <2>1, <2>2, AppendProperties, LenProperties
  <1> HIDE DEF new, m, gone, e
  <1>11. \A i \in DOMAIN new : IF i = m + 1 THEN new[i] = commit ELSE i \in DOMAIN mid /\ new[i] = mid[i]
    BY <1>10
  <1>12. StandsOrExpires(new)
    BY <1>8, <1>9, <1>11 DEF StandsOrExpires
  <1>13. m + 1 \in DOMAIN new /\ m + 1 - 1 \in Nat /\ n <= m + 1 - 1
    BY <1>6, <1>8, <1>10 DEF m
  <1>14. \A i \in DOMAIN new : i \notin DOMAIN rs => i = m + 1 \/ new[i].role # "kernel"
    BY <1>8, <1>11
  <1> QED
    BY <1>2, <1>9, <1>10, <1>12, <1>13, <1>14 DEF new

\* A commit lands with what its call knew, and its caller is told so.
LEMMA EndTxKnown ==
    ASSUME Inv, Known, NEW t \in Threads, EndTx(t)
    PROVE  Known'
  <1> DEFINE j    == job[t]
             n    == Len(recs)
             c    == Len(recs')
             m    == c - 1
             x    == recs'[c]
             told == [j EXCEPT !.code = "COMMITTED"]
  <1>1. /\ pc[t] = "end" /\ pc' = [pc EXCEPT ![t] = "return"] /\ job' = [job EXCEPT ![t] = told]
        /\ recs' = work /\ pc[t] \in Writing /\ pc[t] \in Pending
        /\ pc[t] \in Vetted /\ pc[t] \in Cleared
    BY PendingLabels DEF EndTx, At, Goto, Writing, InTx, Vetted, Cleared
  <1>2. recs' = Landed(recs, j)
    BY <1>1 DEF Inv, Safe, Ready
  <1>3. /\ j \in Job /\ j.prop \in DOMAIN recs /\ WellFormed(recs[j.prop]) /\ j.trace \in Traces
        /\ recs \in Seq(Record)
    BY <1>1, AcceptedBoards DEF Inv, TypeOK
  <1>4. /\ recs[j.prop].mode = "PROPOSE" /\ recs[j.prop].slot = SlotOf[j.op]
        /\ j.since \in 0..n /\ j.op \in AllOps
    BY <1>1, ThreadFacts DEF Fit, Writing, InTx
  <1>5. StandsOrExpires(recs)
    BY DEF Known
  <1>6. /\ Grown(recs, recs') /\ StandsOrExpires(recs')
        /\ c \in DOMAIN recs' /\ m \in Nat /\ n <= m
        /\ \A i \in DOMAIN recs' : i \notin DOMAIN recs => i = c \/ recs'[i].role # "kernel"
        /\ x.role = "kernel" /\ x.slot = recs[j.prop].slot
        /\ x.body = recs[j.prop].body /\ x.kind = recs[j.prop].kind
        /\ x.trace = j.trace /\ x.since = j.since /\ x.src = j.prop
    BY <1>2, <1>3, <1>4, <1>5, LandedAdds
  <1>7. /\ told.op = j.op /\ told.trace = j.trace /\ told.prop = j.prop /\ told.need = j.need
        /\ told.code = "COMMITTED"
    BY <1>3 DEF Job
  <1>8. /\ KnowsView(recs, pc[t], j) /\ KnowsBelief(recs, pc[t], j) /\ KnowsAction(recs, pc[t], j)
    BY DEF Known, Knows
  <1>9. n \in Nat /\ DOMAIN recs = 1..n /\ DOMAIN recs' = 1..c /\ c \in Nat
    BY <1>3, <1>6, LenProperties DEF Grown
  <1> HIDE DEF told, x
  <1>10. /\ Later(recs, n, j, recs', m, x)
         /\ \A i \in 1..n : Kept(recs[i], recs'[i])
    <2>1. \A i \in 1..n : Kept(recs[i], recs'[i])
      BY <1>6, <1>9 DEF Grown
    <2> HIDE DEF c, m, n, j
    <2> QED
      BY <1>4, <1>6, <1>9, <2>1 DEF Later
  <1>11. Justified(recs', c)
    <2>1. x.since < c
      <3> HIDE DEF j
      <3> QED
        BY <1>4, <1>6, <1>9
    <2>2. ASSUME x.slot = "beliefs"
          PROVE  /\ x.body.depends_on \in Seq(Kinds)
                 /\ DepsJudged(recs', m, x, x.body.depends_on, 0)
                 /\ \A k \in DOMAIN x.body.depends_on : Weighed(recs', m, x, x.body.depends_on[k])
      <3>1. j.op = "belief"
        BY <1>4, <1>6, <2>2 DEF SlotOf, AllOps
      <3>2. /\ DepsJudged(recs, n, j, x.body.depends_on, 0)
            /\ \A k \in DOMAIN x.body.depends_on : Weighed(recs, n, j, x.body.depends_on[k])
        BY <1>1, <1>6, <1>8, <3>1 DEF KnowsBelief
      <3>3. x.body.depends_on \in Seq(Kinds)
        BY <1>3, <1>6, <2>2 DEF WellFormed
      <3> HIDE DEF j, n, m, c
      <3>4. DepsJudged(recs', m, x, x.body.depends_on, 0)
        BY <1>10, <3>2, DepsJudgedLater
      <3>5. \A kind : Weighed(recs, n, j, kind) => Weighed(recs', m, x, kind)
        BY <1>10, WeighedLater
      <3> QED
        BY <3>2, <3>3, <3>4, <3>5
    <2>3. ASSUME x.slot = "actions"
          PROVE  /\ Satisfied(recs', m, x, x.body.requires_beliefs)
                 /\ Unblocked(recs', m, x, x.body.flags)
      <3>1. j.op = "action"
        BY <1>4, <1>6, <2>3 DEF SlotOf, AllOps
      <3>2. /\ Satisfied(recs, n, j, x.body.requires_beliefs)
            /\ Unblocked(recs, n, j, x.body.flags)
        BY <1>1, <1>6, <1>8, <3>1 DEF KnowsAction
      <3> HIDE DEF j, n, m, c
      <3> QED
        BY <1>10, <3>2, SatisfiedLater, UnblockedLater
    <2> HIDE DEF j, n, c, m
    <2> QED
      BY <2>1, <2>2, <2>3, Zenon DEF Justified, x, m
  <1>12. \A i \in DOMAIN recs' : i \notin DOMAIN recs => Justified(recs', i)
    <2> HIDE DEF c
    <2> QED
      BY <1>6, <1>11 DEF Justified
  <1>13. Knows(recs', "return", told)
    <2>1. KnowsView(recs', "return", told)
      BY <1>7, <1>8, PendingLabels DEF KnowsView
    <2>2. KnowsBelief(recs', "return", told) /\ KnowsAction(recs', "return", told)
      BY PendingLabels DEF KnowsBelief, KnowsAction
    <2>3. told.need => Foretold(recs', m, told, x)
      <3>1. told.need => Foretold(recs, n, j, recs[j.prop])
        BY <1>1, <1>7, <1>8 DEF KnowsView, KnowsAction
      <3> DEFINE r == recs[j.prop]
      <3>2. /\ r.body = x.body /\ r.kind = x.kind /\ told.trace = j.trace
            /\ n \in Nat /\ m \in Nat /\ n <= m
        BY <1>6, <1>7, <1>9
      <3>3. told.need => Foretold(recs, n, j, r)
        BY <3>1
      <3> HIDE DEF r, j, n, m, c
      <3>4. \A i \in 1..n : Kept(recs[i], recs'[i])
        BY <1>10
      <3> QED
        BY <3>2, <3>3, <3>4, ForetoldLater
    <2>4. told.need => Unwarned(recs', m, x, x)
      <3>1. told.need => Unwarned(recs, n, j, recs[j.prop])
        BY <1>1, <1>7, <1>8 DEF KnowsView, KnowsAction
      <3> DEFINE r == recs[j.prop]
      <3>2. /\ r.body = x.body /\ r.kind = x.kind
            /\ told.need => Unwarned(recs, n, j, r)
        BY <1>6, <3>1
      <3> HIDE DEF r, j, n, m, c
      <3> QED
        BY <1>10, <3>2, UnwarnedLater
    <2>5. x.since \in 0..m
      <3> HIDE DEF j
      <3> QED
        BY <1>4, <1>6, <1>9
    <2>6. KnowsAnswer(recs', "return", told)
      <3> HIDE DEF j, n, c
      <3>1. /\ c \in DOMAIN recs' /\ recs'[c].role = "kernel" /\ recs'[c].src = told.prop
            /\ recs'[c].trace = told.trace /\ recs'[c].since \in 0..(c - 1)
            /\ told.need => Foretold(recs', c - 1, told, recs'[c])
                            /\ Unwarned(recs', c - 1, recs'[c], recs'[c])
        BY <1>6, <1>7, <2>3, <2>4, <2>5 DEF x
      <3> HIDE DEF m
      <3> QED
        BY <1>7, <3>1, Zenon DEF KnowsAnswer
    <2> QED
      BY <2>1, <2>2, <2>6 DEF Knows
  <1>14. \A u \in Threads : \/ pc'[u] = pc[u] /\ job'[u] = job[u]
                            \/ Knows(recs', pc'[u], job'[u])
    <2>1. \A u \in Threads : IF u = t THEN pc'[u] = "return" /\ job'[u] = told
                             ELSE pc'[u] = pc[u] /\ job'[u] = job[u]
      BY <1>1 DEF Inv, TypeOK
    <2> QED
      BY <1>13, <2>1
  <1> QED
    BY <1>6, <1>12, <1>14, GrownBoard

-----------------------------------------------------------------------------
\* The invariant holds throughout.

LEMMA InitKnown == Init => Known
  <1> SUFFICES ASSUME Init PROVE Known
    OBVIOUS
  <1>1. DOMAIN recs = {} /\ \A t \in Threads : pc[t] = "idle" /\ job[t] = NoJob
    BY DEF Init
  <1> QED
    BY <1>1, IdleKnows DEF Known, StandsOrExpires

LEMMA StepKnown ==
    ASSUME Inv, Known, NEW t \in Threads, Step(t)
    PROVE  Known'
BY AcquireKnown, FetchKnown, ListSlotKnown, JudgeBeliefKnown, ArbitrateKnown, GateKnown,
   ClaimsKnown, JudgePlanKnown, JudgeActionKnown, CheckNeedsKnown, RefuseKnown, WritingKnown,
   EndTxKnown, ReturnOrRaiseKnown
   DEF Step

LEMMA NextKnown == Inv /\ Known /\ [Next]_vars => Known'
  <1> SUFFICES ASSUME Inv, Known, [Next]_vars PROVE Known'
    OBVIOUS
  <1>1. ASSUME NEW t \in Threads, NEW op \in Ops, NEW p \in 0..Len(recs), NEW trace \in Traces,
               NEW need \in (IF op = "action" THEN BOOLEAN ELSE {FALSE}), Call(t, op, p, trace, need)
        PROVE  Known'
    <2>1. need => op = "action"
      BY <1>1
    <2> QED
      BY <1>1, <2>1, CallKnown
  <1>2. CASE UNCHANGED vars
    BY <1>2, SameBoard DEF vars
  <1> QED
    BY <1>1, <1>2, WriteKnown, ExpireKnown, StepKnown, ReturnOrRaiseKnown, CrashKnown DEF Next

\* What calls know is true of the board and stays true, and every commit on the board
\* was known to be justified: whatever is written, expires, fails or crashes meanwhile.
THEOREM KernelKnown == Spec => []Known
BY InitKnown, NextKnown, KernelInv, PTL DEF Spec

-----------------------------------------------------------------------------
\* What it says of the commits.

LEMMA PriorIsBefore ==
    /\ \A c, slot, kind : Before(c, slot, kind) = Prior(recs, c - 1, recs[c], slot, kind)
    /\ \A c, q : Standing(c, q) <=> Stood(recs, c - 1, recs[c], q)
BY DEF Before, Prior, Standing, Stood

\* A belief is not committed on a dependency nobody observed, or one whose standing
\* percept is stale, or is in conflict with nothing to arbitrate it: for any number
\* of kernels on the store, and whatever the clients write meanwhile.
THEOREM KernelDependenciesJudged == Spec => []DependenciesJudged
  <1>1. ASSUME Known PROVE DependenciesJudged
    <2> SUFFICES ASSUME NEW c \in CommitsIn("beliefs"), NEW k \in DOMAIN recs[c].body.depends_on,
                        \A j \in 1..(k - 1) :
                            \A i \in Before(c, "percepts", recs[c].body.depends_on[j]) :
                                ~recs[i].body.conflict
                 PROVE  LET seen == Before(c, "percepts", recs[c].body.depends_on[k])
                        IN  /\ seen # {}
                            /\ \A q \in seen : Standing(c, q) =>
                                 /\ ~recs[q].body.stale
                                 /\ recs[q].body.conflict => \E i \in seen : recs[i].conf >= ArbConf
      BY Zenon DEF DependenciesJudged
    <2> DEFINE deps == recs[c].body.depends_on
    <2>1. /\ DepsJudged(recs, c - 1, recs[c], deps, 0) /\ deps = recs[c].body.depends_on
          /\ deps \in Seq(Kinds)
      BY <1>1 DEF Known, CommitsIn, Justified
    <2>2. CalmBefore(recs, c - 1, recs[c], deps, k)
      BY PriorIsBefore DEF CalmBefore
    <2>3. Observed(recs, c - 1, recs[c], deps[k]) /\ (k # 0 => Arbitrated(recs, c - 1, recs[c], deps[k]))
      <3> HIDE DEF deps
      <3> QED
        BY <2>1, <2>2 DEF DepsJudged
    <2>4. k # 0
      BY <2>1, LenProperties
    <2> QED
      BY <2>3, <2>4, PriorIsBefore DEF Observed, Arbitrated
  <1> QED
    BY <1>1, KernelKnown, PTL

\* A belief is not committed on a dependency of which every percept is below
\* min_confidence, arbitrated or not.
THEOREM KernelWeakEvidenceRefused == Spec => []WeakEvidenceRefused
  <1>1. ASSUME Known PROVE WeakEvidenceRefused
    <2>1. \A c \in CommitsIn("beliefs") : \A k \in DOMAIN recs[c].body.depends_on :
              Weighed(recs, c - 1, recs[c], recs[c].body.depends_on[k])
      BY <1>1 DEF Known, CommitsIn, Justified
    <2> QED
      BY <2>1, PriorIsBefore, Zenon DEF WeakEvidenceRefused, Weighed
  <1> QED
    BY <1>1, KernelKnown, PTL

\* An action is not committed against a standing constraint of its episode, nor
\* without a committed, true belief for everything it requires.
THEOREM KernelActionsJudged == Spec => []ActionsJudged
  <1>1. ASSUME Known, Inv PROVE ActionsJudged
    <2> SUFFICES ASSUME NEW c \in CommitsIn("actions")
                 PROVE  /\ \A i \in DOMAIN recs[c].body.requires_beliefs :
                             \E b \in Before(c, "beliefs", recs[c].body.requires_beliefs[i]) :
                                recs[b].body.value
                        /\ \A q \in DOMAIN recs :
                             /\ recs[q].slot = "constraints" /\ recs[q].trace = recs[c].trace
                             /\ Standing(c, q)
                             => ~(/\ recs[q].body.enabled
                                  /\ recs[q].body.blocks_field \in recs[c].body.flags \ {NoField})
      BY Zenon DEF ActionsJudged
    <2>1. /\ recs[c].since < c
          /\ Satisfied(recs, c - 1, recs[c], recs[c].body.requires_beliefs)
          /\ Unblocked(recs, c - 1, recs[c], recs[c].body.flags)
      BY <1>1 DEF Known, CommitsIn, Justified
    <2>2. c \in Nat /\ DOMAIN recs = 1..Len(recs) /\ recs[c] \in Record
      BY <1>1, LenProperties, ElementOfSeq DEF CommitsIn, Inv, TypeOK
    <2>3. \A q \in DOMAIN recs : Standing(c, q) => q \in 1..(c - 1)
      BY <2>1, <2>2 DEF Standing, Record, RecordWith
    <2> QED
      BY <2>1, <2>3, PriorIsBefore DEF Satisfied, Unblocked
  <1> QED
    BY <1>1, KernelKnown, KernelInv, PTL

-----------------------------------------------------------------------------
\* What it says of the answers.

\* A refusal that is about to be returned is on the board.
Answered ==
    \A t \in Threads : pc[t] = "return" /\ job[t].code \in Refusals =>
        /\ job[t].prop \in DOMAIN recs
        /\ recs[job[t].prop].status = "INVALIDATED"
        /\ recs[job[t].prop].reason = job[t].code

\* A step of a thread is its own, and comes to its return with a refusal only by refusing.
LEMMA OwnStep ==
    ASSUME Inv, NEW u \in Threads, Step(u)
    PROVE  /\ \A v \in Threads \ {u} : pc'[v] = pc[v] /\ job'[v] = job[v]
           /\ pc'[u] = "return" /\ job'[u].code \in Refusals => Refuse(u)
  <1>1. pc \in [Threads -> Labels] /\ job \in [Threads -> Job]
    BY DEF Inv, TypeOK
  <1> DEFINE others  == \A v \in Threads \ {u} : pc'[v] = pc[v] /\ job'[v] = job[v]
             elsewhere == others /\ pc'[u] # "return"
  <1>2. CASE Acquire(u) \/ BeginTx(u) \/ WriteEvidence(u) \/ Supersede(u) \/ WriteRecord(u)
             \/ Return(u)
    <2>1. elsewhere
      BY <1>1, <1>2 DEF Acquire, BeginTx, WriteEvidence, Supersede, WriteRecord, Return, Goto
    <2> QED
      BY <2>1
  <1>3. CASE Refuse(u)
    BY <1>1, <1>3 DEF Refuse, Goto
  <1>4. CASE ListSlot(u)
    <2>1. elsewhere
      BY <1>1, <1>4 DEF ListSlot, Goto
    <2> QED
      BY <2>1
  <1>5. ASSUME NEW code, Reject(u, code) PROVE elsewhere
    BY <1>1, <1>5 DEF Reject, Goto
  <1>6. CASE JudgeBelief(u)
    <2>1. elsewhere
      BY <1>1, <1>5, <1>6 DEF JudgeBelief, Goto
    <2> QED
      BY <2>1
  <1>7. CASE Arbitrate(u)
    <2>1. elsewhere
      BY <1>1, <1>5, <1>7 DEF Arbitrate, Goto
    <2> QED
      BY <2>1
  <1>8. CASE Gate(u)
    <2>1. elsewhere
      BY <1>1, <1>5, <1>8 DEF Gate, Goto
    <2> QED
      BY <2>1
  <1>9. CASE Claims(u)
    <2>1. elsewhere
      BY <1>1, <1>9 DEF Claims, Goto
    <2> QED
      BY <2>1
  <1>10. CASE CheckNeeds(u)
    <2>1. elsewhere
      BY <1>1, <1>5, <1>10 DEF CheckNeeds, Goto
    <2> QED
      BY <2>1
  <1>11. CASE JudgeAction(u)
    <2>1. elsewhere
      BY <1>1, <1>5, <1>11 DEF JudgeAction, Goto
    <2> QED
      BY <2>1
  <1>12. ASSUME NEW code, job' = [job EXCEPT ![u].code = code]
         PROVE  job'[u].code = code /\ \A v \in Threads \ {u} : job'[v] = job[v]
    BY <1>1, <1>12 DEF Job
  <1>13. ASSUME NEW label, Goto(u, label)
         PROVE  pc'[u] = label /\ \A v \in Threads \ {u} : pc'[v] = pc[v]
    BY <1>1, <1>13 DEF Goto
  <1>14. CASE Fetch(u)
    <2>1. CASE IsProposal(recs, job[u].prop, job[u].op)
      BY <1>1, <1>14, <2>1 DEF Fetch, Goto
    <2>2. CASE ~IsProposal(recs, job[u].prop, job[u].op)
      <3>1. job' = [job EXCEPT ![u].code = "INVALID_PROPOSAL"] /\ Goto(u, "return")
        BY <1>14, <2>2 DEF Fetch
      <3> QED
        BY <1>12, <1>13, <3>1 DEF Refusals
    <2> QED
      BY <2>1, <2>2
  <1>15. CASE JudgePlan(u)
    <2> DEFINE code == PlanVerdict(recs, job[u].view, recs[job[u].prop].body.steps)
    <2>1. \/ code = "PLAN_FEASIBLE" /\ job' = [job EXCEPT ![u].code = code] /\ Goto(u, "return")
          \/ Reject(u, code)
      BY <1>15, Zenon DEF JudgePlan
    <2> HIDE DEF code
    <2> QED
      BY <1>5, <1>12, <1>13, <2>1 DEF Refusals
  <1>16. CASE EndTx(u)
    <2>1. job' = [job EXCEPT ![u].code = "COMMITTED"] /\ Goto(u, "return")
      BY <1>16 DEF EndTx
    <2> QED
      BY <1>12, <1>13, <2>1 DEF Refusals
  <1> QED
    BY <1>2, <1>3, <1>4, <1>6, <1>7, <1>8, <1>9, <1>10, <1>11, <1>14, <1>15, <1>16 DEF Step

LEMMA OnlyRefusals ==
    ASSUME Inv, [Next]_vars, NEW t \in Threads, pc'[t] = "return", job'[t].code \in Refusals
    PROVE  (pc[t] = "return" /\ job'[t] = job[t]) \/ Refuse(t)
  <1>1. pc \in [Threads -> Labels] /\ job \in [Threads -> Job]
    BY DEF Inv, TypeOK
  <1>2. ASSUME NEW u \in Threads, Step(u)
        PROVE  (pc[t] = "return" /\ job'[t] = job[t]) \/ Refuse(t)
    BY <1>2, OwnStep
  <1>3. ASSUME NEW u \in Threads, Raise(u) PROVE pc[t] = "return" /\ job'[t] = job[t]
    BY <1>1, <1>3 DEF Raise, Goto
  <1>4. ASSUME NEW k \in Kernels, Crash(k) PROVE pc[t] = "return" /\ job'[t] = job[t]
    BY <1>1, <1>4 DEF Crash
  <1>5. ASSUME NEW u \in Threads, NEW op, NEW p, NEW trace, NEW need, Call(u, op, p, trace, need)
        PROVE  pc[t] = "return" /\ job'[t] = job[t]
    BY <1>1, <1>5 DEF Call, Goto
  <1>6. CASE UNCHANGED vars
    BY <1>6 DEF vars
  <1>7. ASSUME NEW d, Write(d) PROVE pc[t] = "return" /\ job'[t] = job[t]
    BY <1>7 DEF Write
  <1>8. ASSUME NEW i, Expire(i) PROVE pc[t] = "return" /\ job'[t] = job[t]
    BY <1>8 DEF Expire
  <1> QED
    BY <1>2, <1>3, <1>4, <1>5, <1>6, <1>7, <1>8 DEF Next

LEMMA NextAnswered ==
    ASSUME Inv, Inv', Answered, [Next]_vars, [Trail!SettledStep]_recs
    PROVE  Answered'
  <1> SUFFICES ASSUME NEW t \in Threads, pc'[t] = "return", job'[t].code \in Refusals
               PROVE  /\ job'[t].prop \in DOMAIN recs'
                      /\ recs'[job'[t].prop].status = "INVALIDATED"
                      /\ recs'[job'[t].prop].reason = job'[t].code
    BY DEF Answered
  <1>1. CASE pc[t] = "return" /\ job'[t] = job[t]
    <2> DEFINE p == job[t].prop
    <2>1. p \in DOMAIN recs /\ recs[p].status = "INVALIDATED" /\ recs[p].reason = job[t].code
      BY <1>1 DEF Answered
    <2>2. /\ DOMAIN recs = 1..Len(recs) /\ DOMAIN recs' = 1..Len(recs')
          /\ Len(recs) \in Nat /\ Len(recs') \in Nat
      BY LenProperties DEF Inv, TypeOK
    <2>3. Len(recs) <= Len(recs') /\ recs'[p] = recs[p]
      <3>1. CASE Trail!SettledStep
        BY <2>1, <3>1, Zenon DEF Trail!SettledStep
      <3>2. CASE recs' = recs
        BY <2>2, <3>2
      <3> QED
        BY <3>1, <3>2
    <2> QED
      BY <1>1, <2>1, <2>2, <2>3
  <1>2. CASE Refuse(t)
    <2>1. /\ pc[t] = "refuse" /\ pc[t] \in Pending /\ recs \in Seq(Record) /\ job' = job
          /\ recs' = Invalidate(recs, job[t].prop, job[t].code)
      BY <1>2, PendingLabels DEF Refuse, At, Inv, TypeOK
    <2>2. job[t].prop \in DOMAIN recs /\ job[t].code \in Reasons
      BY <2>1, ThreadFacts DEF Fit, Reasons
    <2> QED
      BY <2>1, <2>2, InvalidateFacts
  <1> QED
    BY <1>1, <1>2, OnlyRefusals

LEMMA ForecastIsKnown ==
    ASSUME NEW c, Foretold(recs, c - 1, recs[c], recs[c]), Unwarned(recs, c - 1, recs[c], recs[c])
    PROVE  ForecastPermits(c)
  <1>1. /\ Foretellings(c) = Forecasts(recs, c - 1, recs[c])
        /\ \A i : Leads(c, i) <=> Foremost(recs, c - 1, recs[c], i)
        /\ \A q : Standing(c, q) <=> Stood(recs, c - 1, recs[c], q)
    BY PriorIsBefore, Zenon DEF Foretellings, Forecasts, Leads, Foremost
  <1>2. \E i \in Foretellings(c) : /\ recs[i].body.action_type = ActionType(recs[c])
                                   /\ ~(recs[i].body.expected_outcome < 0)
    BY <1>1, Zenon DEF Foretold, Forecasts
  <1> QED
    BY <1>1, <1>2, Zenon DEF ForecastPermits, Unwarned

\* What calls are told of commits and plans, with any number of kernels on the store.
LEMMA AnswersKnown ==
    ASSUME Inv, Known, NEW t \in Threads, pc[t] = "return"
    PROVE  CommittedHolds(job[t]) /\ FeasibleHolds(job[t])
  <1> DEFINE j == job[t]
  <1>1. KnowsAnswer(recs, "return", j)
    BY DEF Known, Knows
  <1>2. ASSUME j.code = "COMMITTED"
        PROVE  \E c \in Trail!CommitsOf(j.prop) :
                  recs[c].trace = j.trace /\ (j.need => ForecastPermits(c))
    <2>1. PICK c \in DOMAIN recs :
            /\ recs[c].role = "kernel" /\ recs[c].src = j.prop /\ recs[c].trace = j.trace
            /\ j.need => Foretold(recs, c - 1, j, recs[c]) /\ Unwarned(recs, c - 1, recs[c], recs[c])
      BY <1>1, <1>2, Zenon DEF KnowsAnswer
    <2>2. j.need => Foretold(recs, c - 1, recs[c], recs[c])
      BY <2>1, Zenon DEF Foretold
    <2>3. c \in Trail!CommitsOf(j.prop)
      BY <2>1, Zenon DEF Trail!CommitsOf
    <2> QED
      BY <2>1, <2>2, <2>3, ForecastIsKnown, Zenon
  <1>3. ASSUME j.code = "PLAN_FEASIBLE", NEW s \in DOMAIN recs[j.prop].body.steps
        PROVE  LET step == recs[j.prop].body.steps[s]
               IN  /\ \A i \in DOMAIN step.requires_beliefs : \E b \in DOMAIN recs :
                        /\ recs[b].slot = "beliefs" /\ recs[b].mode = "COMMIT"
                        /\ recs[b].kind = step.requires_beliefs[i]
                        /\ recs[b].trace = j.trace
                        /\ recs[b].body.value
                   /\ \A q \in 1..j.since :
                        /\ recs[q].slot = "constraints" /\ recs[q].trace = j.trace
                        /\ ~recs[q].ttl
                        /\ \A i \in DOMAIN recs :
                             recs[i].slot = "constraints" /\ recs[i].kind = recs[q].kind
                             /\ recs[i].trace = j.trace => i <= q
                        => ~(recs[q].body.enabled /\ recs[q].body.blocks_field \in step.flags \ {NoField})
    <2> DEFINE step == recs[j.prop].body.steps[s]
               n    == Len(recs)
    <2>1. /\ Satisfied(recs, n, j, step.requires_beliefs) /\ Unblocked(recs, n, j, step.flags)
          /\ j.since \in 0..n
      BY <1>1, <1>3 DEF KnowsAnswer
    <2>2. DOMAIN recs = 1..n /\ n \in Nat
      BY LenProperties DEF Inv, TypeOK
    <2> HIDE DEF step, n, j
    <2>3. \A i \in DOMAIN step.requires_beliefs : \E b \in DOMAIN recs :
              /\ recs[b].slot = "beliefs" /\ recs[b].mode = "COMMIT"
              /\ recs[b].kind = step.requires_beliefs[i]
              /\ recs[b].trace = j.trace
              /\ recs[b].body.value
      BY <2>1, <2>2 DEF Satisfied, Prior
    <2>4. ASSUME NEW q \in 1..j.since, recs[q].slot = "constraints", recs[q].trace = j.trace,
                 ~recs[q].ttl,
                 \A i \in DOMAIN recs :
                    recs[i].slot = "constraints" /\ recs[i].kind = recs[q].kind
                    /\ recs[i].trace = j.trace => i <= q
          PROVE  ~(recs[q].body.enabled /\ recs[q].body.blocks_field \in step.flags \ {NoField})
      <3>1. q \in 1..n /\ q <= j.since
        BY <2>1, <2>2
      <3>2. Stood(recs, n, j, q)
        BY <2>2, <2>4, <3>1 DEF Stood, Prior
      <3> QED
        BY <2>1, <2>4, <3>1, <3>2 DEF Unblocked
    <2> QED
      BY <2>3, <2>4 DEF step
  <1> HIDE DEF j
  <1>4. CommittedHolds(j)
    BY <1>2, Zenon DEF CommittedHolds
  <1>5. FeasibleHolds(j)
    BY <1>3, Zenon DEF FeasibleHolds
  <1> QED
    BY <1>4, <1>5 DEF j

\* A caller told COMMITTED has its commit, and under require_prediction a prediction that
\* permits it and none of the leading kind that advises against it; a caller told
\* PLAN_FEASIBLE has the beliefs of its plan and no standing constraint against a step:
\* with any number of kernels on the store.
THEOREM KernelCommitsForetold ==
    Spec => [](\A t \in Threads : pc[t] = "return" =>
                  CommittedHolds(job[t]) /\ FeasibleHolds(job[t]))
  <1>1. Inv /\ Known => \A t \in Threads : pc[t] = "return" =>
                            CommittedHolds(job[t]) /\ FeasibleHolds(job[t])
    BY AnswersKnown, Zenon
  <1> QED
    BY <1>1, KernelInv, KernelKnown, PTL

\* The answer a caller gets is true of the board, and stays true until the call has
\* returned: besides the commits and the plans, a refusal has its settled proposal, which
\* nothing was committed from. That one needs the commit lock: with a second kernel
\* a refused proposal may be committed by the other one.
THEOREM KernelAnswersHold ==
    ASSUME OneKernel
    PROVE  Spec => []AnswersHold
  <1>1. Init => Answered
    BY DEF Init, Answered
  <1>2. Inv /\ Inv' /\ Answered /\ [Next]_vars /\ [Trail!SettledStep]_recs => Answered'
    BY NextAnswered
  <1>3. Spec => []Answered
    BY <1>1, <1>2, KernelInv, KernelSettled, PTL DEF Spec, Settled, Trail!Settled
  <1>4. ASSUME Inv, Known, Answered, VerdictsAgree PROVE AnswersHold
    <2>1. ASSUME NEW t \in Threads, pc[t] = "return" PROVE RefusedHolds(job[t])
      <3> SUFFICES ASSUME job[t].code \in Refusals
                   PROVE  /\ recs[job[t].prop].status = "INVALIDATED"
                          /\ recs[job[t].prop].reason = job[t].code
                          /\ Trail!CommitsOf(job[t].prop) = {}
        BY Zenon DEF RefusedHolds
      <3>1. /\ job[t].prop \in DOMAIN recs /\ recs[job[t].prop].status = "INVALIDATED"
            /\ recs[job[t].prop].reason = job[t].code
        BY <1>4, <2>1 DEF Answered
      <3>2. job[t].code # "SUPERSEDED_BY_COMMIT"
        BY DEF Refusals
      <3> QED
        BY <1>4, <3>1, <3>2 DEF VerdictsAgree, Trail!VerdictsAgree
    <2> QED
      BY <1>4, <2>1, AnswersKnown, Zenon DEF AnswersHold
  <1> QED
    BY <1>3, <1>4, KernelInv, KernelKnown, KernelVerdictsAgree, PTL
=============================================================================
