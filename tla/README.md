# A verification of alethic-kernel

alethic-kernel is a blackboard for agents. Clients and workers write typed *records*
into *slots*; what an agent believes, plans, predicts or does is first PROPOSEd and only
becomes fact when the kernel, having judged it against the other records, writes a COMMIT
in its place. Everything the program promises is a promise about that board: who may
write what, on what grounds a proposal becomes a commit, and that the board tells a true
and complete story of both.

This directory holds TLA+ modules translated from the code under `src/`, configurations
that check them with TLC, and theorems TLAPS checks.

1. [Inventory](#inventory) of the system
2. [The modules](#the-modules) and how they correspond to the code
3. [The runs](#the-runs), their bounds and fairness
4. [Where the code and its documents part](#where-the-code-and-its-documents-part)
5. [What is proved](#what-is-proved)
6. [What is abstracted, and what is not modelled](#what-is-abstracted-and-what-is-not-modelled)
7. [Plan](#plan)

## Inventory

| component | source | state | operations |
|---|---|---|---|
| Kernel pipelines | `kernel.py` | the commit lock; the locals of each call | `write`, `commit_belief_from_proposal`, `validate_plan`, `commit_prediction`, `commit_action_from_proposal` |
| Validators | `validators.py` | none | `validate_belief_commit`, `validate_action` |
| Record ids | `kernel.py` | `_counters` under `_counter_lock` | `_next_id`, the probing loop of `write` |
| View | `kernel.py` | none | `current_view` |
| Schema, permissions | `schema.py`, `permissions.py` | none | the record, the slots, the permission matrix |
| MemoryStore | `store.py` | records, slot lists, re-entrant lock, transaction depth, undo log | `append`, `get`, `list_slot`, `find_active_by_kind`, `invalidate`, `transaction` |
| SqliteStore | `sqlite_store.py` | connection, lock, depth, the file | the same, `list_by_status`, `list_persistent`, `count_invalidated_by_reason` |
| Store protocol | `store_protocol.py` | none | the promise both stores make |
| Orchestrator | `orchestrator.py` | worker order; per run: round, view, log, errors | `run` |
| Workers | `worker.py`, `sim_worker.py`, `adaptive_worker.py` | `_done`; `_queued`, `emitted` | `should_activate`, `step`, `reset`, `analyze` |
| Session | `session.py` | an episode counter under a lock | `episode_trace_id` |
| Migrations | `migrations.py` | the `schema_version` table | `migrate` |

**How they interact.** Workers and other clients call the kernel from any thread. The four
pipelines hold `_commit_lock` of their kernel from their first line to their last;
`write`, called by anybody, does not take it. A pipeline makes a sequence of calls of the
store, each atomic under the store's own lock, and computes between them on what they
returned. Its last writes go into one `transaction()`, during which it keeps the store's
lock. A store can be shared: by several kernels in one process, and, in its sqlite form, by
several processes. The orchestrator calls workers one after the other with a view it
took earlier; workers call back into the kernel. The adaptive worker reads the store past
the kernel.

**What is hard.**

* *Interleaving.* Between any two store calls of a pipeline other clients write, other
  kernels commit, and time passes.
* *Expiry.* A record with a `ttl` turns EXPIRED when the first reader after its deadline
  looks at it: a proposal or a percept may die while it is being judged.
* *Partial failure.* Any store call may raise; a refusal is two steps (verdict, then
  `invalidate`), a commit three writes.
* *Crashes.* A process dies with locks held and a transaction open; the sqlite file stays.
* *Nesting.* A block inside a block may fail and be caught; only the outermost decides.
* *Restarts.* Counters, queues and flags start at zero over a store that remembers.
* *Live records.* SqliteStore makes a new record from a row; MemoryStore hands out the one it
  keeps, which others go on changing, inside transactions that may be undone.
* *Two reads of one thing.* The view keeps the newest record of a kind,
  `find_active_by_kind` returns the oldest, and the pipelines use both.
* *Answers.* A caller acts on `(True, "COMMITTED")` or a refusal code after the lock has
  gone.

**What makes each component correct.** The pipelines: a proposal is settled once, a commit
lands whole, it is grounded in what was on the board while it was judged, the caller's
answer is true, and every call returns. The stores: a transaction is all or nothing and
both stores answer alike. Ids: never reused, passed over only when taken. View: a snapshot of
the episode. Orchestrator: it stops, and only when nothing is left to do. SimulatorWorker:
predictions an action can be gated by. AdaptiveWorker: constraints that have their causes on
the board, are not lost and not written again. Migrations: a version that never says more
than the schema has, and a file that opens in the end. `PROJECT.json` lists the hazards,
line by line, with the properties that cover them.

## The modules

The project models the system from three sides: what the kernel does to a board, what a store
does with it, and what a program built of all the parts does with both.

```
Blackboard                 records, permissions, queries and updates (no state)
 |- AuditTrail             what the kernel promises of the board
 |   |- CurrentView        a client's view of a board that changes      -> MCAuditTrail
 |   `- AuditTrailProofs   the trail's promises
 |       `- CurrentViewProofs     what a view is worth
 |- BlackboardProofs       lemmas on the updates
 |- AdaptiveWorker         refusals counted, constraints made of them (no state)
 `- Validators             verdicts on a view (no state)
     |- SimWorker          rules and predictions (no state)
     `- Kernel             the pipelines at work
         |- Orchestrator          the loop over workers
         |   `- Episodes          the demo: Orchestrator, SimWorker, AdaptiveWorker
         |       `- EpisodeProperties                                   -> MCEpisodes
         |           `- EpisodesProofs
         |               `- EpisodeOutcomes
         `- KernelProperties      what must hold; Trail == INSTANCE AuditTrail
             |- KernelClaims      what the documents say and the code does not do
             |   `- MCKernel      instances for TLC
             `- KernelProofs      the inductive invariant; Kernel implements AuditTrail
                 `- KernelJudgements   commits and answers are justified

StoredRecords              rows as stores keep them (no state)
 |- TransactionalStore     what transaction promises
 |- MemoryStore            rows in place, and a log of how to take them back
 |- SqliteStore            a file, and what the connection sees
 `- Stores                 both stores, Migrations, and their clients
     `- StoreProperties    each store implements TransactionalStore      -> MCStores
         `- StoreProofs    boards and the log, the refinements, the invariants, the twin
Migrations                 opening a file, process by process
```

**Blackboard.** The board is the sequence of records in order of arrival, and a record's
id is its index. `FindActiveByKind`, `Listed` and `Held` are the store's query, the loop of
`current_view` and the dictionary it builds (last commit of a kind wins);
`Invalidate`, `ExpireRecord`, `CommittedFrom` and `EvidenceFor` are the updates. `Permits`
and `ConfidenceOK` are the tests of `write`. Three fields of a record are history variables
the code does not keep: `src`, the proposal a commit came from; `since`, how many records
there were when that proposal was fetched; and `vetted` in an evidence payload, whether the
confidence gate compared anything. No guard reads them.

**AuditTrail** is the abstract specification, with one variable: `Publish` (a client's
write), `Lapse` (a deadline), `Refuse`, `CommitBelief` and `CommitOther`, each commit a
single step. It says nothing of when a commit is justified.

**CurrentView** is `current_view` as a client gets it, over either store: `TakeView` begins a call,
`ListNext` is one `list_slot`, `TestNext` the test of one record of what it returned
(`kernel.py:89-91`). The store's lock covers the listing only. From SqliteStore the loop tests copies,
so only what was ACTIVE at the listing is kept (`live` is false); from MemoryStore it tests the records
themselves (`store.py:73`), and reads the status of that moment. That status may be one another
thread's open transaction has set: `Mark` is the `invalidate` in the transaction of a commit
(`kernel.py:158`), `LandMarked` its end and `Undo` its failure, after which the mark is taken back
(`store.py:30-31`). While it is open nobody else gets the lock of a MemoryStore, but the tests need none.
Between two steps of the call the trail may do the rest of what it does (`Elsewhere`). The module
stands on the trail and not on Kernel because all it needs to know of a board is what the trail
promises.

**Validators** translates the two validators, the plan check and the prediction gate as
functions of a view, in the order the code tests things, because the first failure decides
the code the caller gets.

**Kernel** is the program with its interleavings, over SqliteStore: a crash keeps the board, and what
a store call returned is a copy. One action is one store call of one
thread, with the computation that follows it up to the next call:

| code (`kernel.py`) | actions |
|---|---|
| `write` by a client | `Write` |
| a deadline (`_check_ttl`) | `Expire` |
| `with self._commit_lock` | `Acquire` ... `Return` |
| `store.get` and the test of the proposal | `Fetch` |
| `current_view`, one `list_slot` per step | `ListSlot` |
| the verdict | `JudgeBelief`, `JudgePlan`, `JudgeAction` |
| arbitration, confidence gate, evidence checks | `Arbitrate`, `Gate`, `Claims` (one dependency per step) |
| `requires_beliefs` of a prediction | `CheckNeeds` (one per step) |
| `invalidate(proposal_id, detail)` | `Refuse` |
| `with store.transaction()` | `BeginTx`, `WriteEvidence`, `Supersede`, `WriteRecord`, `EndTx` |
| a store call raises | `Raise` |
| the process dies | `Crash` |

`commitLock` is per kernel and `owner` is the store's lock while a transaction holds it;
a store call outside a transaction needs `StoreFree`. Writes of a transaction go to `work`
and reach `recs` in `EndTx`. A failing call or a crash forgets `work`, releases the locks
and keeps the board, as `with` blocks and sqlite do. `job` holds the locals a pipeline
carries from call to call, which is where stale knowledge lives: the view, the position in
a loop, whether a confidence was seen.

**KernelProperties** has the type invariant, the refinement and the justification
properties. The latter are stated in terms of what was *certainly* there: a record that
cannot expire, on the board when the proposal was fetched (`since`), and not followed by
another of its kind before the commit (`Standing`). What arrives later may or may not be
seen, so a property that holds of this code cannot mention it.

**StoredRecords** is the same board as the stores see it: rows under ids, with a stamp, a
deadline and a place in the order of arrival (the lists of one store, the rowids of the other).
Here an id is what `_next_id` makes, a counter's key and a number.

**TransactionalStore** is the promise of `StoreProtocol.transaction`, with three variables:
the board that has landed, the one with the writes of open blocks, and the depth. A block that
fails inside another leaves its writes to whoever catches the exception. Expiry is no event in
it: the clock decides, not who noticed.

**MemoryStore** and **SqliteStore** have one action per method. In MemoryStore an update is made
in place and, in a block, its opposite is appended to `undo` as a record of what the closure
would do; `Undone` says what calling them backwards comes to, and `UndoneInTurn` is the loop
itself. In SqliteStore `conn` is what the connection sees and `file` what is committed.
Readers mark expired rows in both, each the rows it walks past.

**Migrations** opens a file commit by commit: the version table, the version read once, each
statement of a script, the version's row. Processes of different releases may run it at once
and end anywhere.

**Stores** puts both stores before the same clients, threads that have a kernel of their own
and share the store of one process. A client's `write` is `BeginWrite` (id and stamp), then
`AppendRecord`, `Probe` (the id was taken, the next is tried), `GiveUp` (after
`_MAX_ID_PROBES`) or `WriteRaises`; `EnterBlock`, `LeaveBlock` and `FailBlock` are
`transaction`. `EndProcess` ends the host: the file stays, counters start at zero, and from
then on there is a SqliteStore only (`paired` is false).

**Orchestrator** is `run`: `LookAround` takes a view, `EnterStep` picks the first worker, in
the order of `_dependency_key`, that would activate on it, `LeaveStep` and `StepFailed` end a
step, `EndRound` goes on, or stops. **SimWorker** and **AdaptiveWorker** are the pure parts of
the two workers: when a rule matches, and which refusals make which constraints.

**Episodes** is `examples/multi_episode.py`: five workers on one kernel.

| worker | code | actions |
|---|---|---|
| sensor | `SensorWorker` | `SensorStep` |
| analyst | `AnalystWorker` | `AnalystStep`, `CallPipeline`, `Answer` |
| adaptive | `adaptive_worker.py` | `BeginEpisode` (analyze), `AdaptiveWrites`, one constraint a step |
| simulator | `sim_worker.py` | `SimulatorPredicts`, `CallPipeline`, `Answer`, `SimulatorEnds` |
| actuator | `ActuatorWorker` | `ActuatorStep` (the alert, then the review), `CallPipeline`, `Answer` |

Whatever a worker does to the board is an action of Kernel, down to the single store call
(`PipelineStep`), and `UsesKernel` says so as a refinement. `WriteFails` and `PipelineFails`
are a store call that raises inside a step, which the orchestrator survives; `Restart` is the
end of the process, or a store call of `current_view` or `analyze` that raises, which nothing
catches.

Operators named `X_Something` under a comment "Mutant" are not part of the model: each is a
plausible bug in `X`, and `PROJECT.json` says which property notices it.

## The runs

| run | asks | size |
|---|---|---|
| `audit_trail` | do the promises of the trail follow from its steps, and what is a view of it worth? | 2 client records, 5 drafts, 2 episodes, both stores |
| `beliefs` | is a belief committed only on judged evidence? | 1 thread, 2 dependencies, 4 client records, 2 calls |
| `contention` | do two threads of one kernel implement the trail? | 2 threads (symmetric), beliefs and predictions, 3 calls |
| `decisions` | are plans, predictions and actions judged, and are the answers true? | 1 thread, all four pipelines, 3 client records, 3 calls |
| `shared_store` | what survives two kernels over one store, and does every call return? | 2 kernels, 2 threads, 2 calls, fair |
| `stores` | do both stores keep the promise of `transaction`, agree, and never reuse an id; is the file's version true? | 2 kernels, 2 processes, 2 contents, blocks 2 deep, 4 calls, 1 death, fair |
| `episodes` | does the demo act on grounds, learn from causes and come to its end? | 3 episodes, 5 workers, 2 rules, 7 readings, 2 faults, fair |
| `exists_claim`, `confidence_claim`, `evidence_claim`, `needs_claim`, `shared_store_claim` | five claims of the documents; each is refuted | 1 to 2 calls |

The promises of the trail, each an invariant of `audit_trail` and through `IsAuditTrail`
true of the kernel:

* `AtMostOneCommit`: one commit per proposal, whoever asks and how often.
* `VerdictsAgree`: a proposal says SUPERSEDED_BY_COMMIT exactly when its commit is there.
* `EvidenceVouches`: no committed belief without its evidence and no evidence of the
  kernel's without its belief.
* `CommitsAreProposals`: nothing in beliefs or actions that was not proposed.
* `Settled` (of steps): append-only; a record never becomes ACTIVE again and keeps the first
  reason it was invalidated for.

What a client's view is worth, in the same run:

* `BeliefsShownWithEvidence`: a view that shows a belief shows what vouches for it, because
  evidence is listed after beliefs and is never withdrawn.
* `ProposalsShownAreOpen`: never a proposal beside the commit that settled it.
* `NothingStandingMissed`: what has been on the board, ACTIVE, since the call began is in the view.
  Over MemoryStore it has one exception, which the code makes: a proposal whose commit another thread
  had in hand during the call may be missed, even when that commit failed and the proposal stood all
  along. Nothing committed is missed, and no proposal that nobody was committing.

And the justifications:

* `DependenciesJudged`, `WeakEvidenceRefused`: evidence exists, is not stale, and is not in
  unresolved conflict or all weak.
* `ActionsJudged`: no action against a standing constraint or without its beliefs.
* `AnswersHold`: each answer is still true of the board when the caller gets it. COMMITTED under
  `require_prediction` includes the gate's own order: `PredictionFor` asks the kind of prediction that
  appeared first, whichever is newest (`kernel.py:238`), so no action is committed whose leading kind,
  as far as it was certain, foresaw a negative outcome (`ForecastPermits`). Where the leading kind is
  uncertain, because it may expire or came after the fetch, the property asks only for some prediction
  that permits the action.
* `CallsReturn` (liveness): every call that is inside comes back.

Of the stores:

* `MemoryIsTransactional`, `SqliteIsTransactional`: each implements TransactionalStore.
  MemoryStore is mapped to it with `Undone(mem, undo)` as what has landed, so the refinement
  asks of every step, long before any rollback, that the log would take back the right thing.
* `UndoIsTheLoop`: `Undone` is what the loop over the closures computes.
* `StoresAgree`: "The two stores must agree" (`tests/test_store_equivalence.py:3`): `get` and
  `list_slot` answer alike, the counts of refusals are the same, and `find_active_by_kind` finds
  in both or in neither. It finds the *same* record only if the records arrived in the order of
  their stamps.
* `LandedStays` (of steps): no record in the file is replaced, lost or reactivated.
* `ProbedIdsTaken`: a write passes over ids only when they are taken.
* `VersionTellsTruth`, `FilesOpen` (liveness): a version is true, and opening succeeds in the
  end.

Of the demo:

* `AlertsAreGrounded`: for each alert its episode has the reading, the belief and the
  prediction that justify it, in that order. It spans four workers and three pipelines.
* `EpisodeDecided`: an episode without an exception is decided by its reading alone, in a belief if it is
  good evidence and then in one action, the alert or the review; nothing is left proposed.
* `FaultsContained`: what an exception costs. A step that raised is not tried again, so its proposal
  may stay open; every other proposal has its verdict, so no more are open than there were faults, and
  no episode acts twice.
* `RunsEndQuiet`, `RunsEnd` (liveness): a run ends and, without an exception, with nobody who still
  wants to act on the board as it is. `EpisodeDecided` and `RunsEndQuiet` say nothing of a run in which
  a step raised: `FaultsContained`, `AlertsAreGrounded` and `RunsEnd` do.
* `LessonsHaveCauses`, `NothingForgotten`, `LessonsNotRepeated`: each constraint has enough
  refusals from earlier episodes behind it; a pattern that was found is queued or on the
  board, also when the step that writes the queue raised; and it is written once, and once
  more at most for every fault.
* `UsesKernel`: all of it is a behaviour of Kernel.

**Bounds.** Two client records, a proposal and evidence or two proposals, and their commits are what
the trail needs, and they leave room for a view's listings and tests between any of its own. The view
of `audit_trail` is one with persistent records, as one without has the same records less those of
other episodes; the theorems are about both. `MaxRecs` bounds what clients write (the pipelines still write when it is
reached, so no commit is cut off half way), `MaxCalls` the calls; a confidence is one of
three steps. They are small, and enough for the cases at stake: a race needs two callers and
one proposal; a stale view needs a proposal, the record seen, and the one that replaces it;
arbitration that skips a dependency needs one conflict and two dependencies; the prediction
gate needs two predictions and an action; a belief committed and then used takes two calls,
and a third sees what a settled proposal does to a second attempt. That each property can
fail at these sizes is tested by the mutants: dropping the lock, the status test, the range
test, the second step of a plan, the rollback order and so on, one by one, makes the
property fail under the same bounds. Drafts include records `write` must turn away (a
forbidden mode, a confidence off the scale). `Symmetry` (over the two threads of
`contention`) is sound because no property there distinguishes threads and both have the
same kernel. It is not used with liveness.

The bounds of `stores`: blocks 2 deep are the least that has an inner block to fail and be
caught; two kernels of one process whose counters both start at zero, and `MaxProbes` 2 make
ids collide, probe and give up; one tick of the clock passes the only deadline there is; four
calls are a block, a write, an invalidation and one thing more, in any order. One death reaches
every point of a transaction and of `migrate`; `MaxEarly` keeps down the product of what
clients and migrating processes do, which share nothing. One script with two statements has
a state in the middle. TLAPS proves the properties for all of these bounds.

The bounds of `episodes`: a threshold of 1 or 2 is met by the first or the second refusal, so
three episodes are one to fail in, one to learn in and one to learn again; two faults, since
one is not enough to write a constraint, fail, and fail again when it is retried. The
readings are one of each kind: good, at the bound of 90 between the two rules, stale, too weak, in
conflict, and in conflict but confident. Five workers and `MaxRounds` 4 leave a round to spare,
which `RunsEndQuiet` asks for.

**Deadlock** is checked in `stores`, whose clients always have something to do, and in the
other runs it is not: the system may stop when clients have nothing to write
and all calls are made. That no thread is stuck inside a call is `CallsReturn`.

**Fairness.** `FairSpec` has weak fairness of `Step(t)` for each thread: a thread in a call
is scheduled again. Nothing makes clients write, records expire, calls be made, stores fail
or processes crash. Weak fairness suffices for the commit lock although Python's lock is not
fair, because the number of calls is bounded: a thread that waits is overtaken finitely
often. With unbounded calls a waiting thread could starve, in the model and in the code.

`FairDemo` has weak fairness of `Proceed`, what the only thread of the demo does by itself: a
program that is running goes on. Nothing makes it begin another episode or fail. `FairStores`
has weak fairness of `OpenFile(p)` for each process: that a process, once started, goes on in
`migrate`, and that whoever runs it tries again when the constructor has raised. The code does
not retry by itself; `FilesOpen` shows that a retry is enough.

## Where the code and its documents part

Five runs are expected to fail; each checks a sentence of the documents.

* `exists_claim`. "Every percept in `depends_on` must exist on the blackboard"
  (`docs/architecture.md:46`). The validator stops at the first dependency that fails. If
  that is a conflict and the arbitration overrides it, the dependencies after it have not been
  looked at: a belief is committed although one of them was never observed
  (`kernel.py:122`). `DependenciesJudged` says what remains true.
* `confidence_claim`. "Dependent percepts must have confidence >= `min_confidence`"
  (`docs/architecture.md:50`). The verdict is on the newest percept of a kind, the gate
  on the oldest active one (`kernel.py:132`); a weak observation hides behind an older,
  confident one. `WeakEvidenceRefused` is what remains.
* `evidence_claim`. The evidence documents "which checks passed"
  (`docs/architecture.md:51`). The loop that adds "confidence" to the list asks the store
  again (`kernel.py:144`): a percept with a confidence that arrives after the gate makes the
  evidence claim a comparison that was not made.
* `needs_claim`. "Every belief in `requires_beliefs` must exist as a committed belief"
  (`docs/architecture.md:80`). `commit_prediction` asks `find_active_by_kind`, which does not
  look at the mode (`kernel.py:210`): an unvalidated proposal will do.
* `shared_store_claim`. An inactive proposal is an INVALID_PROPOSAL
  (`docs/api-reference.md:93`), and `tests/test_atomicity.py:172` speaks of
  `uvicorn --workers 4` over one sqlite file. The status test and the commit are separate
  store calls and the lock between them is the kernel's own (`kernel.py:109`): two kernels
  commit one proposal twice. `EvidenceVouches` and `CommitsAreProposals` survive
  (`shared_store`, and proved of any number of kernels).

More observations have no run of their own. `current_view` "returns a snapshot"
(`docs/api-reference.md:72`), but it lists slot after slot: a view may show an action, listed last,
and not the belief of the same moment, listed second; and over MemoryStore it may leave out a proposal
because of a commit that failed. What a view does guarantee are the three properties of
`audit_trail`. A proposal whose deadline passes while it is judged is
committed all the same (the status is tested once); the abstract trail's `Open` therefore
admits EXPIRED proposals. A constraint written between the view and the transaction of an
action does not stop it: "make a validation-and-commit sequence atomic"
(`docs/api-reference.md:221`) is true of the writes only. And the pipelines take the view
without persistent records, so a constraint learned in an earlier episode does not block
actions in a later one, which `docs/architecture.md:152` might lead one to expect.
`find_active_by_kind` returns the record with the earliest stamp from one store and the one that
arrived first from the other; two kernels stamp before they take the store's lock, so the order
of stamps need not be that of arrival, and `StoresAgree` is stated with that exception. The
probing of ids gives up after 10,000 taken ids, "never by a busy trace" (`kernel.py:18`); a kernel
that has just started over a trace with that many records in a slot gets there too.
`list_by_status` alone does not look at deadlines. When two processes migrate one new file the
slower one's constructor raises `IntegrityError`.

## What is proved

TLAPS checks the following for all values of the constants: any number of records, kinds,
threads, kernels and calls, any payloads. The assumptions are those of the modules:
`ScaleAssumption` and `DraftsAssumption` (clients write well-formed fresh records, never in
the kernel's role, which `PERMISSIONS` and the roles clients are given ensure),
`KernelAssumption` (sizes and the home of each thread), for the stores `ContentsAssumption`,
`StoresAssumption` and `MigrationsAssumption` (what is written, the bounds, and that every
release knows a prefix of one list of scripts), and for the demo `OrchestratorAssumption`,
`GroundsAssumption` (a reading has a confidence, as `_sensor_reading` gives it one, and a rule about
alerts asks for `anomaly_detected` and a temperature, as those of `sim_rules` do) and
`EpisodesAssumption` (its workers and what they write; each episode has a trace id of its own, as
`episode_trace_id` sees to with the session's suffix and the episode's number; no learned constraint
is named like one of the demo's other records). `WellFormed` asks of a proposed action that
`requires_beliefs` is a list of names; the kernel would loop over anything.

* `AuditTrailProofs`: `TrailTypeOK`, `TrailAtMostOneCommit`, `TrailVerdictsAgree`,
  `TrailEvidenceVouches`, `TrailCommitsAreProposals`, `TrailSettled`.
* `KernelProofs`: `KernelInv` and `KernelTypeOK`, for any number of kernels;
  `KernelIsAuditTrail`, for one kernel (`OneKernel`), and from it `KernelAtMostOneCommit`,
  `KernelVerdictsAgree`, `KernelSettled`; for any number of kernels `KernelWhole` and from it
  `KernelEvidenceVouches` and `KernelCommitsAreProposals`.
* `CurrentViewProofs`: `ViewInvariant`, `ViewBeliefsShownWithEvidence`,
  `ViewProposalsShownAreOpen`, `ViewNothingStandingMissed`.
* `KernelJudgements`: `KernelKnown`, `KernelDependenciesJudged`, `KernelWeakEvidenceRefused`,
  `KernelActionsJudged` (beliefs and constraints) and `KernelCommitsForetold` (the prediction gate, and
  feasible plans), for any number of kernels, and `KernelAnswersHold`, with refusals, for one.
* `StoreProofs`: `StoresTypes`, `MemoryStoreIsTransactional`, `SqliteStoreIsTransactional`,
  `WhatLandedStays`, `PassedOverIdsAreTaken`, `VersionIsTrue`, `TheStoresAgree`.
  For any number of kernels, processes and contents, any nesting, any scripts.
* `EpisodesProofs`: `DemoUsesKernel`, for any rules, readings, thresholds and faults, and, with
  one kernel, `DemoIsAuditTrail`, `DemoAlertsAreGrounded`, `DemoLessonsHaveCauses`,
  `DemoNothingForgotten` and `DemoLessonsNotRepeated`.
* `EpisodeOutcomes`: `DemoRunsEndQuiet`, with one kernel and `MaxRounds` above 2 (it is 20 unless the
  caller of `run` says otherwise, `orchestrator.py:41`); and with `DemoRules` besides,
  `DemoEpisodeDecided`. `DemoRules` are rules and thresholds like the demo's: each rule is about alerts
  and asks for the belief and for a temperature, two rules that one reading meets do not foresee opposite
  outcomes (`multi_episode.py:158-168`, above 90 and up to it), and the threshold of arbitration is not below
  that of confidence (0.7 and 0.5 unless the kernel is told otherwise, `kernel.py:22-23`). Rules of any
  number and readings of any value are covered; `MCEpisodes` has TLC evaluate that its own rules are such.

**The trail.** `AtMostOneCommit` is not inductive alone: what rules out a second commit is
that the first left the proposal INVALIDATED, which is `VerdictsAgree`. Conversely a refusal
could overwrite SUPERSEDED_BY_COMMIT if the proposal were not open. So the invariant is the
conjunction of the five, with the type invariant that every reference points to an earlier
record. The lemmas `...Shape` describe the board after each step; an invalidation and an
append commute (`InvalidateAppend`), which is why the order of the writes inside a
transaction does not matter to the trail.

**The kernel.** That `EndTx` puts records on the board, or that `Refuse` records a verdict
code, is true only of the thread and the proposal the pipeline accepted many steps before.
`Safe(t)` says so: a thread past `Acquire` holds the commit lock of its kernel; it is in a
transaction exactly when it owns the store; its locals fit its place (`Fit`: the proposal is
on the board, is a PROPOSE record of the pipeline's slot, and, with one kernel, has not been
settled); and `work` is what its place says has been written (`Ready`). Each step is a lemma;
steps that only move locals go through `LocalStep` and `MoveOn`, steps inside a transaction
through `TxStep`, the ways out of a call through `LeaveInv`. What others need to know of a
step on the board is that it has `Grown`: no record is lost and no field but status and reason
changes.

**A view.** The three properties speak of a view that is finished, of records that may have changed
after they were listed. `ViewInv` says what a view in the making has: it shows only records that
were asked for (`SeenAreWanted`), what is untested is of the last slot listed (`UntestedAreListed`), all
that have been ACTIVE since the call began in the slots listed are shown or still to be tested, but for
the exception (`StandingAreSeen`), and so is the evidence of each belief shown once evidence is listed
(`EvidenceIsSeen`). What carries this from one step to the next is that no status becomes ACTIVE
again, and `KernelWrites`: what the kernel wrote has no deadline and nothing settles it.
`ProposalsShownAreOpen` holds although a test needs no lock. A listing shows no commit without its
proposal settled, and a mark that is set when a record is tested can only hide more; what is `Sure` to
be shown therefore has none of its commits beside it (`SureAreOpen`), each slot being listed once, and a
proposal and its commit being of one slot.

**The judgements.** A verdict is on a view, the commit lands many store calls later, and others write
and expire in between. What a call has found out is therefore stated of the board alone and in a
form that every later board keeps (`Later`): "somebody observed it", "what *stood* was not stale",
"not all of them were weak". `Known` says that each call knows, at its place, what the code before that
place has established (`KnowsView`, `KnowsBelief`, `KnowsAction`, `KnowsAnswer`), that each commit
has what its call knew (`Justified`), and that a record without a deadline leaves the board only by
being settled (`StandsOrExpires`). `Stood` is the crux: the view has the last record of a kind that
was there when the proposal was fetched and cannot expire, but it may have a later one, and then the
property asks nothing of the earlier. No lock is needed, so these hold of any number of kernels;
the prediction gate, in which `Unwarned` is what survives of its order, and the plans are among them
(`KernelCommitsForetold`). The refusals of `AnswersHold` need the lock, because a second kernel may
commit the proposal between the verdict and its `invalidate`.

**The refinement.** Only `Write`, `Expire`, `Refuse` and `EndTx` change the board. The first
two are `Publish` and `Lapse`. For `Refuse` and `EndTx` the proposal must be open; with one
kernel all threads share a commit lock, so nobody else settled it (`OneHolder`), and the
clause of `Fit` under `OneKernel` carries that from `Fetch` to the end. `LandedIsCommit` shows
that the board of the finished transaction is the one the trail commits in a single step. With
two kernels the clause fails, and `shared_store_claim` is the counterexample. What two kernels
leave intact is `Whole`: each record of a commit has the rest of its commit on the board. It speaks
of fields no later step changes (`WholeLater`) and a transaction lands all of them at once
(`LandedIsWhole`), so that neither the status of the proposal nor the commit lock is needed.

**The stores.** `StoresInv` is `ClientInv` (who has a block open holds the lock, both stores are
equally deep, the number of an attempt is its kernel's counter), `MemoryInv` (outside any block the
log is empty, and an entry that restores ACTIVE restores no reason) and `SqliteInv` (outside any
block the connection sees the file). From it each action is shown to be a step of
TransactionalStore or to change nothing of it; `StoreEvent` is the list of what an action can do
to the two. The argument for MemoryStore is that a write leaves `Undone(mem, undo)` as it was,
because the entry it logs takes it back; a read changes only marks of expiry, which `Unmarked`
leaves out; and the end of the outermost block empties the log. The first lemmas of `StoreProofs` say
what each update makes of a board and a log.

**What lands.** `LandedInv` says that the connection's board continues the file's: it has every row
of it with its content, stamp and place, and none that is settled in the file is ACTIVE in it.
Whatever is committed then only adds. `ProbedInv` strengthens `ProbedIdsTaken`: the ids a write has
passed over are in the file too unless the writer itself has the block open, or a rollback by
somebody else could free them. `MigrationsInv` says how much of the schema a process at a given
line of a script can count on, whoever else is in `migrate`.

**The twin.** `StoresAgree` is about two boards whose marks of expiry differ. `Twin` says that,
marks apart, they are one board, pending and landed; `HonestInv` that a mark is there only where
the deadline has passed, in the log too; `Placed` that no two rows have one place in the order of
arrival. Without `HonestInv` a row marked in one store and live in the other would be answered
differently; without `Placed` "the first" would not be one record.

**The demo.** That the thread is inside a pipeline is Kernel's state, so the demo needs little of
its own: `DemoInv` says that an episode that runs has its own trace and reading and that the
simulator's place in the rules is a number. With it whatever a worker writes is one of `Drafts`,
and every action is a step of Kernel or leaves its variables alone; `Restart` is Kernel's `Crash`
or nothing. What is proved about the kernel then holds of the demo (`DemoIsAuditTrail`).

**The lessons.** `LessonsInv` has four parts. `BoardInv`: every record is of an episode that was begun
and every refusal is one that `analyze` scans. `OwnProposal`: a pipeline of the demo works on the
episode that runs, so an episode never changes what the earlier ones gave cause for (`CausesStay`),
and when the next begins all refusals on the board are causes (`FailuresAreCauses`, where the trace
ids must differ). `LearnerInv`: what is queued has its causes, and what was emitted is on the board.
`Remembered` is `NothingForgotten` at every moment, not only between episodes. `LessonsNotRepeated`
alone is not inductive: with as many constraints as faults and one, nothing would keep the learner
from writing another. `LessonsCounted` allows one more than the faults only for a base reason that is
`Spent`, emitted by this process and not waiting to be written; a failed write or a restart makes it
unspent again, and is the fault that pays for it.

**The alert.** An alert passes three pipelines, each of which looks only at what the one before has
left. `GroundsInv` writes the chain down record by record (`Sound`): the percepts of an episode are one
reading; whatever had been observed when a belief was committed had been when its proposal was
fetched; a prediction about alerts has before it a belief and a percept that meets the conditions of
its rule (`Grounded`), and its commit inherits them (`CopyIsSound`); a committed alert was foretold.
Each clause is about a record and those before it, so a later board keeps it (`SoundStays`). What
carries the chain from a worker to the board is `EpisodeSound`, that a view shows a worker nothing but
its own episode, constraints apart, and `CallSound`, that an alert is taken to its pipeline with
`require_prediction` and that nobody writes while a pipeline of the demo judges. The rest is
`KernelKnown`, `KernelDependenciesJudged` and `KernelWeakEvidenceRefused`: as the last percept is one
that *stood*, they decide about the reading itself.

**The end of a run.** What could go wrong in `RunsEndQuiet` is a worker asked with a view that is older
than the board, passed over, and never asked again. `QuietInv` follows a run to show that there is
none. `PastAreQuiet`: a worker the round is past would not act on the board as it *is*. `Fresh`: where
workers are asked, the view is that of the board; a view is not taken again after a step that
produced nothing, and for that `Fresh` follows the two workers that may produce nothing
(`Unproductive`) through their pipelines: a proposal that is refused takes itself out of the view it
was never in. `Flying`: until the pipeline answers, what a worker proposed is unsettled, and the
answer is a refusal or COMMITTED. `Rounds`: the second round is the last, as it finds nobody. Workers
run in the order of the slots they write, and a step touches only the slots of its worker
(`Touches`), which no earlier worker is moved by (`QuietStays`); a worker that has stepped is done.

**What an episode comes to.** `EpisodeDecided` speaks of the end, and what decides it is spread over
the whole run. `DecidedInv` says how far an episode has come, wherever it is (`Outcome`): a sensor that
has stepped has left a percept (`Evident`), an analyst given good evidence a belief (`Believed`), the simulator
a prediction by each rule it has passed that the reading meets (`Predicting`), and the actuator exactly
one action (`Acting`). `OwnRecords`: the records of an episode are of workers that stepped, and only what is in flight
is still proposed. While a pipeline judges, `Proposed` ties the record in flight to the worker's
place in its step, and `Judging` gives the reasons a refusal can have: a belief is refused only on
poor evidence, a prediction never, an alert only where none was promised. For these the verdicts are worked
out on the pipeline's view, which is shown to hold the one reading, the belief and the predictions as
the worker's own view did (`FoundReading`, `JudgedByReading`, `JudgedByBelief`). At the end nobody wants to act
(`QuietInv`), so that each worker with cause to step has stepped. The other direction, no belief without
good evidence and no alert without a promise, is `KernelWeakEvidenceRefused` and `DemoAlertsAreGrounded`. Each step is a
lemma (`Decides...`), and `DecidesPipeline` has one for a step that commits and one for a step that refuses.

Left to TLC are `CallsReturn`, `FilesOpen` and `RunsEnd`: liveness under fairness and
ENABLED are beyond this prover. So is induction over data, which `UndoIsTheLoop` would need: it
is a fold over a log of any length. `FaultsContained` has been model-checked only. The model has no
recursive operators.

## What is abstracted, and what is not modelled

* **Ids** are places on the board in Kernel; a pipeline asked for an unknown id is modelled (0 is
  none). Ids as the code makes them are in Stores: a key and a number, whose text nobody parses.
* **Time.** In Kernel a record with a `ttl` may expire at any moment, which is when the first
  reader past its deadline marks it, and the oldest record is the one that arrived first. In
  Stores there is a clock, which never steps back: if it did, a record marked EXPIRED would stay
  so in the store that had noticed.
* **Live records in pipelines.** Kernel is over the store that hands out copies, so a record is tested
  in the step that returned it (`Fetch`, `ListSlot`). Over MemoryStore the status is read after the
  call (`kernel.py:90`, `kernel.py:109`). Inside a pipeline that makes no difference to what is
  committed on what: percepts, constraints and commits are never marked by a transaction, a percept that
  expires between listing and test is one that expired just before, and the commit lock keeps out the
  commits of the same kernel. With a second kernel on the same MemoryStore a pipeline may answer
  INVALID_PROPOSAL for a proposal that the other is about to leave as it was; no property is about
  that answer. CurrentView has the live records, where they matter to a client.
* **Views.** A pipeline's view lists only the slots the pipeline then looks at (`Consulted`);
  the other `list_slot` calls change nothing. `_proposals` in a view is not read by a pipeline.
* **Payloads** are records with the fields the kernel reads, defaults filled in. Fields of an
  action or a plan step that are `True` form the set `flags`. A reason is its code, not the
  text of `res.detail`, and the three `INVALID_..._PROPOSAL` codes are one. `_base_reason` of the
  learner searches the text for words; by code this is right as long as the names quoted in a text have
  none of those words. The demo's have none, and its actions no field a constraint could block, so that
  "Constraint 'block_stale_actions' blocks action", which the code would count as STALE_EVIDENCE, is
  never written there. Other values of a flag than `True` are not covered (`is True` in the code).
* **Transactions.** A read by another process during an open transaction sees the board
  before it; it is modelled as the same read made before the transaction began. `Raise` covers
  failing statements; a failing sqlite COMMIT, whose statements stay in the connection, is not
  covered: SQLite rolls back by itself when the disk is full or fails, and when the database is
  locked the statements stay in the connection, which only a model of SQLite's locks could show.
  The kernel uses no nested transactions; Stores has them.
* **A crash** keeps the board, as sqlite does; with MemoryStore everything is gone and there
  is nothing to say.
* **NaN** is turned away by `write` and so is off the scale.
* **Traces.** `Call` takes any trace, the proposal's or not; the runs of the kernel have one
  episode, that of the demo three. The suffixes of `Session` are taken to be unique.
* **The two stores** are asked in lockstep by the same clients, with one clock and one lock; after
  the host's end MemoryStore has no part. A client is a thread with a kernel of its own, as the
  counters of one kernel are under a lock and one thread of it does what several would.
* **The demo** has one process and one thread, so its views are taken in one step. An exception
  is a Boolean: which worker raised what is only logged. `learned_from_count` in a constraint is
  read by nobody and left out. A `should_activate` that raises is left out as none of the five can.

Not modelled: clients that open `transaction()` and then call a pipeline (planned); the locks of SQLite between processes, which are not this
code's; the package's re-exports, `BaseWorker` (which does nothing), printing, and the rendering of
rows and views, which no property is about.

## Plan

| module | properties and theorems |
|---|---|
| `LockOrder` | clients that open `transaction()` and call a pipeline inside it: commit lock and store lock in both orders |

