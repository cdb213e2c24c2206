------------------------------- MODULE Episodes -------------------------------
(***************************************************************************)
(* The monitoring demo, the repository's own composition of its parts: one *)
(* process runs episode after episode with five workers on an orchestrator *)
(* over one kernel and a durable store.                                    *)
(*                                                                         *)
(*   sensor     commits the percept "temperature" it was loaded with       *)
(*   analyst    proposes "anomaly_detected" from it                        *)
(*   adaptive   writes the constraints it has queued                       *)
(*   simulator  predicts what an alert would lead to                       *)
(*   actuator   proposes an alert and, when it is refused, a review        *)
(*                                                                         *)
(* Each action is one store call of the process, or what it does between   *)
(* two of them; whatever touches the board is an action of Kernel.  A      *)
(* store call may raise, and the process may die at any step: the workers, *)
(* the queue of the learner and the session are gone then, the board       *)
(* stays, and the demo is started again over it.                           *)
(***************************************************************************)
EXTENDS Orchestrator, SimWorker, AdaptiveWorker

CONSTANTS
    Main,           \* the thread of the process
    TraceIds,       \* the ids episode_trace_id gives out, one after another
    Readings,       \* Readings[n]: what the sensor may read in the n-th episode, a set
                    \* of [value, stale, conflict, conf]
    Rules,          \* the rules of the simulator
    Thresholds,     \* what failure_threshold of the learner may be
    MaxFaults,      \* bound on the failing store calls and the restarts
    temperature, anomaly_detected, alert, queue_for_review  \* kinds

VARIABLES
    done,       \* the workers whose _done is set
    reading,    \* what the sensor is loaded with
    queued,     \* _queued of the learner, by base reason
    emitted,    \* emitted of the learner
    threshold,  \* its failure_threshold
    local,      \* the locals of the step that is running
    episode,    \* how many trace ids were given out, over all processes
    lap,        \* how many episodes this process began
    faults      \* how many faults there were

workerVars == <<done, reading, queued, emitted, threshold, local>>
driverVars == <<episode, lap, faults>>
demoVars   == <<vars, orchVars, workerVars, driverVars>>

\* The slots the workers of the demo write; what Writes is to be.
DemoWrites == [sensor |-> {"percepts"}, analyst |-> {"beliefs"}, adaptive |-> {"constraints"},
               simulator |-> {"predictions"}, actuator |-> {"actions"}]

\* The workers that step once an episode, and the pipelines they call.
OneShot == {"sensor", "analyst", "simulator", "actuator"}
OpOf    == [analyst |-> "belief", simulator |-> "prediction", actuator |-> "action"]

\* The locals at the start of a step: the rule the simulator has got to and whether
\* it produced, whether the actuator is at its safe action, what the learner wrote.
NoLocals == [rule |-> 1, gain |-> FALSE, safe |-> FALSE, written |-> {}]

NoReading == [value |-> 0, stale |-> FALSE, conflict |-> FALSE, conf |-> NoConf]

\* A new session with every process, and a suffix nobody else has.
Trace == TraceIds[episode]

-----------------------------------------------------------------------------
\* What the workers write.

Proposal(slot, kind, trace, body) ==
    [role |-> "planner", slot |-> slot, mode |-> "PROPOSE", kind |-> kind, trace |-> trace,
     conf |-> NoConf, ttl |-> FALSE, scope |-> "episode", body |-> body,
     status |-> "ACTIVE", reason |-> "none", evid |-> NoId, src |-> NoId, since |-> 0]

\* What a percept says of a reading.
Payload(r) == [value |-> r.value, stale |-> r.stale, conflict |-> r.conflict]

Percept(r, trace) ==
    [Proposal("percepts", temperature, trace, Payload(r))
        EXCEPT !.role = "tool", !.mode = "COMMIT", !.conf = r.conf]

Suspicion(trace) ==
    Proposal("beliefs", anomaly_detected, trace, [value |-> TRUE, depends_on |-> <<temperature>>])

Alert(trace) ==
    Proposal("actions", alert, trace,
             [type |-> alert, requires_beliefs |-> <<anomaly_detected>>, flags |-> {}])

Review(trace) ==
    Proposal("actions", queue_for_review, trace,
             [type |-> queue_for_review, requires_beliefs |-> << >>, flags |-> {}])

\* All the records the demo writes itself, what Drafts is to contain.
DemoDrafts ==
    UNION {{Percept(r, trace) : r \in UNION {Readings[n] : n \in DOMAIN Readings}}
           \cup {Suspicion(trace), Alert(trace), Review(trace)}
           \cup {PredictionFrom(Rules[n], trace) : n \in DOMAIN Rules}
           \cup {LessonRecord(base, trace) : base \in BaseReasons}
           : trace \in {TraceIds[n] : n \in DOMAIN TraceIds}}

ASSUME EpisodesAssumption ==
    /\ Main \in Threads
    /\ Writes = DemoWrites
    /\ TraceIds \in Seq(Traces) /\ DOMAIN Readings = DOMAIN TraceIds
    /\ \A m, n \in DOMAIN TraceIds : TraceIds[m] = TraceIds[n] => m = n
    /\ \A base \in BaseReasons :
         Lesson(base) \notin {temperature, anomaly_detected, alert, queue_for_review}
    /\ Thresholds \subseteq Nat
    /\ Ops = AllOps
    /\ DemoDrafts \subseteq Drafts
    /\ Len(Rules) \in Nat /\ DOMAIN Rules = 1..Len(Rules)
    /\ \A n \in DOMAIN Rules : IsSimRule(Rules[n])
    /\ MaxFaults \in Nat

\* A reading has a confidence, and a rule about alerts asks for the belief and the
\* temperature they are raised on.
ASSUME GroundsAssumption ==
    /\ alert # queue_for_review
    /\ \A n \in DOMAIN Readings : \A r \in Readings[n] : r.conf \in 0..MaxConf
    /\ \A n \in DOMAIN Rules : Rules[n].action_type = alert =>
         /\ \E i \in DOMAIN Rules[n].requires_beliefs : Rules[n].requires_beliefs[i] = anomaly_detected
         /\ temperature \in DOMAIN Rules[n].percept_conditions

-----------------------------------------------------------------------------
\* should_activate of each worker, on the view it is shown.
Shows(slot, kind) == Held(recs, view, slot, kind) # NoId

SensorWants    == reading # NoReading
AnalystWants   == Shows("percepts", temperature) /\ ~Shows("beliefs", anomaly_detected)
AdaptiveWants  == queued # {}
ActuatorWants  == Shows("beliefs", anomaly_detected) /\ ~Shows("actions", alert)

\* The workers that would activate.
Wanting ==
    {w \in Workers :
        /\ w \notin done
        /\ \/ w = "sensor" /\ SensorWants
           \/ w = "analyst" /\ AnalystWants
           \/ w = "adaptive" /\ AdaptiveWants
           \/ w = "simulator" /\ SimulatorWants(recs, view)
           \/ w = "actuator" /\ ActuatorWants}

-----------------------------------------------------------------------------
\* Between the episodes.

\* An episode begins: the workers are loaded and reset and, from the second of
\* a process on, the learner has scanned the board.
BeginEpisode(n, r) ==
    /\ n = episode + 1
    /\ StartRun
    /\ episode' = n
    /\ lap' = lap + 1
    /\ reading' = r
    /\ done' = {}
    /\ queued' = IF lap > 0 THEN queued \cup Learned(recs, threshold, emitted) ELSE queued
    /\ UNCHANGED <<vars, emitted, threshold, local, faults>>

Look ==
    /\ LookAround(Trace)
    /\ UNCHANGED <<vars, workerVars, driverVars>>

\* Mutant: the worker forgets to note that it is done.
StartStep_Unnoted ==
    /\ EnterStep(Wanting)
    /\ local' = NoLocals
    /\ UNCHANGED <<vars, done, reading, queued, emitted, threshold, driverVars>>

\* A step begins.  A one-shot worker notes at once that it is done.
StartStep ==
    /\ EnterStep(Wanting)
    /\ done' = done \cup {w \in OneShot : DependencyKey(w) = turn'}
    /\ local' = NoLocals
    /\ UNCHANGED <<vars, reading, queued, emitted, threshold, driverVars>>

GoRound ==
    /\ EndRound(Wanting)
    /\ UNCHANGED <<vars, workerVars, driverVars>>

EndEpisode ==
    /\ FinishRun(Trace)
    /\ UNCHANGED <<vars, workerVars, driverVars>>

-----------------------------------------------------------------------------
\* The steps of the workers.

SensorStep ==
    /\ stage = "step" /\ AtWork("sensor")
    /\ Write(Percept(reading, Trace))
    /\ LeaveStep(TRUE)
    /\ UNCHANGED <<workerVars, driverVars>>

\* A proposal is written, to be taken to its pipeline next.
Propose(d) ==
    /\ Write(d)
    /\ stage' = "call"
    /\ UNCHANGED <<round, turn, view, produced, errors, driverVars>>

AnalystStep ==
    /\ stage = "step" /\ AtWork("analyst")
    /\ Propose(Suspicion(Trace))
    /\ UNCHANGED workerVars

\* Mutant: every rule fires.
FiringNow_AnyRule == local.rule..Len(Rules)

\* The rules the simulator has still to propose a prediction for.
FiringNow == Firing(recs, view, Rules, local.rule)

SimulatorPredicts ==
    /\ stage = "step" /\ AtWork("simulator")
    /\ FiringNow # {}
    /\ LET n == Min(FiringNow)
       IN  /\ Propose(PredictionFrom(Rules[n], Trace))
           /\ local' = [local EXCEPT !.rule = n + 1]
    /\ UNCHANGED <<done, reading, queued, emitted, threshold>>

SimulatorEnds ==
    /\ stage = "step" /\ AtWork("simulator")
    /\ FiringNow = {}
    /\ LeaveStep(local.gain)
    /\ UNCHANGED <<vars, workerVars, driverVars>>

ActuatorStep ==
    /\ stage = "step" /\ AtWork("actuator")
    /\ Propose(IF local.safe THEN Review(Trace) ELSE Alert(Trace))
    /\ UNCHANGED workerVars

\* Mutant: the queue is emptied before it is written.
AdaptiveWrites_Emptied(base) ==
    /\ stage = "step" /\ AtWork("adaptive")
    /\ base \in queued \ local.written
    /\ Write(LessonRecord(base, Trace))
    /\ emitted' = emitted \cup queued
    /\ queued' = {}
    /\ LeaveStep(TRUE)
    /\ UNCHANGED <<done, reading, threshold, local, driverVars>>

\* The learner writes one of the queued constraints.  The queue is emptied when
\* all are written, and not before.
AdaptiveWrites(base) ==
    /\ stage = "step" /\ AtWork("adaptive")
    /\ base \in queued \ local.written
    /\ Write(LessonRecord(base, Trace))
    /\ emitted' = emitted \cup {base}
    /\ IF queued = local.written \cup {base}
       THEN queued' = {} /\ UNCHANGED local /\ LeaveStep(TRUE)
       ELSE /\ local' = [local EXCEPT !.written = @ \cup {base}]
            /\ UNCHANGED <<queued, orchVars>>
    /\ UNCHANGED <<done, reading, threshold, driverVars>>

-----------------------------------------------------------------------------
\* Inside a pipeline.

\* Mutant: no pipeline is told to require a prediction.
CallPipeline_Unpredicted(w) ==
    /\ stage = "call" /\ AtWork(w)
    /\ Call(Main, OpOf[w], Len(recs), Trace, FALSE)
    /\ stage' = "inside"
    /\ UNCHANGED <<round, turn, view, produced, errors, workerVars, driverVars>>

\* The proposal just written is taken to the pipeline of the worker's slot; only
\* an alert has to be predicted.
CallPipeline(w) ==
    /\ stage = "call" /\ AtWork(w)
    /\ Call(Main, OpOf[w], Len(recs), Trace, w = "actuator" /\ ~local.safe)
    /\ stage' = "inside"
    /\ UNCHANGED <<round, turn, view, produced, errors, workerVars, driverVars>>

PipelineStep ==
    /\ stage = "inside"
    /\ Step(Main)
    /\ ~At(Main, "return")
    /\ UNCHANGED <<orchVars, workerVars, driverVars>>

\* The worker gets its answer.
Answer ==
    /\ stage = "inside"
    /\ Return(Main)
    /\ LET ok == job[Main].code = "COMMITTED"
       IN  \/ /\ AtWork("analyst")
              /\ LeaveStep(ok)
              /\ UNCHANGED local
           \/ /\ AtWork("simulator")
              /\ stage' = "step"
              /\ local' = [local EXCEPT !.gain = @ \/ ok]
              /\ UNCHANGED <<round, turn, view, produced, errors>>
           \/ /\ AtWork("actuator") /\ (ok \/ local.safe)
              /\ LeaveStep(TRUE)
              /\ UNCHANGED local
           \/ /\ AtWork("actuator") /\ ~ok /\ ~local.safe
              /\ stage' = "step"
              /\ local' = [local EXCEPT !.safe = TRUE]
              /\ UNCHANGED <<round, turn, view, produced, errors>>
    /\ UNCHANGED <<done, reading, queued, emitted, threshold, driverVars>>

-----------------------------------------------------------------------------
\* Failures.

Fault == faults < MaxFaults /\ faults' = faults + 1 /\ UNCHANGED episode

\* The write of a step raises; the simulator that has nothing to propose makes none.
WriteFails ==
    /\ Fault
    /\ stage = "step"
    /\ AtWork("simulator") => FiringNow # {}
    /\ StepFailed
    /\ UNCHANGED <<vars, workerVars, lap>>

PipelineFails ==
    /\ Fault
    /\ stage = "inside"
    /\ Raise(Main)
    /\ StepFailed
    /\ UNCHANGED <<workerVars, lap>>

\* Mutant: the lock of the dead process stays held.
KernelDies_LockHeld ==
    IF At(Main, "idle") THEN UNCHANGED vars
    ELSE Goto(Main, "idle") /\ UNCHANGED <<recs, work, owner, commitLock, job, calls>>

KernelDies == IF At(Main, "idle") THEN UNCHANGED vars ELSE Crash(Home[Main])

\* The process ends and is started again: it was killed, or a store call of
\* current_view or of analyze raised, which nothing catches.
Restart ==
    /\ Fault
    /\ lap > 0
    /\ KernelDies
    /\ stage' = "between" /\ round' = 0 /\ turn' = 0
    /\ view' = {} /\ produced' = FALSE /\ errors' = TRUE
    /\ done' = {} /\ reading' = NoReading /\ queued' = {} /\ emitted' = {}
    /\ local' = NoLocals
    /\ lap' = 0
    /\ UNCHANGED threshold

-----------------------------------------------------------------------------
DemoInit ==
    /\ Init
    /\ stage = "between" /\ round = 0 /\ turn = 0
    /\ view = {} /\ produced = FALSE /\ errors = FALSE
    /\ done = {} /\ reading = NoReading /\ queued = {} /\ emitted = {} /\ local = NoLocals
    /\ threshold \in Thresholds
    /\ episode = 0 /\ lap = 0 /\ faults = 0

\* What the process does by itself once an episode has begun.
Proceed ==
    \/ Look \/ StartStep \/ GoRound \/ EndEpisode
    \/ SensorStep \/ AnalystStep
    \/ SimulatorPredicts \/ SimulatorEnds
    \/ ActuatorStep
    \/ \E base \in BaseReasons : AdaptiveWrites(base)
    \/ \E w \in DOMAIN OpOf : CallPipeline(w)
    \/ PipelineStep \/ Answer

DemoNext ==
    \/ \E n \in DOMAIN Readings : \E r \in Readings[n] : BeginEpisode(n, r)
    \/ Proceed
    \/ WriteFails \/ PipelineFails \/ Restart

DemoSpec == DemoInit /\ [][DemoNext]_demoVars

\* A process that is in an episode goes on with it.
FairDemo == DemoSpec /\ WF_demoVars(Proceed)
=============================================================================
