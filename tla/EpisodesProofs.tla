---------------------------- MODULE EpisodesProofs ----------------------------
(***************************************************************************)
(* Proofs about the demo, for all readings, rules, thresholds and faults:  *)
(* it does to the board only what its kernel does, so what is proved of    *)
(* the kernel holds of the demo; its learner learns from refusals that are *)
(* there, forgets none, and repeats a constraint only for a fault; and its *)
(* alerts have their grounds.                                              *)
(***************************************************************************)
EXTENDS EpisodeProperties, KernelJudgements, FiniteSetTheorems

Locals == [rule : Nat \ {0}, gain : BOOLEAN, safe : BOOLEAN, written : SUBSET BaseReasons]

\* An episode that runs has its own trace id and reading, and the simulator has not
\* lost its place in the rules.
DemoInv ==
    /\ episode \in 0..Len(TraceIds)
    /\ stage # "between" => episode \in DOMAIN TraceIds /\ reading \in Readings[episode]
    /\ local \in Locals

LEMMA DemoInitInv == DemoInit => DemoInv /\ Init
  <1>1. Len(TraceIds) \in Nat
    BY EpisodesAssumption
  <1>2. NoLocals \in Locals
    BY DEF NoLocals, Locals
  <1> QED
    BY <1>1, <1>2 DEF DemoInit, DemoInv

\* Whatever the demo writes itself it may write.
LEMMA WrittenIsDraft ==
    ASSUME DemoInv, stage # "between"
    PROVE  /\ Trace \in Traces
           /\ Percept(reading, Trace) \in Drafts
           /\ {Suspicion(Trace), Alert(Trace), Review(Trace)} \subseteq Drafts
           /\ \A n \in DOMAIN Rules : PredictionFrom(Rules[n], Trace) \in Drafts
           /\ \A base \in BaseReasons : LessonRecord(base, Trace) \in Drafts
  <1> DEFINE OfTrace(trace) ==
               {Percept(r, trace) : r \in UNION {Readings[n] : n \in DOMAIN Readings}}
               \cup {Suspicion(trace), Alert(trace), Review(trace)}
               \cup {PredictionFrom(Rules[n], trace) : n \in DOMAIN Rules}
               \cup {LessonRecord(base, trace) : base \in BaseReasons}
  <1>1. episode \in DOMAIN TraceIds /\ reading \in Readings[episode] /\ episode \in DOMAIN Readings
    BY EpisodesAssumption DEF DemoInv
  <1>2. Trace \in {TraceIds[n] : n \in DOMAIN TraceIds} /\ Trace \in Traces
    BY <1>1, EpisodesAssumption DEF Trace
  <1>3. OfTrace(Trace) \subseteq DemoDrafts
    BY <1>2 DEF DemoDrafts
  <1>4. DemoDrafts \subseteq Drafts
    BY EpisodesAssumption
  <1>5. Percept(reading, Trace) \in OfTrace(Trace)
    BY <1>1
  <1>6. /\ {Suspicion(Trace), Alert(Trace), Review(Trace)} \subseteq OfTrace(Trace)
        /\ \A n \in DOMAIN Rules : PredictionFrom(Rules[n], Trace) \in OfTrace(Trace)
        /\ \A base \in BaseReasons : LessonRecord(base, Trace) \in OfTrace(Trace)
    OBVIOUS
  <1> HIDE DEF OfTrace
  <1> QED
    BY <1>2, <1>3, <1>4, <1>5, <1>6

\* The rule a prediction is made from is one of the rules.
LEMMA FiringRule ==
    ASSUME local \in Locals, FiringNow # {}
    PROVE  /\ Min(FiringNow) \in FiringNow /\ Min(FiringNow) \in DOMAIN Rules
           /\ Min(FiringNow) + 1 \in Nat \ {0}
  <1>1. FiringNow \subseteq local.rule..Len(Rules)
    BY DEF FiringNow, Firing
  <1>2. local.rule \in Nat \ {0} /\ DOMAIN Rules = 1..Len(Rules)
    BY EpisodesAssumption DEF Locals
  <1>3. \A n \in local.rule..Len(Rules) : n \in DOMAIN Rules /\ n \in Nat /\ n + 1 \in Nat \ {0}
    <2>1. Len(Rules) \in Nat
      BY EpisodesAssumption
    <2> QED
      BY <1>2, <2>1
  <1>4. FiringNow \in SUBSET Nat
    BY <1>1, <1>3
  <1>5. Min(FiringNow) \in FiringNow
    BY <1>4, MinIsMember
  <1> QED
    BY <1>1, <1>3, <1>5

\* A step of the demo is a step of its kernel, or leaves the kernel alone.
LEMMA DemoIsKernelStep ==
    ASSUME DemoInv, Inv, [DemoNext]_demoVars
    PROVE  [Next]_vars
  <1>1. CASE UNCHANGED demoVars
    BY <1>1 DEF demoVars
  <1>2. ASSUME NEW n, NEW r, BeginEpisode(n, r) PROVE UNCHANGED vars
    BY <1>2 DEF BeginEpisode
  <1>3. ASSUME Look \/ StartStep \/ GoRound \/ EndEpisode \/ SimulatorEnds \/ WriteFails
        PROVE  UNCHANGED vars
    BY <1>3 DEF Look, StartStep, GoRound, EndEpisode, SimulatorEnds, WriteFails
  <1>4. ASSUME SensorStep \/ AnalystStep \/ ActuatorStep PROVE Next
    <2>1. stage = "step"
      BY <1>4 DEF SensorStep, AnalystStep, ActuatorStep
    <2>2. PICK d \in Drafts : Write(d)
      BY <1>4, <2>1, WrittenIsDraft DEF SensorStep, AnalystStep, ActuatorStep, Propose
    <2> QED
      BY <2>2 DEF Next
  <1>5. ASSUME SimulatorPredicts PROVE Next
    <2>1. stage = "step" /\ FiringNow # {} /\ Write(PredictionFrom(Rules[Min(FiringNow)], Trace))
      BY <1>5 DEF SimulatorPredicts, Propose
    <2>2. PredictionFrom(Rules[Min(FiringNow)], Trace) \in Drafts
      BY <2>1, WrittenIsDraft, FiringRule DEF DemoInv
    <2> QED
      BY <2>1, <2>2 DEF Next
  <1>6. ASSUME NEW base \in BaseReasons, AdaptiveWrites(base) PROVE Next
    <2>1. stage = "step" /\ Write(LessonRecord(base, Trace))
      BY <1>6 DEF AdaptiveWrites
    <2> QED
      BY <2>1, WrittenIsDraft DEF Next
  <1>7. ASSUME NEW w \in DOMAIN OpOf, CallPipeline(w) PROVE Next
    <2> DEFINE need == w = "actuator" /\ ~local.safe
    <2>1. stage = "call" /\ Call(Main, OpOf[w], Len(recs), Trace, need)
      BY <1>7 DEF CallPipeline
    <2>2. Main \in Threads /\ OpOf[w] \in Ops /\ Trace \in Traces
      BY <2>1, WrittenIsDraft, EpisodesAssumption DEF OpOf, AllOps
    <2>3. Len(recs) \in 0..Len(recs)
      <3>1. Len(recs) \in Nat
        BY DEF Inv, TypeOK
      <3> QED
        BY <3>1
    <2>4. need \in (IF OpOf[w] = "action" THEN BOOLEAN ELSE {FALSE})
      <3>1. CASE w = "actuator"
        <4>1. OpOf[w] = "action"
          BY <3>1 DEF OpOf
        <4> QED
          BY <3>1, <4>1
      <3>2. CASE w # "actuator"
        <4>1. need = FALSE
          BY <3>2
        <4> QED
          BY <4>1
      <3> QED
        BY <3>1, <3>2
    <2> HIDE DEF need
    <2> QED
      BY <2>1, <2>2, <2>3, <2>4, Zenon DEF Next
  <1>8. ASSUME PipelineStep \/ Answer \/ PipelineFails PROVE Next
    <2>1. Step(Main) \/ Raise(Main)
      BY <1>8 DEF PipelineStep, Answer, PipelineFails, Step
    <2> QED
      BY <2>1, EpisodesAssumption DEF Next
  <1>9. ASSUME Restart PROVE Next \/ UNCHANGED vars
    <2>1. Home[Main] \in Kernels
      BY EpisodesAssumption, KernelAssumption
    <2>2. Crash(Home[Main]) \/ UNCHANGED vars
      BY <1>9 DEF Restart, KernelDies
    <2> QED
      BY <2>1, <2>2 DEF Next
  <1> QED
    BY <1>1, <1>2, <1>3, <1>4, <1>5, <1>6, <1>7, <1>8, <1>9 DEF DemoNext, Proceed

LEMMA DemoKeepsInv ==
    ASSUME DemoInv, [DemoNext]_demoVars
    PROVE  DemoInv'
  <1>0. Len(TraceIds) \in Nat /\ DOMAIN TraceIds = 1..Len(TraceIds) /\ DOMAIN Readings = DOMAIN TraceIds
    BY EpisodesAssumption
  <1>1. ASSUME UNCHANGED <<episode, reading, local>>, stage' # "between" => stage # "between"
        PROVE  DemoInv'
    BY <1>1 DEF DemoInv
  <1>2. ASSUME UNCHANGED <<episode, reading>>, stage # "between", local' \in Locals
        PROVE  DemoInv'
    BY <1>2 DEF DemoInv
  <1>3. CASE UNCHANGED demoVars
    BY <1>1, <1>3 DEF demoVars, orchVars, workerVars, driverVars
  <1>4. ASSUME NEW n \in DOMAIN Readings, NEW r \in Readings[n], BeginEpisode(n, r) PROVE DemoInv'
    BY <1>0, <1>4 DEF BeginEpisode, DemoInv
  <1>5. ASSUME Look \/ GoRound \/ EndEpisode PROVE DemoInv'
    BY <1>1, <1>5 DEF Look, GoRound, EndEpisode, LookAround, EndRound, FinishRun,
                      workerVars, driverVars
  <1>6. ASSUME StartStep PROVE DemoInv'
    <2>1. local' \in Locals
      BY <1>6 DEF StartStep, NoLocals, Locals
    <2> QED
      BY <1>2, <1>6, <2>1 DEF StartStep, EnterStep, driverVars
  <1>7. ASSUME SensorStep \/ AnalystStep \/ ActuatorStep \/ SimulatorEnds PROVE DemoInv'
    BY <1>1, <1>7 DEF SensorStep, AnalystStep, ActuatorStep, SimulatorEnds, Propose, workerVars,
                      driverVars
  <1>8. ASSUME SimulatorPredicts PROVE DemoInv'
    <2>1. stage = "step" /\ FiringNow # {} /\ local' = [local EXCEPT !.rule = Min(FiringNow) + 1]
      BY <1>8 DEF SimulatorPredicts
    <2>2. local' \in Locals
      BY <2>1, FiringRule DEF DemoInv, Locals
    <2> QED
      BY <1>2, <1>8, <2>1, <2>2 DEF SimulatorPredicts, Propose, driverVars
  <1>9. ASSUME NEW base \in BaseReasons, AdaptiveWrites(base) PROVE DemoInv'
    <2>1. local' = local \/ local' = [local EXCEPT !.written = @ \cup {base}]
      BY <1>9 DEF AdaptiveWrites
    <2>2. local' \in Locals
      BY <2>1 DEF DemoInv, Locals
    <2> QED
      BY <1>2, <1>9, <2>2 DEF AdaptiveWrites, driverVars
  <1>10. ASSUME NEW w \in DOMAIN OpOf, CallPipeline(w) PROVE DemoInv'
    BY <1>1, <1>10 DEF CallPipeline, workerVars, driverVars
  <1>11. ASSUME PipelineStep \/ WriteFails \/ PipelineFails PROVE DemoInv'
    BY <1>1, <1>11 DEF PipelineStep, WriteFails, PipelineFails, Fault, StepFailed, orchVars,
                       workerVars, driverVars
  <1>12. ASSUME Answer PROVE DemoInv'
    <2>1. \/ local' = local
          \/ local' = [local EXCEPT !.safe = TRUE]
          \/ local' = [local EXCEPT !.gain = @ \/ (job[Main].code = "COMMITTED")]
      BY <1>12 DEF Answer
    <2>2. local' \in Locals
      BY <2>1 DEF DemoInv, Locals
    <2> QED
      BY <1>2, <1>12, <2>2 DEF Answer, driverVars
  <1>13. ASSUME Restart PROVE DemoInv'
    BY <1>13 DEF Restart, Fault, DemoInv, NoLocals, Locals
  <1> QED
    BY <1>3, <1>4, <1>5, <1>6, <1>7, <1>8, <1>9, <1>10, <1>11, <1>12, <1>13 DEF DemoNext, Proceed

\* The demo goes through its kernel: every step of its workers, of its failures and
\* of its restarts is a step of Kernel or none.
THEOREM DemoUsesKernel == DemoSpec => UsesKernel
  <1>1. DemoInit => DemoInv /\ Inv /\ Init
    BY DemoInitInv, InitInv
  <1>2. DemoInv /\ Inv /\ [DemoNext]_demoVars => DemoInv' /\ Inv' /\ [Next]_vars
    BY DemoIsKernelStep, DemoKeepsInv, NextInv
  <1> QED
    BY <1>1, <1>2, PTL DEF DemoSpec, UsesKernel, Spec

\* So no proposal of the demo is committed twice, and its board is an audit trail,
\* when all of its threads share one kernel.
THEOREM DemoIsAuditTrail ==
    ASSUME OneKernel
    PROVE  DemoSpec => IsAuditTrail /\ []AtMostOneCommit
  <1>1. DemoSpec => Spec
    BY DemoUsesKernel DEF UsesKernel
  <1>2. Spec => IsAuditTrail
    BY KernelIsAuditTrail
  <1>3. Spec => []AtMostOneCommit
    BY KernelAtMostOneCommit
  <1> QED
    BY <1>1, <1>2, <1>3

-----------------------------------------------------------------------------
\* What the learner does, from the failures of one episode to the constraints of a
\* later one.

\* The constraints on the board of a base reason, and the refusals of the episodes
\* before the one that runs.
Lessons(base) == {i \in DOMAIN recs : recs[i].kind = Lesson(base)}
Causes(base)  == {f \in RefusedFor(base) : recs[f].trace # Trace}

\* The board: every record is of an episode that was begun, what is proposed the
\* learner scans, only what is proposed is refused, and a lesson is never proposed.
BoardInv ==
    \A i \in DOMAIN recs :
        /\ \E n \in 1..episode : recs[i].trace = TraceIds[n]
        /\ recs[i].mode = "PROPOSE" => recs[i].slot \in Scanned
        /\ recs[i].reason \in BaseReasons =>
             recs[i].mode = "PROPOSE" /\ recs[i].status = "INVALIDATED"
        /\ \A base \in BaseReasons : recs[i].kind = Lesson(base) => recs[i].mode = "COMMIT"

\* The proposal taken to a pipeline is one of the episode that runs.
OwnProposal ==
    /\ stage = "call" => recs # << >> /\ recs[Len(recs)].trace = Trace
    /\ stage = "inside" =>
         /\ job[Main].trace = Trace
         /\ job[Main].prop \in DOMAIN recs /\ recs[job[Main].prop].trace = Trace

\* The learner: what it has queued has its causes, what it has emitted is on the
\* board, and in its step what is written has been emitted.
LearnerInv ==
    /\ queued \subseteq BaseReasons /\ emitted \subseteq BaseReasons
    /\ threshold \in Nat /\ lap \in Nat /\ faults \in Nat
    /\ stage = "step" /\ AtWork("adaptive") => local.written \subseteq emitted
    /\ \A base \in queued : Cardinality(Causes(base)) >= threshold
    /\ \A base \in emitted : Lessons(base) # {}

\* NothingForgotten, at every moment of an episode.
Remembered ==
    lap > 1 => \A base \in BaseReasons :
        Causes(base) # {} /\ Cardinality(Causes(base)) >= threshold
            => base \in queued \/ Lessons(base) # {}

\* LessonsNotRepeated is not inductive alone: a lesson is written at most once for
\* every fault, and once more when this process will not write it again by itself.
Spent(base) ==
    /\ base \in emitted
    /\ base \in queued => stage = "step" /\ AtWork("adaptive") /\ base \in local.written

LessonsCounted ==
    \A base \in BaseReasons :
        Cardinality(Lessons(base)) <= IF Spent(base) THEN faults + 1 ELSE faults

LessonsInv ==
    /\ BoardInv /\ OwnProposal /\ LearnerInv
    /\ LessonsHaveCauses /\ Remembered /\ LessonsCounted

-----------------------------------------------------------------------------
\* What a step of the demo does to the board.

\* From board rs to board new, records are only added, those of the episode of
\* this trace; of the others an unsettled proposal of the same may be settled.
News(rs, new, trace) ==
    /\ rs \in Seq(Record) /\ new \in Seq(Record) /\ Len(rs) <= Len(new)
    /\ \A i \in 1..Len(rs) :
         /\ Kept(rs[i], new[i])
         /\ \/ new[i] = rs[i]
            \/ /\ rs[i].trace = trace /\ rs[i].mode = "PROPOSE"
               /\ rs[i].status # "INVALIDATED" /\ new[i].status = "INVALIDATED"
    /\ \A i \in (Len(rs) + 1)..Len(new) :
         /\ new[i].trace = trace /\ new[i].reason = "none" /\ new[i].status = "ACTIVE"
         /\ new[i].mode = "PROPOSE" => new[i].slot \in Scanned

NoLesson(rs, new) ==
    \A i \in (Len(rs) + 1)..Len(new) : \A base \in BaseReasons : new[i].kind # Lesson(base)

\* The records of the demo, but for the lessons.
Ordinary(d, trace) ==
    /\ d.trace = trace /\ d.reason = "none" /\ d.status = "ACTIVE"
    /\ d.mode = "PROPOSE" => d.slot \in Scanned
    /\ \A base \in BaseReasons : d.kind # Lesson(base)

LEMMA SameNews ==
    ASSUME NEW rs \in Seq(Record), NEW trace
    PROVE  News(rs, rs, trace) /\ NoLesson(rs, rs)
  <1>1. Len(rs) \in Nat
    BY LenProperties
  <1>2. \A i \in 1..Len(rs) : Kept(rs[i], rs[i])
    BY Zenon DEF Kept
  <1>3. Len(rs) <= Len(rs) /\ (Len(rs) + 1)..Len(rs) = {}
    BY <1>1
  <1> QED
    BY <1>2, <1>3, Zenon DEF News, NoLesson

LEMMA AppendNews ==
    ASSUME NEW rs \in Seq(Record), NEW d \in Record, NEW trace,
           d.trace = trace, d.reason = "none", d.status = "ACTIVE",
           d.mode = "PROPOSE" => d.slot \in Scanned
    PROVE  /\ News(rs, Append(rs, d), trace)
           /\ (\A base \in BaseReasons : d.kind # Lesson(base)) => NoLesson(rs, Append(rs, d))
  <1> DEFINE n == Len(rs)
             new == Append(rs, d)
  <1>1. /\ n \in Nat /\ new \in Seq(Record) /\ Len(new) = n + 1
        /\ \A i \in 1..n : new[i] = rs[i]
        /\ new[n + 1] = d
    BY LenProperties, AppendProperties
  <1> HIDE DEF n, new
  <1>2. \A i \in 1..n : Kept(rs[i], new[i])
    BY <1>1, Zenon DEF Kept
  <1>3. n <= n + 1 /\ \A i \in (n + 1)..(n + 1) : i = n + 1
    BY <1>1
  <1>4. News(rs, new, trace)
    BY <1>1, <1>2, <1>3, Zenon DEF News, n
  <1>5. (\A base \in BaseReasons : d.kind # Lesson(base)) => NoLesson(rs, new)
    BY <1>1, <1>3, Zenon DEF NoLesson, n
  <1> QED
    BY <1>4, <1>5 DEF new

LEMMA RefusalNews ==
    ASSUME NEW rs \in Seq(Record), NEW p \in DOMAIN rs, NEW why \in Reasons,
           rs[p].mode = "PROPOSE", rs[p].status # "INVALIDATED"
    PROVE  News(rs, Invalidate(rs, p, why), rs[p].trace) /\ NoLesson(rs, Invalidate(rs, p, why))
  <1> DEFINE n == Len(rs)
             new == Invalidate(rs, p, why)
  <1>1. /\ n \in Nat /\ DOMAIN rs = 1..n /\ new \in Seq(Record) /\ Len(new) = n
        /\ \A i \in 1..n : i # p => new[i] = rs[i]
        /\ Kept(rs[p], new[p]) /\ new[p].status = "INVALIDATED"
    BY LenProperties, InvalidateFacts
  <1> HIDE DEF n, new
  <1>2. \A i \in 1..n : Kept(rs[i], new[i])
    BY <1>1, Zenon DEF Kept
  <1>3. n <= n /\ (n + 1)..n = {}
    BY <1>1
  <1>4. News(rs, new, rs[p].trace) /\ NoLesson(rs, new)
    BY <1>1, <1>2, <1>3, Zenon DEF News, NoLesson, n
  <1> QED
    BY <1>4 DEF new

\* The names of the learned constraints are no other names of the demo.
LEMMA LessonNames ==
    ASSUME NEW base \in BaseReasons
    PROVE  /\ \A kind : ValidationOf(kind) # Lesson(base) /\ PredKind(kind) # Lesson(base)
           /\ Lesson(base) \notin {temperature, anomaly_detected, alert, queue_for_review}
  <1>1. \A x, y : <<"validation", x>> # <<"learned", y>> /\ <<"pred", x>> # <<"learned", y>>
    OBVIOUS
  <1> QED
    BY <1>1, EpisodesAssumption DEF ValidationOf, PredKind, Lesson

\* A commit settles the proposal, and adds records of its kind or that vouch for it.
LEMMA LandedNews ==
    ASSUME NEW rs \in Seq(Record), NEW j \in Job, j.prop \in DOMAIN rs,
           WellFormed(rs[j.prop]), j.trace \in Traces, rs[j.prop].trace = j.trace,
           rs[j.prop].mode = "PROPOSE", rs[j.prop].status # "INVALIDATED",
           \A base \in BaseReasons : rs[j.prop].kind # Lesson(base)
    PROVE  News(rs, Landed(rs, j), j.trace) /\ NoLesson(rs, Landed(rs, j))
  <1> DEFINE n == Len(rs)
             p == j.prop
             gone == Invalidate(rs, p, "SUPERSEDED_BY_COMMIT")
             e == EvidenceFor(rs, p, j.trace, Voucher(j), j.since)
             b == CommittedFrom(rs, p, j.trace, n + 1, j.since)
             c == CommittedFrom(rs, p, j.trace, NoId, j.since)
  <1>1. /\ n \in Nat /\ DOMAIN rs = 1..n /\ gone \in Seq(Record) /\ Len(gone) = n
        /\ \A i \in 1..n : i # p => gone[i] = rs[i]
        /\ Kept(rs[p], gone[p]) /\ gone[p].status = "INVALIDATED"
    BY LenProperties, InvalidateFacts DEF Reasons
  <1>2. Voucher(j) \in Vouchers /\ j.since \in Nat /\ rs[p].kind \in Kinds /\ n + 1 \in Nat
    BY <1>1 DEF Job, Voucher, Vouchers, WellFormed
  <1>3. e \in Record /\ b \in Record /\ c \in Record
    BY <1>2, WrittenAreRecords DEF NoId
  <1>4. Ordinary(e, j.trace) /\ Ordinary(b, j.trace) /\ Ordinary(c, j.trace)
        /\ e.mode = "COMMIT" /\ b.mode = "COMMIT" /\ c.mode = "COMMIT"
    BY LessonNames DEF Ordinary, EvidenceFor, CommittedFrom
  <1>5. Landed(rs, j) = IF j.op = "belief" THEN Append(Append(gone, e), b) ELSE Append(gone, c)
    BY LandedIsCommit
  <1> HIDE DEF gone, e, b, c
  <1>6. \A i \in 1..n : Kept(rs[i], gone[i])
    BY <1>1, Zenon DEF Kept
  <1>7. ASSUME NEW new \in Seq(Record), Len(new) >= n, \A i \in 1..n : new[i] = gone[i],
               \A i \in (n + 1)..Len(new) : Ordinary(new[i], j.trace)
        PROVE  News(rs, new, j.trace) /\ NoLesson(rs, new)
    <2>1. n <= Len(new)
      BY <1>1, <1>7, LenProperties
    <2>2. \A i \in 1..n : Kept(rs[i], new[i])
      BY <1>6, <1>7
    <2>3. \A i \in 1..n : new[i] = rs[i] \/ (i = p /\ new[i].status = "INVALIDATED")
      BY <1>1, <1>7
    <2> QED
      BY <1>7, <2>1, <2>2, <2>3, Zenon DEF News, NoLesson, Ordinary
  <1>8. CASE j.op = "belief"
    <2> DEFINE mid == Append(gone, e)
               new == Append(mid, b)
    <2>1. /\ mid \in Seq(Record) /\ Len(mid) = n + 1
          /\ \A i \in 1..n : mid[i] = gone[i]
          /\ mid[n + 1] = e
      BY <1>1, <1>3, AppendProperties
    <2> HIDE DEF mid
    <2>2. /\ new \in Seq(Record) /\ Len(new) = n + 2
          /\ \A i \in 1..(n + 1) : new[i] = mid[i]
          /\ new[n + 2] = b
      BY <1>1, <1>3, <2>1, AppendProperties
    <2> HIDE DEF new
    <2>3. /\ \A i \in 1..n : new[i] = gone[i]
          /\ \A i \in (n + 1)..(n + 2) : new[i] = e \/ new[i] = b
      BY <1>1, <2>1, <2>2
    <2>4. Landed(rs, j) = new /\ Len(new) >= n
      BY <1>1, <1>5, <1>8, <2>2 DEF new, mid
    <2> QED
      BY <1>4, <1>7, <2>2, <2>3, <2>4
  <1>9. CASE j.op # "belief"
    <2> DEFINE new == Append(gone, c)
    <2>1. /\ new \in Seq(Record) /\ Len(new) = n + 1
          /\ \A i \in 1..n : new[i] = gone[i]
          /\ new[n + 1] = c
      BY <1>1, <1>3, AppendProperties
    <2> HIDE DEF new
    <2>2. Len(new) >= n /\ \A i \in (n + 1)..(n + 1) : new[i] = c
      BY <1>1, <2>1
    <2> QED
      BY <1>4, <1>5, <1>7, <1>9, <2>1, <2>2 DEF new
  <1> QED
    BY <1>8, <1>9

\* What the demo writes itself is ordinary, but for the lessons; a lesson is no
\* proposal.
LEMMA DemoWritesOrdinary ==
    /\ \A r, trace : Ordinary(Percept(r, trace), trace)
    /\ \A trace : /\ Ordinary(Suspicion(trace), trace)
                  /\ Ordinary(Alert(trace), trace) /\ Ordinary(Review(trace), trace)
    /\ \A n \in DOMAIN Rules : \A trace : Ordinary(PredictionFrom(Rules[n], trace), trace)
    /\ \A base \in BaseReasons : \A trace :
         LET d == LessonRecord(base, trace)
         IN  /\ d.trace = trace /\ d.reason = "none" /\ d.mode = "COMMIT"
             /\ d.status = "ACTIVE" /\ d.kind = Lesson(base)
  <1>1. \A r, trace : Ordinary(Percept(r, trace), trace)
    BY LessonNames DEF Ordinary, Percept, Proposal
  <1>2. \A trace : Ordinary(Suspicion(trace), trace)
    BY LessonNames DEF Ordinary, Suspicion, Proposal, Scanned
  <1>3. \A trace : Ordinary(Alert(trace), trace) /\ Ordinary(Review(trace), trace)
    BY LessonNames DEF Ordinary, Alert, Review, Proposal, Scanned
  <1>4. \A n \in DOMAIN Rules : \A trace : Ordinary(PredictionFrom(Rules[n], trace), trace)
    BY LessonNames DEF Ordinary, PredictionFrom, Scanned
  <1>5. \A base \in BaseReasons : \A trace :
         LET d == LessonRecord(base, trace)
         IN  /\ d.trace = trace /\ d.reason = "none" /\ d.mode = "COMMIT"
             /\ d.status = "ACTIVE" /\ d.kind = Lesson(base)
    BY DEF LessonRecord
  <1> QED
    BY <1>1, <1>2, <1>3, <1>4, <1>5, Zenon

\* A pipeline keeps to its call.
KeepsToCall(t) ==
    /\ job'[t].op = job[t].op /\ job'[t].prop = job[t].prop
    /\ job'[t].trace = job[t].trace /\ job'[t].need = job[t].need
    /\ Fetch(t) \/ job'[t].since = job[t].since

LEMMA SameJob ==
    ASSUME Inv, NEW t \in Threads, Step(t), ~At(t, "return")
    PROVE  KeepsToCall(t)
  <1>1. job[t] \in Job /\ job \in [Threads -> Job]
    BY ThreadFacts DEF Inv, TypeOK
  <1>3. CASE UNCHANGED job
    BY <1>3 DEF KeepsToCall
  <1>4. ASSUME NEW code, job' = [job EXCEPT ![t].code = code] PROVE KeepsToCall(t)
    BY <1>1, <1>4 DEF Job, KeepsToCall
  <1>5. ASSUME NEW pos, job' = [job EXCEPT ![t].pos = pos] PROVE KeepsToCall(t)
    BY <1>1, <1>5 DEF Job, KeepsToCall
  <1>6. CASE Fetch(t)
    <2>1. \/ job' = [job EXCEPT ![t].since = Len(recs)]
          \/ job' = [job EXCEPT ![t].code = "INVALID_PROPOSAL"]
      BY <1>6 DEF Fetch
    <2> QED
      BY <1>1, <1>6, <2>1 DEF Job, KeepsToCall
  <1>7. CASE ListSlot(t)
    <2>1. \E v, pos : job' = [job EXCEPT ![t].view = v, ![t].pos = pos]
      BY <1>7, Zenon DEF ListSlot
    <2>2. PICK v, pos : job' = [job EXCEPT ![t].view = v, ![t].pos = pos]
      BY <2>1
    <2> QED
      BY <1>1, <2>2 DEF Job, KeepsToCall
  <1>8. CASE Gate(t)
    <2>1. \/ \E code : job' = [job EXCEPT ![t].code = code]
          \/ \E pos, vetted : job' = [job EXCEPT ![t].pos = pos, ![t].vetted = vetted]
      BY <1>8, Zenon DEF Gate, Reject
    <2>2. ASSUME NEW pos, NEW vetted, job' = [job EXCEPT ![t].pos = pos, ![t].vetted = vetted]
          PROVE  KeepsToCall(t)
      BY <1>1, <2>2 DEF Job, KeepsToCall
    <2> QED
      BY <1>4, <2>1, <2>2
  <1>9. CASE JudgeBelief(t)
    <2>1. UNCHANGED job \/ (\E pos : job' = [job EXCEPT ![t].pos = pos])
          \/ (\E code : job' = [job EXCEPT ![t].code = code])
      BY <1>9, Zenon DEF JudgeBelief, Reject
    <2> QED
      BY <1>3, <1>4, <1>5, <2>1
  <1>10. CASE Arbitrate(t) \/ CheckNeeds(t) \/ Claims(t)
    <2>1. (\E pos : job' = [job EXCEPT ![t].pos = pos])
          \/ (\E code : job' = [job EXCEPT ![t].code = code])
          \/ (\E claims : job' = [job EXCEPT ![t].claims = claims])
      BY <1>10, Zenon DEF Arbitrate, CheckNeeds, Claims, Reject
    <2>2. ASSUME NEW claims, job' = [job EXCEPT ![t].claims = claims]
          PROVE  KeepsToCall(t)
      BY <1>1, <2>2 DEF Job, KeepsToCall
    <2> QED
      BY <1>4, <1>5, <2>1, <2>2
  <1>11. CASE JudgePlan(t) \/ JudgeAction(t) \/ EndTx(t)
    <2>1. UNCHANGED job \/ (\E code : job' = [job EXCEPT ![t].code = code])
      BY <1>11, Zenon DEF JudgePlan, JudgeAction, Reject, EndTx
    <2> QED
      BY <1>3, <1>4, <2>1
  <1>12. CASE Acquire(t) \/ Refuse(t) \/ BeginTx(t) \/ WriteEvidence(t) \/ Supersede(t)
              \/ WriteRecord(t)
    BY <1>3, <1>12 DEF Acquire, Refuse, BeginTx, WriteEvidence, Supersede, WriteRecord
  <1>13. ~Return(t)
    BY DEF Return
  <1> QED
    BY <1>6, <1>7, <1>8, <1>9, <1>10, <1>11, <1>12, <1>13, Zenon DEF Step

\* A step of a pipeline settles the proposal of its call, or leaves the board alone.
LEMMA PipelineNews ==
    ASSUME Inv, OneKernel, BoardInv, NEW t \in Threads, Step(t), NEW trace,
           job[t].trace = trace, job[t].prop \in DOMAIN recs => recs[job[t].prop].trace = trace
    PROVE  News(recs, recs', trace) /\ NoLesson(recs, recs')
  <1>1. recs \in Seq(Record) /\ job[t] \in Job
    BY ThreadFacts DEF Inv, TypeOK
  <1>2. ASSUME pc[t] \in Pending
        PROVE  /\ job[t].prop \in DOMAIN recs /\ recs[job[t].prop].mode = "PROPOSE"
               /\ recs[job[t].prop].status # "INVALIDATED"
               /\ recs[job[t].prop].trace = trace
    BY <1>2, ThreadFacts DEF Fit
  <1>3. CASE Refuse(t)
    <2>1. /\ pc[t] \in Pending /\ recs' = Invalidate(recs, job[t].prop, job[t].code)
          /\ job[t].code \in Reasons
      BY <1>3, ThreadFacts DEF Refuse, At, Fit, Pending, Holding, Labels, Reasons
    <2> QED
      BY <1>1, <1>2, <2>1, RefusalNews
  <1>4. CASE EndTx(t)
    <2>1. pc[t] \in Pending /\ recs' = Landed(recs, job[t])
      BY <1>4, InTransaction DEF EndTx, At, Inv, Safe, Ready, Writing, InTx
    <2>2. WellFormed(recs[job[t].prop]) /\ job[t].trace \in Traces
      BY <2>1, AcceptedBoards
    <2>3. \A base \in BaseReasons : recs[job[t].prop].kind # Lesson(base)
      BY <1>2, <2>1 DEF BoardInv
    <2> QED
      BY <1>1, <1>2, <2>1, <2>2, <2>3, LandedNews
  <1>5. CASE recs' = recs
    BY <1>1, <1>5, SameNews
  <1>6. \/ Refuse(t) \/ EndTx(t) \/ recs' = recs
    BY Zenon DEF Step, Acquire, Fetch, ListSlot, JudgeBelief, Arbitrate, Gate, Claims, JudgePlan,
       JudgeAction, CheckNeeds, BeginTx, WriteEvidence, Supersede, WriteRecord, Return
  <1> QED
    BY <1>3, <1>4, <1>5, <1>6

\* Every step of the demo brings news of its own episode only, and a lesson only
\* when the learner steps.
LEMMA DemoNews ==
    ASSUME Inv, OneKernel, DemoInv, BoardInv, OwnProposal, [DemoNext]_demoVars
    PROVE  /\ News(recs, recs', Trace)
           /\ NoLesson(recs, recs') \/ \E base \in BaseReasons : AdaptiveWrites(base)
           /\ recs' = recs \/ stage # "between"
  <1>1. recs \in Seq(Record)
    BY DEF Inv, TypeOK
  <1>2. ASSUME recs' = recs
        PROVE  /\ News(recs, recs', Trace) /\ NoLesson(recs, recs')
    BY <1>1, <1>2, SameNews
  <1>3. ASSUME NEW d \in Drafts, Write(d), Ordinary(d, Trace)
        PROVE  News(recs, recs', Trace) /\ NoLesson(recs, recs')
    <2>1. d \in Record /\ recs' = Append(recs, d)
      BY <1>3, PublishedIsRecord DEF Write
    <2> QED
      BY <1>1, <1>3, <2>1, AppendNews DEF Ordinary
  <1>4. CASE UNCHANGED demoVars
    BY <1>2, <1>4 DEF demoVars, vars
  <1>5. ASSUME NEW n, NEW r, BeginEpisode(n, r) PROVE recs' = recs
    BY <1>5 DEF BeginEpisode, vars
  <1>6. ASSUME Look \/ StartStep \/ GoRound \/ EndEpisode \/ SimulatorEnds \/ WriteFails
        PROVE  recs' = recs
    BY <1>6 DEF Look, StartStep, GoRound, EndEpisode, SimulatorEnds, WriteFails, vars
  <1>7. ASSUME SensorStep \/ AnalystStep \/ ActuatorStep
        PROVE  News(recs, recs', Trace) /\ NoLesson(recs, recs') /\ stage # "between"
    <2>1. stage = "step"
      BY <1>7 DEF SensorStep, AnalystStep, ActuatorStep
    <2>2. PICK d \in Drafts : Write(d) /\ Ordinary(d, Trace)
      BY <1>7, <2>1, WrittenIsDraft, DemoWritesOrdinary DEF SensorStep, AnalystStep, ActuatorStep, Propose
    <2> QED
      BY <1>3, <2>1, <2>2
  <1>8. ASSUME SimulatorPredicts
        PROVE  News(recs, recs', Trace) /\ NoLesson(recs, recs') /\ stage # "between"
    <2>1. stage = "step" /\ FiringNow # {} /\ Write(PredictionFrom(Rules[Min(FiringNow)], Trace))
      BY <1>8 DEF SimulatorPredicts, Propose
    <2>2. Min(FiringNow) \in DOMAIN Rules
      BY <2>1, FiringRule DEF DemoInv
    <2>3. PredictionFrom(Rules[Min(FiringNow)], Trace) \in Drafts
      BY <2>1, <2>2, WrittenIsDraft
    <2>4. Ordinary(PredictionFrom(Rules[Min(FiringNow)], Trace), Trace)
      BY <2>2, DemoWritesOrdinary
    <2> QED
      BY <1>3, <2>1, <2>3, <2>4
  <1>9. ASSUME NEW base \in BaseReasons, AdaptiveWrites(base)
        PROVE  News(recs, recs', Trace) /\ stage # "between"
    <2>1. stage = "step" /\ Write(LessonRecord(base, Trace))
      BY <1>9 DEF AdaptiveWrites
    <2> DEFINE d == LessonRecord(base, Trace)
    <2>2. d \in Drafts /\ Write(d)
      BY <2>1, WrittenIsDraft
    <2>3. d.trace = Trace /\ d.reason = "none" /\ d.mode = "COMMIT" /\ d.status = "ACTIVE"
      BY DemoWritesOrdinary
    <2> HIDE DEF d
    <2>4. d \in Record /\ recs' = Append(recs, d)
      BY <2>2, PublishedIsRecord DEF Write
    <2> QED
      BY <1>1, <2>1, <2>3, <2>4, AppendNews
  <1>10. ASSUME NEW w \in DOMAIN OpOf, CallPipeline(w) PROVE recs' = recs
    BY <1>10 DEF CallPipeline, Call
  <1>11. ASSUME PipelineStep
         PROVE  News(recs, recs', Trace) /\ NoLesson(recs, recs') /\ stage # "between"
    <2>1. stage = "inside" /\ Step(Main) /\ Main \in Threads
      BY <1>11, EpisodesAssumption DEF PipelineStep
    <2> QED
      BY <2>1, PipelineNews DEF OwnProposal
  <1>12. ASSUME Answer \/ PipelineFails PROVE recs' = recs
    BY <1>12 DEF Answer, PipelineFails, Return, Raise
  <1>13. ASSUME Restart PROVE recs' = recs
    BY <1>13 DEF Restart, KernelDies, Crash, vars
  <1> QED
    BY <1>2, <1>4, <1>5, <1>6, <1>7, <1>8, <1>9, <1>10, <1>11, <1>12, <1>13, Zenon
    DEF DemoNext, Proceed

\* It is not the learner's turn when another worker is at work.
LEMMA KeysDiffer ==
    \A w \in {"sensor", "analyst", "simulator", "actuator"} :
        DependencyKey(w) # DependencyKey("adaptive")
BY EpisodesAssumption, OrchestratorAssumption DEF Workers, DemoWrites

\* What a process does by itself changes nothing of the learner, but for its step.
LEMMA OthersProceed ==
    ASSUME Proceed, \A base \in BaseReasons : ~AdaptiveWrites(base)
    PROVE  /\ UNCHANGED <<queued, emitted, threshold, lap, faults, episode, reading>>
           /\ ~(stage = "step" /\ AtWork("adaptive"))
           /\ stage' = "step" /\ AtWork("adaptive")' => local'.written = {}
           /\ stage # "between"
  <1>1. CASE Look \/ GoRound \/ EndEpisode
    BY <1>1 DEF Look, GoRound, EndEpisode, LookAround, EndRound, FinishRun, workerVars, driverVars
  <1>2. CASE StartStep
    BY <1>2 DEF StartStep, EnterStep, driverVars, NoLocals
  <1>3. CASE SensorStep \/ AnalystStep \/ SimulatorEnds \/ ActuatorStep
    BY <1>3, KeysDiffer DEF SensorStep, AnalystStep, SimulatorEnds, ActuatorStep, Propose, LeaveStep,
       AtWork, workerVars, driverVars
  <1>4. CASE SimulatorPredicts
    BY <1>4, KeysDiffer DEF SimulatorPredicts, Propose, AtWork, driverVars
  <1>5. CASE PipelineStep
    BY <1>5 DEF PipelineStep, orchVars, workerVars, driverVars
  <1>6. CASE \E w \in DOMAIN OpOf : CallPipeline(w)
    BY <1>6 DEF CallPipeline, workerVars, driverVars
  <1>7. CASE Answer
    BY <1>7, KeysDiffer DEF Answer, LeaveStep, AtWork, driverVars
  <1> QED
    BY <1>1, <1>2, <1>3, <1>4, <1>5, <1>6, <1>7 DEF Proceed

-----------------------------------------------------------------------------
\* What that means for the refusals and the lessons.

LEMMA SubsetSmaller ==
    ASSUME NEW n \in Nat, NEW T \in SUBSET (1..n), NEW S \in SUBSET T
    PROVE  /\ IsFiniteSet(T) /\ IsFiniteSet(S)
           /\ Cardinality(S) \in Nat /\ Cardinality(T) \in Nat
           /\ Cardinality(S) <= Cardinality(T)
  <1>1. IsFiniteSet(1..n)
    BY FS_Interval
  <1>2. IsFiniteSet(T)
    BY <1>1, FS_Subset
  <1>3. IsFiniteSet(S) /\ Cardinality(S) <= Cardinality(T)
    BY <1>2, FS_Subset
  <1> QED
    BY <1>2, <1>3, FS_CardinalityType

\* A refusal stays one, the refusals of other episodes stay what they are, and so
\* do the lessons.
LEMMA RefusalsStay ==
    ASSUME BoardInv, News(recs, recs', Trace), NEW base \in BaseReasons
    PROVE  /\ RefusedFor(base) \subseteq RefusedFor(base)'
           /\ \A f \in RefusedFor(base) : recs'[f] = recs[f]
           /\ \A f \in RefusedFor(base)' : f \in DOMAIN recs /\ recs'[f].trace = recs[f].trace
           /\ \A f \in RefusedFor(base)' : recs[f].trace # Trace => f \in RefusedFor(base)
           /\ Lessons(base) \subseteq Lessons(base)'
           /\ NoLesson(recs, recs') => Lessons(base)' = Lessons(base)
  <1>1. PICK m \in Nat, n \in Nat :
            /\ m = Len(recs) /\ n = Len(recs') /\ m <= n
            /\ DOMAIN recs = 1..m /\ DOMAIN recs' = 1..n
    BY LenProperties DEF News
  <1>2. \A i \in 1..m : /\ i \in 1..n
                        /\ Kept(recs[i], recs'[i])
                        /\ recs[i].status = "INVALIDATED" => recs'[i] = recs[i]
                        /\ recs[i].trace # Trace => recs'[i] = recs[i]
    BY <1>1 DEF News
  <1>3. \A i \in 1..n : i \in 1..m \/ i \in (m + 1)..n
    BY <1>1
  <1>4. base # "none"
    BY DEF BaseReasons, ReasonToConstraint
  <1>5. \A f \in RefusedFor(base) : recs'[f] = recs[f] /\ f \in 1..m
    BY <1>1, <1>2 DEF RefusedFor, BoardInv
  <1>6. RefusedFor(base) \subseteq RefusedFor(base)'
    BY <1>1, <1>2, <1>5 DEF RefusedFor
  <1>7. \A f \in RefusedFor(base)' : f \in 1..m
    BY <1>1, <1>3, <1>4 DEF RefusedFor, News
  <1>8. \A f \in RefusedFor(base)' : /\ recs'[f].trace = recs[f].trace
                                     /\ recs[f].trace # Trace => f \in RefusedFor(base)
    BY <1>1, <1>2, <1>7 DEF RefusedFor, Kept
  <1>9. Lessons(base) \subseteq Lessons(base)'
    BY <1>1, <1>2 DEF Lessons, Kept
  <1>10. ASSUME NoLesson(recs, recs') PROVE Lessons(base)' \subseteq Lessons(base)
    BY <1>1, <1>2, <1>3, <1>10 DEF Lessons, NoLesson, Kept
  <1> QED
    BY <1>1, <1>5, <1>6, <1>7, <1>8, <1>9, <1>10

\* So an episode does not change what its predecessors gave cause for.
LEMMA CausesStay ==
    ASSUME BoardInv, News(recs, recs', Trace), episode' = episode, NEW base \in BaseReasons
    PROVE  Causes(base)' = Causes(base)
  <1>1. Trace' = Trace
    BY DEF Trace
  <1> QED
    BY <1>1, RefusalsStay DEF Causes

\* The learner's step appends a lesson.
LEMMA AdaptiveAppends ==
    ASSUME Inv, DemoInv, NEW base \in BaseReasons, AdaptiveWrites(base)
    PROVE  /\ Len(recs) \in Nat /\ Len(recs') = Len(recs) + 1
           /\ DOMAIN recs = 1..Len(recs) /\ DOMAIN recs' = 1..(Len(recs) + 1)
           /\ \A i \in 1..Len(recs) : recs'[i] = recs[i]
           /\ recs'[Len(recs) + 1].mode = "COMMIT"
           /\ recs'[Len(recs) + 1].kind = Lesson(base)
           /\ recs'[Len(recs) + 1].trace = Trace
  <1> DEFINE d == LessonRecord(base, Trace)
  <1>1. stage = "step" /\ Write(d)
    BY DEF AdaptiveWrites
  <1>2. d \in Drafts
    BY <1>1, WrittenIsDraft
  <1>3. d.trace = Trace /\ d.mode = "COMMIT" /\ d.kind = Lesson(base)
    BY DemoWritesOrdinary
  <1> HIDE DEF d
  <1>4. d \in Record /\ recs' = Append(recs, d) /\ recs \in Seq(Record)
    BY <1>1, <1>2, PublishedIsRecord DEF Write, Inv, TypeOK
  <1>5. /\ Len(recs') = Len(recs) + 1 /\ recs' \in Seq(Record) /\ recs'[Len(recs) + 1] = d
        /\ \A i \in 1..Len(recs) : recs'[i] = recs[i]
    BY <1>4, AppendProperties
  <1>6. /\ Len(recs) \in Nat /\ DOMAIN recs = 1..Len(recs) /\ DOMAIN recs' = 1..Len(recs')
    BY <1>4, <1>5, LenProperties
  <1> QED
    BY <1>3, <1>5, <1>6

\* A constraint is written under another name for every base reason.
LEMMA LessonsDiffer ==
    ASSUME NEW base \in BaseReasons, NEW other \in BaseReasons, Lesson(base) = Lesson(other)
    PROVE  base = other
  <1>1. ReasonToConstraint[base].name = ReasonToConstraint[other].name
    BY DEF Lesson
  <1> QED
    BY <1>1 DEF BaseReasons, ReasonToConstraint

LEMMA AdaptiveTeaches ==
    ASSUME Inv, DemoInv, NEW base \in BaseReasons, AdaptiveWrites(base)
    PROVE  /\ Lessons(base)' = Lessons(base) \cup {Len(recs) + 1}
           /\ \A other \in BaseReasons \ {base} : Lessons(other)' = Lessons(other)
  <1>1. PICK n \in Nat : n = Len(recs)
    BY AdaptiveAppends
  <1>2. /\ DOMAIN recs = 1..n /\ DOMAIN recs' = 1..(n + 1)
        /\ \A i \in 1..n : recs'[i] = recs[i]
        /\ recs'[n + 1].kind = Lesson(base)
    BY <1>1, AdaptiveAppends
  <1>3. \A i : i \in 1..(n + 1) <=> i \in 1..n \/ i = n + 1
    BY <1>1
  <1>4. Lessons(base)' = Lessons(base) \cup {n + 1}
    BY <1>2, <1>3 DEF Lessons
  <1>5. ASSUME NEW other \in BaseReasons \ {base} PROVE Lessons(other)' = Lessons(other)
    <2>1. Lesson(base) # Lesson(other)
      BY LessonsDiffer
    <2> QED
      BY <1>2, <1>3, <2>1 DEF Lessons
  <1> QED
    BY <1>1, <1>4, <1>5

-----------------------------------------------------------------------------
\* The steps preserve the invariant.  First the board: what is written keeps to it.
LEMMA BoardKept ==
    ASSUME Inv, OneKernel, DemoInv, BoardInv, OwnProposal, [DemoNext]_demoVars,
           episode' \in {episode, episode + 1}
    PROVE  BoardInv'
  <1>1. /\ News(recs, recs', Trace)
        /\ NoLesson(recs, recs') \/ \E base \in BaseReasons : AdaptiveWrites(base)
        /\ recs' = recs \/ stage # "between"
    BY DemoNews
  <1>2. PICK m \in Nat, n \in Nat :
            /\ m = Len(recs) /\ n = Len(recs') /\ m <= n
            /\ DOMAIN recs = 1..m /\ DOMAIN recs' = 1..n
    BY <1>1, LenProperties DEF News
  <1>3. episode \in Nat /\ 1..episode \subseteq 1..episode'
    <2>1. Len(TraceIds) \in Nat
      BY EpisodesAssumption
    <2> QED
      BY <2>1 DEF DemoInv
  <1>4. ASSUME NEW i \in 1..n, i > m
        PROVE  \E k \in 1..episode' : recs'[i].trace = TraceIds[k]
    <2>1. i \in (m + 1)..n /\ recs' # recs
      BY <1>2, <1>4
    <2>2. episode \in DOMAIN TraceIds /\ recs'[i].trace = TraceIds[episode]
      BY <1>1, <1>2, <2>1 DEF News, DemoInv, Trace
    <2>3. episode \in 1..episode'
      <3>1. DOMAIN TraceIds = 1..Len(TraceIds)
        BY EpisodesAssumption
      <3> QED
        BY <1>3, <2>2, <3>1
    <2> QED
      BY <2>2, <2>3
  <1>5. ASSUME NEW i \in 1..n, i > m
        PROVE  /\ recs'[i].mode = "PROPOSE" => recs'[i].slot \in Scanned
               /\ recs'[i].reason \notin BaseReasons
               /\ \A base \in BaseReasons : recs'[i].kind = Lesson(base) => recs'[i].mode = "COMMIT"
    <2>1. i \in (m + 1)..n
      BY <1>2, <1>5
    <2>2. recs'[i].reason = "none" /\ (recs'[i].mode = "PROPOSE" => recs'[i].slot \in Scanned)
      BY <1>1, <1>2, <2>1 DEF News
    <2>3. "none" \notin BaseReasons
      BY DEF BaseReasons, ReasonToConstraint
    <2>4. \A base \in BaseReasons : recs'[i].kind = Lesson(base) => recs'[i].mode = "COMMIT"
      <3>1. CASE NoLesson(recs, recs')
        BY <1>2, <2>1, <3>1 DEF NoLesson
      <3>2. ASSUME NEW base \in BaseReasons, AdaptiveWrites(base) PROVE recs'[i].mode = "COMMIT"
        <4>1. n = m + 1 /\ recs'[m + 1].mode = "COMMIT"
          BY <1>2, <3>2, AdaptiveAppends
        <4> QED
          BY <1>2, <2>1, <4>1
      <3> QED
        BY <1>1, <3>1, <3>2
    <2> QED
      BY <2>2, <2>3, <2>4
  <1>6. ASSUME NEW i \in 1..m
        PROVE  /\ \E k \in 1..episode' : recs'[i].trace = TraceIds[k]
               /\ recs'[i].mode = "PROPOSE" => recs'[i].slot \in Scanned
               /\ recs'[i].reason \in BaseReasons =>
                    recs'[i].mode = "PROPOSE" /\ recs'[i].status = "INVALIDATED"
               /\ \A base \in BaseReasons : recs'[i].kind = Lesson(base) => recs'[i].mode = "COMMIT"
    <2>1. /\ Kept(recs[i], recs'[i])
          /\ \/ recs'[i] = recs[i]
             \/ recs[i].mode = "PROPOSE" /\ recs'[i].status = "INVALIDATED"
      BY <1>1, <1>2 DEF News
    <2>2. /\ \E k \in 1..episode : recs[i].trace = TraceIds[k]
          /\ recs[i].mode = "PROPOSE" => recs[i].slot \in Scanned
          /\ recs[i].reason \in BaseReasons =>
               recs[i].mode = "PROPOSE" /\ recs[i].status = "INVALIDATED"
          /\ \A base \in BaseReasons : recs[i].kind = Lesson(base) => recs[i].mode = "COMMIT"
      BY <1>2 DEF BoardInv
    <2>3. \E k \in 1..episode' : recs'[i].trace = TraceIds[k]
      BY <1>3, <2>1, <2>2 DEF Kept
    <2>4. recs'[i].reason \in BaseReasons =>
            recs'[i].mode = "PROPOSE" /\ recs'[i].status = "INVALIDATED"
      BY <2>1, <2>2 DEF Kept
    <2> QED
      BY <2>1, <2>2, <2>3, <2>4 DEF Kept
  <1>7. \A i \in 1..n : i \in 1..m \/ i > m
    BY <1>2
  <1> QED
    BY <1>2, <1>4, <1>5, <1>6, <1>7 DEF BoardInv

\* The proposal in hand is the one just written, and of this episode.
LEMMA ProposalKept ==
    ASSUME Inv, OneKernel, DemoInv, BoardInv, OwnProposal, [DemoNext]_demoVars
    PROVE  OwnProposal'
  <1>1. /\ News(recs, recs', Trace) /\ recs \in Seq(Record)
    BY DemoNews DEF Inv, TypeOK
  <1>2. ASSUME stage' \notin {"call", "inside"} PROVE OwnProposal'
    BY <1>2 DEF OwnProposal
  <1>3. CASE UNCHANGED demoVars
    BY <1>3 DEF OwnProposal, demoVars, vars, orchVars, driverVars, Trace
  <1>4. ASSUME NEW n, NEW r, BeginEpisode(n, r) PROVE OwnProposal'
    BY <1>2, <1>4 DEF BeginEpisode, StartRun
  <1>5. ASSUME Look \/ StartStep \/ GoRound \/ EndEpisode \/ SensorStep \/ SimulatorEnds \/ Answer
               \/ WriteFails \/ PipelineFails \/ Restart
        PROVE  OwnProposal'
    BY <1>2, <1>5 DEF Look, StartStep, GoRound, EndEpisode, SensorStep, SimulatorEnds, Answer,
       WriteFails, PipelineFails, Restart, LookAround, EnterStep, EndRound, FinishRun, LeaveStep,
       StepFailed
  <1>6. ASSUME NEW base \in BaseReasons, AdaptiveWrites(base) PROVE OwnProposal'
    BY <1>2, <1>6 DEF AdaptiveWrites, LeaveStep, orchVars
  <1>7. ASSUME NEW d, d \in Drafts, Ordinary(d, Trace), Propose(d) PROVE OwnProposal'
    <2>1. d \in Record /\ recs' = Append(recs, d) /\ stage' = "call" /\ UNCHANGED episode
      BY <1>7, PublishedIsRecord DEF Propose, Write, driverVars
    <2>2. Len(recs') = Len(recs) + 1 /\ recs'[Len(recs) + 1] = d /\ Len(recs) \in Nat
      BY <1>1, <2>1, AppendProperties, LenProperties
    <2>3. recs' # << >> /\ recs'[Len(recs')] = d /\ Trace' = Trace
      BY <2>1, <2>2 DEF Trace
    <2> QED
      BY <1>7, <2>1, <2>3 DEF OwnProposal, Ordinary
  <1>8. ASSUME AnalystStep \/ ActuatorStep PROVE OwnProposal'
    <2>1. stage = "step"
      BY <1>8 DEF AnalystStep, ActuatorStep
    <2>2. PICK d \in Drafts : Propose(d) /\ Ordinary(d, Trace)
      BY <1>8, <2>1, WrittenIsDraft, DemoWritesOrdinary DEF AnalystStep, ActuatorStep
    <2> QED
      BY <1>7, <2>2
  <1>9. ASSUME SimulatorPredicts PROVE OwnProposal'
    <2>1. stage = "step" /\ FiringNow # {} /\ Propose(PredictionFrom(Rules[Min(FiringNow)], Trace))
      BY <1>9 DEF SimulatorPredicts
    <2>2. Min(FiringNow) \in DOMAIN Rules
      BY <2>1, FiringRule DEF DemoInv
    <2>3. PredictionFrom(Rules[Min(FiringNow)], Trace) \in Drafts
      BY <2>1, <2>2, WrittenIsDraft
    <2>4. Ordinary(PredictionFrom(Rules[Min(FiringNow)], Trace), Trace)
      BY <2>2, DemoWritesOrdinary
    <2> QED
      BY <1>7, <2>1, <2>3, <2>4
  <1>10. ASSUME NEW w \in DOMAIN OpOf, CallPipeline(w) PROVE OwnProposal'
    <2> DEFINE need == w = "actuator" /\ ~local.safe
               j == [NoJob EXCEPT !.op = OpOf[w], !.prop = Len(recs), !.trace = Trace, !.need = need]
    <2>1. /\ stage = "call" /\ stage' = "inside" /\ recs' = recs /\ UNCHANGED episode
          /\ job' = [job EXCEPT ![Main] = j]
      BY <1>10 DEF CallPipeline, Call, driverVars
    <2>2. Main \in Threads /\ DOMAIN job = Threads
      BY EpisodesAssumption DEF Inv, TypeOK
    <2>3. j.prop = Len(recs) /\ j.trace = Trace
      BY DEF NoJob
    <2> HIDE DEF j
    <2>4. job'[Main] = j /\ Trace' = Trace
      BY <2>1, <2>2 DEF Trace
    <2>5. recs # << >> /\ recs[Len(recs)].trace = Trace
      BY <2>1 DEF OwnProposal
    <2>6. Len(recs) \in DOMAIN recs
      BY <1>1, <2>5, LenProperties, EmptySeq
    <2> QED
      BY <2>1, <2>3, <2>4, <2>5, <2>6 DEF OwnProposal
  <1>11. ASSUME PipelineStep PROVE OwnProposal'
    <2>1. /\ stage = "inside" /\ stage' = "inside" /\ Step(Main) /\ ~At(Main, "return")
          /\ UNCHANGED episode /\ Main \in Threads
      BY <1>11, EpisodesAssumption DEF PipelineStep, orchVars, driverVars
    <2>2. job'[Main].prop = job[Main].prop /\ job'[Main].trace = job[Main].trace /\ Trace' = Trace
      BY <2>1, SameJob DEF KeepsToCall, Trace
    <2>3. \A i \in DOMAIN recs : i \in DOMAIN recs' /\ recs'[i].trace = recs[i].trace
      <3>1. /\ DOMAIN recs = 1..Len(recs) /\ DOMAIN recs' = 1..Len(recs') /\ Len(recs) \in Nat
            /\ Len(recs') \in Nat /\ Len(recs) <= Len(recs')
        BY <1>1, LenProperties DEF News
      <3> QED
        BY <1>1, <3>1 DEF News, Kept
    <2> QED
      BY <2>1, <2>2, <2>3 DEF OwnProposal
  <1> QED
    BY <1>3, <1>4, <1>5, <1>6, <1>8, <1>9, <1>10, <1>11, Zenon DEF DemoNext, Proceed

\* A lesson once learned keeps its causes, and a new one has those it was queued for.
LEMMA CausesKept ==
    ASSUME Inv, OneKernel, DemoInv, BoardInv, OwnProposal, LearnerInv, LessonsHaveCauses,
           [DemoNext]_demoVars, threshold' = threshold
    PROVE  LessonsHaveCauses'
  <1> DEFINE Origins(base, i) == {f \in RefusedFor(base) : f < i /\ recs[f].trace # recs[i].trace}
  <1>1. /\ News(recs, recs', Trace)
        /\ NoLesson(recs, recs') \/ \E base \in BaseReasons : AdaptiveWrites(base)
    BY DemoNews
  <1>2. PICK m \in Nat, n \in Nat :
            /\ m = Len(recs) /\ n = Len(recs') /\ m <= n
            /\ DOMAIN recs = 1..m /\ DOMAIN recs' = 1..n
    BY <1>1, LenProperties DEF News
  <1>3. threshold \in Nat
    BY DEF LearnerInv
  <1>4. ASSUME NEW base \in BaseReasons, NEW S \in SUBSET RefusedFor(base), NEW i,
               Cardinality(S) >= threshold,
               \A f \in S : f < i /\ recs'[f].trace # recs'[i].trace
        PROVE  Cardinality(Origins(base, i)') >= threshold
    <2>1. RefusedFor(base) \subseteq RefusedFor(base)'
      BY <1>1, RefusalsStay
    <2>2. S \subseteq Origins(base, i)' /\ Origins(base, i)' \subseteq 1..n
      BY <1>2, <1>4, <2>1 DEF RefusedFor
    <2>3. Cardinality(S) <= Cardinality(Origins(base, i)') /\ Cardinality(S) \in Nat
          /\ Cardinality(Origins(base, i)') \in Nat
      BY <1>2, <2>2, SubsetSmaller
    <2> HIDE DEF Origins
    <2> QED
      BY <1>3, <1>4, <2>3
  <1>5. ASSUME NEW base \in BaseReasons, NEW i \in Lessons(base)
        PROVE  Cardinality(Origins(base, i)') >= threshold
    <2> DEFINE S == Origins(base, i)
    <2>1. S \subseteq RefusedFor(base) /\ Cardinality(S) >= threshold /\ i \in 1..m
      BY <1>2 DEF LessonsHaveCauses, Lessons
    <2>2. \A f \in S : f < i /\ recs[f].trace # recs[i].trace
      OBVIOUS
    <2>3. \A f \in S : recs'[f] = recs[f]
      BY <1>1, <2>1, RefusalsStay
    <2>4. recs'[i].trace = recs[i].trace
      BY <1>1, <1>2, <2>1 DEF News, Kept
    <2> HIDE DEF S, Origins
    <2>5. \A f \in S : f < i /\ recs'[f].trace # recs'[i].trace
      BY <2>2, <2>3, <2>4
    <2> QED
      BY <1>4, <2>1, <2>5
  <1>6. ASSUME NEW base \in BaseReasons, AdaptiveWrites(base)
        PROVE  Cardinality(Origins(base, m + 1)') >= threshold
    <2>1. Causes(base) \subseteq RefusedFor(base) /\ Cardinality(Causes(base)) >= threshold
      BY <1>6 DEF Causes, LearnerInv, AdaptiveWrites
    <2>2. \A i \in 1..m : recs'[i] = recs[i] /\ i < m + 1
      BY <1>2, <1>6, AdaptiveAppends
    <2>3. recs'[m + 1].trace = Trace
      BY <1>2, <1>6, AdaptiveAppends
    <2>4. \A f \in Causes(base) : f \in 1..m /\ recs[f].trace # Trace
      BY <1>2 DEF Causes, RefusedFor
    <2>5. \A f \in Causes(base) : f < m + 1 /\ recs'[f].trace # recs'[m + 1].trace
      BY <2>2, <2>3, <2>4
    <2> HIDE DEF Origins
    <2> QED
      BY <1>4, <2>1, <2>5
  <1>7. ASSUME NEW base \in BaseReasons, NEW i \in Lessons(base)'
        PROVE  Cardinality(Origins(base, i)') >= threshold
    <2>1. CASE NoLesson(recs, recs')
      BY <1>1, <1>5, <2>1, <1>7, RefusalsStay, Zenon
    <2>2. ASSUME NEW other \in BaseReasons, AdaptiveWrites(other)
          PROVE  Cardinality(Origins(base, i)') >= threshold
      <3>1. /\ Lessons(other)' = Lessons(other) \cup {m + 1}
            /\ base # other => Lessons(base)' = Lessons(base)
        BY <1>2, <2>2, AdaptiveTeaches
      <3> HIDE DEF Origins
      <3>2. i \in Lessons(base) \/ (base = other /\ i = m + 1)
        BY <1>7, <3>1
      <3> QED
        BY <1>5, <1>6, <2>2, <3>2
    <2> QED
      BY <1>1, <2>1, <2>2
  <1>8. \A base \in BaseReasons, i \in DOMAIN recs' :
           recs'[i].kind = Lesson(base) => i \in Lessons(base)'
    BY DEF Lessons
  <1> QED
    BY <1>7, <1>8 DEF LessonsHaveCauses

-----------------------------------------------------------------------------
\* Then the learner, by what a step of the demo is to it.

\* No step of the learner, nor a fault, nor the beginning of an episode.
Elsewhere ==
    /\ UNCHANGED <<queued, emitted, threshold, lap, faults, episode>>
    /\ ~(stage = "step" /\ AtWork("adaptive"))
    /\ stage' = "step" /\ AtWork("adaptive")' => local'.written = {}

\* A store call that fails.
FailedCall ==
    /\ UNCHANGED <<queued, emitted, threshold, lap, episode>>
    /\ faults' = faults + 1
    /\ stage' # "step"

LEMMA DemoSteps ==
    ASSUME [DemoNext]_demoVars
    PROVE  \/ Elsewhere \/ UNCHANGED demoVars \/ FailedCall \/ Restart
           \/ \E n, r : BeginEpisode(n, r)
           \/ \E base \in BaseReasons : AdaptiveWrites(base)
  <1>1. ASSUME Proceed, \A base \in BaseReasons : ~AdaptiveWrites(base) PROVE Elsewhere
    BY <1>1, OthersProceed DEF Elsewhere
  <1>2. ASSUME WriteFails \/ PipelineFails PROVE FailedCall
    BY <1>2 DEF WriteFails, PipelineFails, Fault, StepFailed, workerVars, FailedCall
  <1> QED
    BY <1>1, <1>2, Zenon DEF DemoNext

LEMMA DriverSteps ==
    ASSUME [DemoNext]_demoVars
    PROVE  threshold' = threshold /\ episode' \in {episode, episode + 1}
  <1>1. CASE Elsewhere
    BY <1>1 DEF Elsewhere
  <1>2. CASE UNCHANGED demoVars
    BY <1>2 DEF demoVars, workerVars, driverVars
  <1>3. CASE FailedCall
    BY <1>3 DEF FailedCall
  <1>4. CASE Restart
    BY <1>4 DEF Restart, Fault
  <1>5. ASSUME NEW n, NEW r, BeginEpisode(n, r)
        PROVE  threshold' = threshold /\ episode' \in {episode, episode + 1}
    BY <1>5 DEF BeginEpisode
  <1>6. ASSUME NEW base \in BaseReasons, AdaptiveWrites(base)
        PROVE  threshold' = threshold /\ episode' \in {episode, episode + 1}
    BY <1>6 DEF AdaptiveWrites, driverVars
  <1> QED
    BY <1>1, <1>2, <1>3, <1>4, <1>5, <1>6, DemoSteps, Zenon

\* What is learned: the parts of the invariant that are the learner's.
Learning == LearnerInv /\ Remembered /\ LessonsCounted

\* Where the board gives no new cause and no new lesson, only the faults count.
LEMMA CountedStays ==
    ASSUME BoardInv, LessonsCounted, faults \in Nat, News(recs, recs', Trace),
           NoLesson(recs, recs'),
           faults' = faults + 1 \/ (faults' = faults /\ \A base \in BaseReasons : Spent(base) => Spent(base)')
    PROVE  LessonsCounted'
  <1>1. ASSUME NEW base \in BaseReasons
        PROVE  Cardinality(Lessons(base)') <= (IF Spent(base)' THEN faults' + 1 ELSE faults')
    <2>1. Lessons(base)' = Lessons(base)
      BY RefusalsStay
    <2>2. Cardinality(Lessons(base)) <= (IF Spent(base) THEN faults + 1 ELSE faults)
      BY DEF LessonsCounted
    <2>3. PICK n \in Nat : DOMAIN recs = 1..n
      BY LenProperties DEF News
    <2>4. Cardinality(Lessons(base)) \in Nat
      BY <2>3, SubsetSmaller DEF Lessons
    <2> DEFINE count == Cardinality(Lessons(base))
    <2>5. count \in Nat /\ Cardinality(Lessons(base)') = count
          /\ count <= (IF Spent(base) THEN faults + 1 ELSE faults)
      BY <2>1, <2>2, <2>4
    <2> HIDE DEF count
    <2>6. CASE faults' = faults + 1
      BY <2>5, <2>6
    <2>7. CASE faults' = faults /\ (Spent(base) => Spent(base)')
      BY <2>5, <2>7
    <2> QED
      BY <2>6, <2>7
  <1> QED
    BY <1>1 DEF LessonsCounted

LEMMA RememberedStays ==
    ASSUME BoardInv, Remembered, News(recs, recs', Trace), episode' = episode,
           UNCHANGED <<queued, threshold, lap>>
    PROVE  Remembered'
  <1>1. \A base \in BaseReasons :
            Causes(base)' = Causes(base) /\ Lessons(base) \subseteq Lessons(base)'
    BY CausesStay, RefusalsStay
  <1> QED
    BY <1>1 DEF Remembered

\* What is emitted stays on the board, and what is queued keeps its causes.
LEMMA LearnerStays ==
    ASSUME BoardInv, LearnerInv, News(recs, recs', Trace), episode' = episode,
           UNCHANGED <<threshold, lap>>, faults' \in {faults, faults + 1},
           queued' \subseteq queued, emitted' \subseteq emitted,
           stage' = "step" /\ AtWork("adaptive")' => local'.written \subseteq emitted'
    PROVE  LearnerInv'
  <1>1. \A base \in BaseReasons :
            Causes(base)' = Causes(base) /\ Lessons(base) \subseteq Lessons(base)'
    BY CausesStay, RefusalsStay
  <1>2. faults' \in Nat
    BY DEF LearnerInv
  <1> QED
    BY <1>1, <1>2 DEF LearnerInv

LEMMA ElsewhereKept ==
    ASSUME Inv, OneKernel, DemoInv, BoardInv, OwnProposal, Learning, [DemoNext]_demoVars,
           \A base \in BaseReasons : ~AdaptiveWrites(base),
           Elsewhere \/ FailedCall
    PROVE  Learning'
  <1>1. News(recs, recs', Trace) /\ NoLesson(recs, recs')
    BY DemoNews
  <1>2. UNCHANGED <<queued, emitted, threshold, lap>> /\ episode' = episode
    BY DEF Elsewhere, FailedCall
  <1>3. faults \in Nat /\ faults' \in {faults, faults + 1}
    BY DEF Learning, LearnerInv, Elsewhere, FailedCall
  <1>4. stage' = "step" /\ AtWork("adaptive")' => local'.written \subseteq emitted'
    BY DEF Elsewhere, FailedCall
  <1>5. faults' = faults + 1
        \/ (faults' = faults /\ \A base \in BaseReasons : Spent(base) => Spent(base)')
    BY DEF Elsewhere, FailedCall, Spent
  <1>6. LearnerInv'
    BY <1>1, <1>2, <1>3, <1>4, LearnerStays DEF Learning
  <1>7. Remembered'
    BY <1>1, <1>2, RememberedStays DEF Learning
  <1>8. LessonsCounted'
    BY <1>1, <1>3, <1>5, CountedStays DEF Learning
  <1> QED
    BY <1>6, <1>7, <1>8 DEF Learning

\* A restart loses the queue, and is a fault that pays for learning it again.
LEMMA RestartKept ==
    ASSUME Inv, OneKernel, DemoInv, BoardInv, OwnProposal, Learning, Restart
    PROVE  Learning'
  <1>1. recs' = recs
    BY DEF Restart, KernelDies, Crash, vars
  <1>2. News(recs, recs', Trace) /\ NoLesson(recs, recs')
    BY <1>1, SameNews DEF Inv, TypeOK
  <1>3. /\ faults \in Nat /\ faults' = faults + 1 /\ stage' = "between"
        /\ queued' = {} /\ emitted' = {} /\ lap' = 0 /\ threshold' = threshold
    BY DEF Restart, Fault, Learning, LearnerInv
  <1>4. LearnerInv'
    BY <1>3 DEF LearnerInv, Learning
  <1>5. Remembered'
    BY <1>3 DEF Remembered
  <1>6. LessonsCounted'
    BY <1>2, <1>3, CountedStays DEF Learning
  <1> QED
    BY <1>4, <1>5, <1>6 DEF Learning

\* When an episode begins all refusals on the board are of the episodes before it,
\* and they are the failures the learner scans.
LEMMA FailuresAreCauses ==
    ASSUME BoardInv, episode \in Nat, episode' = episode + 1, episode' \in DOMAIN TraceIds,
           recs' = recs, NEW base \in BaseReasons
    PROVE  Causes(base)' = Failures(recs, base) /\ Causes(base) \subseteq Causes(base)'
  <1>1. DOMAIN TraceIds = 1..Len(TraceIds)
    BY EpisodesAssumption
  <1>2. \A n \in 1..episode : n \in DOMAIN TraceIds /\ n # episode'
    BY <1>1
  <1>3. \A n \in 1..episode : TraceIds[n] # TraceIds[episode']
    BY <1>2, EpisodesAssumption
  <1>4. \A f \in DOMAIN recs : recs[f].trace # Trace'
    BY <1>3 DEF BoardInv, Trace
  <1>5. RefusedFor(base)' = RefusedFor(base) /\ RefusedFor(base) = Failures(recs, base)
    BY DEF RefusedFor, Failures, BoardInv
  <1>6. Causes(base)' = RefusedFor(base)
    BY <1>4, <1>5 DEF Causes, RefusedFor
  <1> QED
    BY <1>5, <1>6 DEF Causes

LEMMA BeginKept ==
    ASSUME Inv, OneKernel, DemoInv, BoardInv, OwnProposal, Learning, DemoInv',
           NEW n, NEW r, BeginEpisode(n, r)
    PROVE  Learning'
  <1>1. /\ recs' = recs /\ stage = "between" /\ stage' = "look" /\ episode' = episode + 1
        /\ lap' = lap + 1 /\ UNCHANGED <<emitted, threshold, faults>>
        /\ queued' = IF lap > 0 THEN queued \cup Learned(recs, threshold, emitted) ELSE queued
    BY DEF BeginEpisode, StartRun, vars
  <1>2. News(recs, recs', Trace) /\ NoLesson(recs, recs')
    BY <1>1, SameNews DEF Inv, TypeOK
  <1>3. PICK m \in Nat : DOMAIN recs = 1..m
    BY LenProperties DEF Inv, TypeOK
  <1>4. threshold \in Nat /\ lap \in Nat /\ faults \in Nat /\ queued \subseteq BaseReasons
    BY DEF Learning, LearnerInv
  <1>5. ASSUME NEW base \in BaseReasons
        PROVE  /\ Causes(base)' = Failures(recs, base) /\ Causes(base) \subseteq Causes(base)'
               /\ Cardinality(Causes(base)) \in Nat /\ Cardinality(Causes(base)') \in Nat
               /\ Cardinality(Causes(base)) <= Cardinality(Causes(base)')
    <2>1. episode \in Nat /\ episode' \in DOMAIN TraceIds
      <3>1. Len(TraceIds) \in Nat
        BY EpisodesAssumption
      <3> QED
        BY <1>1, <3>1 DEF DemoInv
    <2>2. Causes(base)' = Failures(recs, base) /\ Causes(base) \subseteq Causes(base)'
      BY <1>1, <2>1, FailuresAreCauses
    <2>3. Causes(base)' \subseteq 1..m
      BY <1>3, <2>2 DEF Failures
    <2> QED
      BY <1>3, <2>2, <2>3, SubsetSmaller
  <1>6. \A base \in BaseReasons : Lessons(base)' = Lessons(base)
    BY <1>1 DEF Lessons
  <1>7. ASSUME NEW base \in Patterns(recs, threshold)
        PROVE  base \in BaseReasons /\ Cardinality(Causes(base)') >= threshold
    BY <1>5, <1>7 DEF Patterns
  <1>8. LearnerInv'
    <2>1. queued' \subseteq queued \cup Patterns(recs, threshold)
      BY <1>1 DEF Learned
    <2>2. ASSUME NEW base \in queued
          PROVE  base \in BaseReasons /\ Cardinality(Causes(base)') >= threshold
      <3>1. base \in BaseReasons /\ Cardinality(Causes(base)) >= threshold
        BY <1>4, <2>2 DEF Learning, LearnerInv
      <3>2. PICK old \in Nat, new \in Nat :
                old = Cardinality(Causes(base)) /\ new = Cardinality(Causes(base)') /\ old <= new
        BY <1>5, <3>1
      <3>3. new >= threshold
        BY <1>4, <3>1, <3>2
      <3> QED
        BY <3>1, <3>2, <3>3
    <2>3. \A base \in queued' : base \in BaseReasons /\ Cardinality(Causes(base)') >= threshold
      BY <1>7, <2>1, <2>2
    <2>4. lap' \in Nat /\ emitted' \subseteq BaseReasons /\ \A base \in emitted' : Lessons(base)' # {}
      BY <1>1, <1>4, <1>6 DEF Learning, LearnerInv
    <2> QED
      BY <1>1, <1>4, <2>3, <2>4 DEF LearnerInv
  <1>9. Remembered'
    <2>1. ASSUME NEW base \in BaseReasons, lap' > 1,
                 Causes(base)' # {}, Cardinality(Causes(base)') >= threshold
          PROVE  base \in queued' \/ Lessons(base)' # {}
      <3>1. lap > 0 /\ base \in Patterns(recs, threshold)
        BY <1>1, <1>4, <1>5, <2>1 DEF Patterns
      <3>2. base \in queued' \/ base \in emitted
        BY <1>1, <3>1 DEF Learned
      <3> QED
        BY <1>6, <3>2 DEF Learning, LearnerInv
    <2> QED
      BY <1>1, <2>1 DEF Remembered
  <1>10. LessonsCounted'
    <2>1. \A base \in BaseReasons : Spent(base) => Spent(base)'
      BY <1>1 DEF Spent, Learned
    <2> QED
      BY <1>1, <1>2, <1>4, <2>1, CountedStays DEF Learning
  <1> QED
    BY <1>8, <1>9, <1>10 DEF Learning

\* The learner's step writes a lesson it did not have to spare, and keeps the rest
\* of its queue.
LEMMA TeachKept ==
    ASSUME Inv, OneKernel, DemoInv, BoardInv, OwnProposal, Learning, [DemoNext]_demoVars,
           NEW base \in BaseReasons, AdaptiveWrites(base)
    PROVE  Learning'
  <1>1. /\ stage = "step" /\ AtWork("adaptive") /\ base \in queued /\ base \notin local.written
        /\ emitted' = emitted \cup {base}
        /\ UNCHANGED <<threshold, faults, lap>> /\ episode' = episode
    BY DEF AdaptiveWrites, driverVars
  <1>2. \/ /\ queued = local.written \cup {base} /\ queued' = {} /\ stage' = "look"
        \/ /\ queued' = queued /\ local'.written = local.written \cup {base}
           /\ stage' = "step" /\ AtWork("adaptive")'
    <2>1. local \in Locals
      BY DEF DemoInv
    <2> QED
      BY <1>1, <2>1 DEF AdaptiveWrites, LeaveStep, orchVars, Locals, AtWork
  <1>3. News(recs, recs', Trace)
    BY DemoNews
  <1>4. PICK m \in Nat : m = Len(recs) /\ DOMAIN recs = 1..m
    BY AdaptiveAppends
  <1>5. /\ Lessons(base)' = Lessons(base) \cup {m + 1}
        /\ \A other \in BaseReasons \ {base} : Lessons(other)' = Lessons(other)
    BY <1>4, AdaptiveTeaches
  <1>6. local.written \subseteq emitted /\ queued \subseteq BaseReasons /\ emitted \subseteq BaseReasons
        /\ faults \in Nat /\ \A other \in emitted : Lessons(other) # {}
    BY <1>1 DEF Learning, LearnerInv
  <1>7. \A other \in emitted' : other \in BaseReasons /\ Lessons(other)' # {}
    BY <1>1, <1>5, <1>6
  <1>8. \A other \in BaseReasons : Causes(other)' = Causes(other)
    BY <1>1, <1>3, CausesStay
  <1>9. LearnerInv'
    <2>1. queued' \subseteq queued
          /\ (stage' = "step" /\ AtWork("adaptive")' => local'.written \subseteq emitted')
      BY <1>1, <1>2, <1>6
    <2>2. \A other \in queued' : Cardinality(Causes(other)') >= threshold
      BY <1>6, <1>8, <2>1 DEF Learning, LearnerInv
    <2>3. threshold \in Nat /\ lap \in Nat
      BY DEF Learning, LearnerInv
    <2> QED
      BY <1>1, <1>6, <1>7, <2>1, <2>2, <2>3 DEF LearnerInv
  <1>10. Remembered'
    <2>1. \A other \in queued : other \in queued' \/ other \in emitted'
      BY <1>1, <1>2, <1>6
    <2>2. ASSUME NEW other \in BaseReasons, lap > 1,
                 Causes(other) # {}, Cardinality(Causes(other)) >= threshold
          PROVE  other \in queued' \/ Lessons(other)' # {}
      <3>1. other \in queued \/ Lessons(other) # {}
        BY <2>2 DEF Learning, Remembered
      <3>2. Lessons(other) \subseteq Lessons(other)'
        BY <1>5
      <3> QED
        BY <1>7, <2>1, <3>1, <3>2
    <2> QED
      BY <1>1, <1>8, <2>2 DEF Remembered
  <1>11. LessonsCounted'
    <2>1. ASSUME NEW other \in BaseReasons
          PROVE  Cardinality(Lessons(other)) <= (IF Spent(other) THEN faults + 1 ELSE faults)
      BY DEF Learning, LessonsCounted
    <2>2. ~Spent(base) /\ Spent(base)'
      BY <1>1, <1>2 DEF Spent
    <2>3. \A other \in BaseReasons : Spent(other) => Spent(other)'
      BY <1>1, <1>2 DEF Spent
    <2>4. Lessons(base) \subseteq 1..m /\ m + 1 \notin 1..m
      BY <1>4 DEF Lessons
    <2>5. IsFiniteSet(Lessons(base)) /\ m + 1 \notin Lessons(base)
      <3>1. IsFiniteSet(Lessons(base))
        BY <2>4, SubsetSmaller
      <3> QED
        BY <2>4, <3>1
    <2>6. Cardinality(Lessons(base)') = Cardinality(Lessons(base)) + 1
      BY <1>5, <2>5, FS_AddElement
    <2>7. Cardinality(Lessons(base)') <= faults' + 1
      <3>1. Cardinality(Lessons(base)) \in Nat
        BY <2>4, SubsetSmaller
      <3> QED
        BY <1>1, <1>6, <2>1, <2>2, <2>6, <3>1
    <2>8. ASSUME NEW other \in BaseReasons \ {base}
          PROVE  Cardinality(Lessons(other)') <= (IF Spent(other)' THEN faults' + 1 ELSE faults')
      <3>1. Lessons(other)' = Lessons(other) /\ faults' = faults
        BY <1>1, <1>5
      <3>2. PICK count \in Nat : count = Cardinality(Lessons(other))
        BY <1>4, SubsetSmaller DEF Lessons
      <3>3. count <= (IF Spent(other) THEN faults + 1 ELSE faults)
        BY <2>1, <3>2
      <3>4. Spent(other) => Spent(other)'
        BY <2>3
      <3>5. count <= (IF Spent(other)' THEN faults + 1 ELSE faults)
        BY <1>6, <3>3, <3>4
      <3> QED
        BY <3>1, <3>2, <3>5
    <2> QED
      BY <2>2, <2>7, <2>8 DEF LessonsCounted
  <1> QED
    BY <1>9, <1>10, <1>11 DEF Learning

-----------------------------------------------------------------------------
LEMMA LessonsInit == DemoInit => LessonsInv
  <1>1. ASSUME DemoInit PROVE LessonsInv
    <2>1. /\ recs = << >> /\ stage = "between" /\ queued = {} /\ emitted = {} /\ lap = 0 /\ faults = 0
          /\ threshold \in Nat
      BY <1>1, EpisodesAssumption DEF DemoInit, Init
    <2>2. \A base \in BaseReasons : Lessons(base) = {}
      BY <2>1 DEF Lessons
    <2>3. Cardinality({}) = 0
      BY FS_EmptySet
    <2>4. LearnerInv
      BY <2>1 DEF LearnerInv
    <2>5. Remembered
      BY <2>1 DEF Remembered
    <2>6. LessonsCounted
      BY <2>1, <2>2, <2>3 DEF LessonsCounted
    <2> QED
      BY <2>1, <2>4, <2>5, <2>6 DEF LessonsInv, BoardInv, OwnProposal, LessonsHaveCauses
  <1> QED
    BY <1>1

LEMMA LessonsNext ==
    ASSUME OneKernel, Inv, DemoInv, DemoInv', LessonsInv, [DemoNext]_demoVars
    PROVE  LessonsInv'
  <1>1. BoardInv /\ OwnProposal /\ LearnerInv /\ LessonsHaveCauses /\ Learning
    BY DEF LessonsInv, Learning
  <1>2. BoardInv'
    BY <1>1, DriverSteps, BoardKept
  <1>3. OwnProposal'
    BY <1>1, ProposalKept
  <1>4. LessonsHaveCauses'
    BY <1>1, DriverSteps, CausesKept
  <1>5. Learning'
    <2>1. ASSUME NEW base \in BaseReasons, AdaptiveWrites(base) PROVE Learning'
      BY <1>1, <2>1, TeachKept
    <2>2. CASE UNCHANGED demoVars
      BY <1>1, <2>2 DEF Learning, LearnerInv, Remembered, LessonsCounted, Lessons, Causes, Spent,
         RefusedFor, AtWork, Trace, demoVars, vars, orchVars, workerVars, driverVars
    <2>3. ASSUME NEW n, NEW r, BeginEpisode(n, r) PROVE Learning'
      BY <1>1, <2>3, BeginKept
    <2>4. CASE Restart
      BY <1>1, <2>4, RestartKept
    <2>5. ASSUME Elsewhere \/ FailedCall, \A base \in BaseReasons : ~AdaptiveWrites(base)
          PROVE  Learning'
      BY <1>1, <2>5, ElsewhereKept
    <2> QED
      BY <2>1, <2>2, <2>3, <2>4, <2>5, DemoSteps, Zenon
  <1> QED
    BY <1>2, <1>3, <1>4, <1>5 DEF LessonsInv, Learning

LEMMA LessonsInvariant ==
    ASSUME OneKernel
    PROVE  DemoSpec => [](DemoInv /\ LessonsInv)
  <1>1. DemoInit => DemoInv /\ Inv /\ LessonsInv
    BY DemoInitInv, InitInv, LessonsInit
  <1>2. DemoInv /\ Inv /\ LessonsInv /\ [DemoNext]_demoVars => DemoInv' /\ Inv' /\ LessonsInv'
    BY DemoIsKernelStep, DemoKeepsInv, NextInv, LessonsNext
  <1> QED
    BY <1>1, <1>2, PTL DEF DemoSpec

\* Whatever failed and however often the process was restarted, a constraint on the
\* board has as many earlier refusals of its kind, of other episodes, as the
\* threshold asks for (analyze).
THEOREM DemoLessonsHaveCauses ==
    ASSUME OneKernel
    PROVE  DemoSpec => []LessonsHaveCauses
  <1>1. LessonsInv => LessonsHaveCauses
    BY DEF LessonsInv
  <1> QED
    BY <1>1, LessonsInvariant, PTL

\* What analyze found is queued or on the board between the episodes, also after a
\* step of the learner that raised halfway through its queue.
THEOREM DemoNothingForgotten ==
    ASSUME OneKernel
    PROVE  DemoSpec => []NothingForgotten
  <1>1. LessonsInv => NothingForgotten
    BY DEF LessonsInv, Remembered, NothingForgotten, Lessons, Causes
  <1> QED
    BY <1>1, LessonsInvariant, PTL

\* A process writes a constraint once, and once more for every fault: a failed write
\* that leaves the queue, or a restart that loses the set of what was emitted.
THEOREM DemoLessonsNotRepeated ==
    ASSUME OneKernel
    PROVE  DemoSpec => []LessonsNotRepeated
  <1>1. ASSUME Inv, LessonsInv PROVE LessonsNotRepeated
    <2>1. ASSUME NEW base \in BaseReasons PROVE Cardinality(Lessons(base)) <= 1 + faults
      <3>1. PICK n \in Nat : DOMAIN recs = 1..n
        BY <1>1, LenProperties DEF Inv, TypeOK
      <3>2. PICK count \in Nat : count = Cardinality(Lessons(base))
        BY <3>1, SubsetSmaller DEF Lessons
      <3>3. faults \in Nat /\ count <= (IF Spent(base) THEN faults + 1 ELSE faults)
        BY <1>1, <3>2 DEF LessonsInv, LearnerInv, LessonsCounted
      <3>4. count <= 1 + faults
        BY <3>2, <3>3
      <3> QED
        BY <3>2, <3>4
    <2> QED
      BY <2>1 DEF LessonsNotRepeated, Lessons
  <1>2. DemoSpec => []Inv
    <2>1. DemoInit => DemoInv /\ Inv
      BY DemoInitInv, InitInv
    <2>2. DemoInv /\ Inv /\ [DemoNext]_demoVars => DemoInv' /\ Inv'
      BY DemoIsKernelStep, DemoKeepsInv, NextInv
    <2> QED
      BY <2>1, <2>2, PTL DEF DemoSpec
  <1> QED
    BY <1>1, <1>2, LessonsInvariant, PTL

-----------------------------------------------------------------------------
\* The grounds of an alert.  Each record of the demo has its own in the episode; they
\* are stated of the board alone, and point to records before it, so they stay.

\* One reading an episode, with a confidence.
PerceptSound(rs, i) == rs[i].slot = "percepts" =>
    /\ rs[i].mode = "COMMIT" /\ rs[i].kind = temperature
    /\ ~rs[i].ttl /\ rs[i].conf \in 0..MaxConf
    /\ \A k \in 1..(i - 1) : rs[k].slot = "percepts" /\ rs[k].trace = rs[i].trace =>
         rs[k].body = rs[i].body /\ rs[k].conf = rs[i].conf

\* A belief is the analyst's, and all that was observed when it was committed had
\* been when its proposal was fetched.
BeliefSound(rs, i) == rs[i].slot = "beliefs" =>
    /\ rs[i].kind = anomaly_detected /\ rs[i].body.depends_on = <<temperature>>
    /\ rs[i].mode = "COMMIT" =>
         /\ rs[i].role = "kernel"
         /\ \A k \in 1..(i - 1) : rs[k].slot = "percepts" => k <= rs[i].since

\* What rule n asks for, of those about alerts, was on the board before record i.
Grounded(rs, i, n) ==
    /\ \E b \in 1..(i - 1) : /\ rs[b].slot = "beliefs" /\ rs[b].mode = "COMMIT"
                             /\ rs[b].trace = rs[i].trace
    /\ \E p \in 1..(i - 1) : /\ rs[p].slot = "percepts" /\ rs[p].trace = rs[i].trace
                             /\ MeetsConditions(rs[p].body, Rules[n].percept_conditions[temperature])

PredictionSound(rs, i) == rs[i].slot = "predictions" =>
    \E n \in DOMAIN Rules :
        /\ rs[i].kind = PredKind(Rules[n].action_type)
        /\ rs[i].body.action_type = Rules[n].action_type
        /\ rs[i].body.expected_outcome = Rules[n].expected_outcome
        /\ Rules[n].action_type = alert => Grounded(rs, i, n)

AlertSound(rs, i) == rs[i].slot = "actions" /\ rs[i].kind = alert =>
    /\ rs[i].body.type = alert
    /\ rs[i].mode = "COMMIT" => Foretold(rs, i - 1, rs[i], rs[i])

\* Only a constraint is seen outside its episode.
ScopeSound(rs, i) == rs[i].slot # "constraints" => rs[i].scope = "episode"

Sound(rs, i) ==
    /\ PerceptSound(rs, i) /\ BeliefSound(rs, i) /\ PredictionSound(rs, i)
    /\ AlertSound(rs, i) /\ ScopeSound(rs, i)

\* The percepts of the episode are its reading; what a worker is shown is of the episode.
EpisodeSound ==
    stage # "between" =>
        /\ \A i \in DOMAIN recs : recs[i].slot = "percepts" /\ recs[i].trace = Trace =>
             recs[i].body = Percept(reading, Trace).body /\ recs[i].conf = reading.conf
        /\ \A i \in view : i \in DOMAIN recs /\ (recs[i].slot # "constraints" => recs[i].trace = Trace)

IsAlert(i) == recs[i].slot = "actions" /\ recs[i].kind = alert

\* An alert is taken to its pipeline with the demand for a prediction, and nobody
\* else writes while a pipeline judges.
CallSound ==
    /\ stage = "call" /\ IsAlert(Len(recs)) => AtWork("actuator") /\ ~local.safe
    /\ stage = "inside" =>
         /\ IsAlert(job[Main].prop) => job[Main].need
         /\ pc[Main] \in Pending => job[Main].since = Len(recs)

GroundsInv ==
    /\ \A i \in DOMAIN recs : Sound(recs, i)
    /\ EpisodeSound
    /\ CallSound

\* What a record rests on stays what it is.
LEMMA SoundStays ==
    ASSUME NEW rs, NEW new, NEW i \in Nat, i >= 1, \A k \in 1..i : Kept(rs[k], new[k]), Sound(rs, i)
    PROVE  Sound(new, i)
  <1>0. /\ i \in 1..i /\ Kept(rs[i], new[i])
        /\ \A k \in 1..(i - 1) : Kept(rs[k], new[k])
    OBVIOUS
  <1>1. PerceptSound(new, i)
    BY <1>0 DEF Sound, PerceptSound, Kept
  <1>2. BeliefSound(new, i)
    BY <1>0 DEF Sound, BeliefSound, Kept
  <1>3. ASSUME NEW n, Grounded(rs, i, n) PROVE Grounded(new, i, n)
    BY <1>0, <1>3 DEF Grounded, Kept
  <1>4. PredictionSound(new, i)
    BY <1>0, <1>3 DEF Sound, PredictionSound, Kept
  <1>5. Foretold(rs, i - 1, rs[i], rs[i]) => Foretold(new, i - 1, new[i], new[i])
    BY <1>0 DEF Foretold, ActionType, Kept
  <1>6. AlertSound(new, i)
    BY <1>0, <1>5 DEF Sound, AlertSound, Kept
  <1>7. ScopeSound(new, i)
    BY <1>0 DEF Sound, ScopeSound, Kept
  <1> QED
    BY <1>1, <1>2, <1>4, <1>6, <1>7 DEF Sound

LEMMA SoundKept ==
    ASSUME NEW rs, NEW new, NEW trace, News(rs, new, trace), \A i \in DOMAIN rs : Sound(rs, i),
           \A i \in (Len(rs) + 1)..Len(new) : Sound(new, i)
    PROVE  \A i \in DOMAIN new : Sound(new, i)
  <1>1. PICK m \in Nat, n \in Nat :
            /\ m = Len(rs) /\ n = Len(new) /\ m <= n
            /\ DOMAIN rs = 1..m /\ DOMAIN new = 1..n
    BY LenProperties DEF News
  <1>2. ASSUME NEW i \in 1..m PROVE Sound(new, i)
    <2>1. i \in Nat /\ i >= 1 /\ \A k \in 1..i : k \in 1..m
      OBVIOUS
    <2>2. \A k \in 1..i : Kept(rs[k], new[k])
      BY <1>1, <2>1 DEF News
    <2> QED
      BY <1>1, <2>1, <2>2, SoundStays
  <1>3. \A i \in 1..n : i \in 1..m \/ i \in (m + 1)..n
    BY <1>1
  <1> QED
    BY <1>1, <1>2, <1>3

\* The records of the workers, but for the percept and the predictions.
LEMMA WorkersSound ==
    ASSUME NEW rs, NEW i, NEW trace,
           \/ rs[i] \in {Suspicion(trace), Alert(trace), Review(trace)}
           \/ \E base \in BaseReasons : rs[i] = LessonRecord(base, trace)
    PROVE  Sound(rs, i)
  <1>1. CASE rs[i] = Suspicion(trace)
    BY <1>1 DEF Suspicion, Proposal, Sound, PerceptSound, BeliefSound, PredictionSound, AlertSound,
                ScopeSound
  <1>2. CASE rs[i] = Alert(trace)
    BY <1>2 DEF Alert, Proposal, Sound, PerceptSound, BeliefSound, PredictionSound, AlertSound,
                ScopeSound
  <1>3. CASE rs[i] = Review(trace)
    BY <1>3, GroundsAssumption DEF Review, Proposal, Sound, PerceptSound, BeliefSound,
       PredictionSound, AlertSound, ScopeSound
  <1>4. ASSUME NEW base \in BaseReasons, rs[i] = LessonRecord(base, trace) PROVE Sound(rs, i)
    BY <1>4 DEF LessonRecord, Sound, PerceptSound, BeliefSound, PredictionSound, AlertSound,
                ScopeSound
  <1> QED
    BY <1>1, <1>2, <1>3, <1>4

\* The percept is the reading of its episode, as every one before it.
LEMMA PerceptIsSound ==
    ASSUME NEW m \in Nat, DOMAIN recs = 1..m, \A k \in 1..m : recs'[k] = recs[k],
           recs'[m + 1] = Percept(reading, Trace), DemoInv, EpisodeSound, stage # "between"
    PROVE  Sound(recs', m + 1)
  <1> DEFINE d == Percept(reading, Trace)
  <1>1. reading.conf \in 0..MaxConf
    <2>1. episode \in DOMAIN Readings /\ reading \in Readings[episode]
      BY EpisodesAssumption DEF DemoInv
    <2> QED
      BY <2>1, GroundsAssumption
  <1>2. /\ d.slot = "percepts" /\ d.mode = "COMMIT" /\ d.kind = temperature /\ d.ttl = FALSE
        /\ d.conf = reading.conf /\ d.trace = Trace /\ d.scope = "episode"
    BY DEF Percept, Proposal
  <1>3. \A k \in 1..m : recs[k].slot = "percepts" /\ recs[k].trace = Trace =>
            recs[k].body = d.body /\ recs[k].conf = d.conf
    BY <1>2 DEF EpisodeSound
  <1> HIDE DEF d
  <1>4. recs'[m + 1] = d /\ \A k \in 1..((m + 1) - 1) : k \in 1..m
    BY DEF d
  <1>5. PerceptSound(recs', m + 1)
    BY <1>1, <1>2, <1>3, <1>4 DEF PerceptSound
  <1> QED
    BY <1>2, <1>4, <1>5 DEF Sound, BeliefSound, PredictionSound, AlertSound, ScopeSound

\* What a view holds of a slot is one of its committed records.
LEMMA HeldIsListed ==
    ASSUME NEW rs, NEW v, NEW m \in Nat, v \subseteq 1..m, NEW slot, NEW kind,
           Held(rs, v, slot, kind) # NoId
    PROVE  Held(rs, v, slot, kind) \in Committed(rs, v, slot)
  <1> DEFINE writers == {i \in Committed(rs, v, slot) : rs[i].kind = kind}
  <1>1. writers # {} /\ Held(rs, v, slot, kind) = Max(writers)
    BY Zenon DEF Held
  <1>2. writers \in SUBSET (1..m)
    BY DEF Committed
  <1>3. writers \subseteq Committed(rs, v, slot)
    OBVIOUS
  <1> HIDE DEF writers
  <1>4. Max(writers) \in writers
    BY <1>1, <1>2, MaxIsMember
  <1> QED
    BY <1>1, <1>3, <1>4

\* A rule about alerts fires on a belief and a percept the worker was shown.
LEMMA FiringIsGrounded ==
    ASSUME NEW m \in Nat, DOMAIN recs = 1..m, \A k \in 1..m : recs'[k] = recs[k],
           NEW n \in FiringNow, n \in DOMAIN Rules, Rules[n].action_type = alert,
           recs'[m + 1].trace = Trace, EpisodeSound, stage # "between"
    PROVE  Grounded(recs', m + 1, n)
  <1>1. RuleMatches(recs, view, Rules[n])
    BY DEF FiringNow, Firing
  <1>2. /\ view \subseteq 1..m
        /\ \A i \in view : recs[i].slot # "constraints" => recs[i].trace = Trace
    BY DEF EpisodeSound
  <1>3. /\ \E i \in DOMAIN Rules[n].requires_beliefs : Rules[n].requires_beliefs[i] = anomaly_detected
        /\ temperature \in DOMAIN Rules[n].percept_conditions
    BY GroundsAssumption
  <1>4. Held(recs, view, "beliefs", anomaly_detected) # NoId
    BY <1>1, <1>3 DEF RuleMatches
  <1>5. /\ Held(recs, view, "percepts", temperature) # NoId
        /\ MeetsConditions(recs[Held(recs, view, "percepts", temperature)].body,
                           Rules[n].percept_conditions[temperature])
    BY <1>1, <1>3 DEF RuleMatches, SlotMeets
  <1>6. PICK b : b \in Committed(recs, view, "beliefs")
    BY <1>2, <1>4, HeldIsListed
  <1>7. PICK p : p = Held(recs, view, "percepts", temperature) /\ p \in Committed(recs, view, "percepts")
    BY <1>2, <1>5, HeldIsListed
  <1>8. MeetsConditions(recs[p].body, Rules[n].percept_conditions[temperature])
    BY <1>5, <1>7
  <1>9. /\ b \in view /\ recs[b].slot = "beliefs" /\ recs[b].mode = "COMMIT"
        /\ p \in view /\ recs[p].slot = "percepts"
    BY <1>6, <1>7 DEF Committed
  <1>10. b \in 1..m /\ p \in 1..m /\ recs[b].trace = Trace /\ recs[p].trace = Trace
    BY <1>2, <1>9
  <1>11. b \in 1..((m + 1) - 1) /\ p \in 1..((m + 1) - 1) /\ recs'[b] = recs[b] /\ recs'[p] = recs[p]
    BY <1>10
  <1> QED
    BY <1>8, <1>9, <1>10, <1>11 DEF Grounded

LEMMA PredictionIsSound ==
    ASSUME NEW m \in Nat, DOMAIN recs = 1..m, \A k \in 1..m : recs'[k] = recs[k],
           NEW n \in FiringNow, n \in DOMAIN Rules, recs'[m + 1] = PredictionFrom(Rules[n], Trace),
           EpisodeSound, stage # "between"
    PROVE  Sound(recs', m + 1)
  <1> DEFINE d == PredictionFrom(Rules[n], Trace)
  <1>1. /\ d.slot = "predictions" /\ d.mode = "PROPOSE" /\ d.trace = Trace /\ d.scope = "episode"
        /\ d.kind = PredKind(Rules[n].action_type)
        /\ d.body.action_type = Rules[n].action_type
        /\ d.body.expected_outcome = Rules[n].expected_outcome
    BY DEF PredictionFrom
  <1> HIDE DEF d
  <1>2. recs'[m + 1] = d
    BY DEF d
  <1>3. Rules[n].action_type = alert => Grounded(recs', m + 1, n)
    BY <1>1, <1>2, FiringIsGrounded
  <1>4. PredictionSound(recs', m + 1)
    BY <1>1, <1>2, <1>3 DEF PredictionSound
  <1> QED
    BY <1>1, <1>2, <1>4 DEF Sound, PerceptSound, BeliefSound, AlertSound, ScopeSound

\* A commit has the grounds of its proposal, and those its call found.
LEMMA CopyIsSound ==
    ASSUME NEW rs, NEW new, NEW n \in Nat, NEW i \in Nat, n < i, NEW p \in 1..n, NEW j,
           \A k \in 1..n : Kept(rs[k], new[k]),
           \A k \in (n + 1)..(i - 1) : new[k].slot = "evidence",
           Sound(rs, p), rs[p].slot # "percepts", rs[p].trace = j.trace,
           new[i].role = "kernel", new[i].slot = rs[p].slot, new[i].kind = rs[p].kind,
           new[i].body = rs[p].body, new[i].trace = j.trace, new[i].scope = "episode",
           rs[p].slot = "beliefs" => new[i].since = n,
           rs[p].slot = "actions" /\ rs[p].kind = alert => Foretold(rs, n, j, rs[p])
    PROVE  Sound(new, i)
  <1>1. \A k \in 1..(i - 1) : k \in 1..n \/ k \in (n + 1)..(i - 1)
    OBVIOUS
  <1>2. \A k \in 1..(p - 1) : k \in 1..n /\ k \in 1..(i - 1) /\ Kept(rs[k], new[k])
    OBVIOUS
  <1>3. PerceptSound(new, i) /\ ScopeSound(new, i)
    BY DEF PerceptSound, ScopeSound
  <1>4. BeliefSound(new, i)
    <2> SUFFICES ASSUME rs[p].slot = "beliefs" PROVE BeliefSound(new, i)
      BY DEF BeliefSound
    <2>1. rs[p].kind = anomaly_detected /\ rs[p].body.depends_on = <<temperature>>
      BY DEF Sound, BeliefSound
    <2>2. \A k \in 1..(i - 1) : new[k].slot = "percepts" => k <= new[i].since
      BY <1>1
    <2> QED
      BY <2>1, <2>2 DEF BeliefSound
  <1>5. ASSUME NEW r, Grounded(rs, p, r) PROVE Grounded(new, i, r)
    BY <1>2, <1>5 DEF Grounded, Kept
  <1>6. PredictionSound(new, i)
    BY <1>5 DEF Sound, PredictionSound
  <1>7. AlertSound(new, i)
    <2> SUFFICES ASSUME rs[p].slot = "actions", rs[p].kind = alert PROVE AlertSound(new, i)
      BY DEF AlertSound
    <2>1. rs[p].body.type = alert
      BY DEF Sound, AlertSound
    <2>2. PICK m \in Nat : m = i - 1 /\ n <= m
      OBVIOUS
    <2>3. Foretold(new, m, new[i], new[i])
      <3>1. Foretold(rs, n, j, rs[p]) /\ rs[p].body = new[i].body /\ rs[p].kind = new[i].kind
        OBVIOUS
      <3> QED
        BY <2>2, <3>1 DEF Foretold, ActionType, Kept
    <2> QED
      BY <2>1, <2>2, <2>3 DEF AlertSound
  <1> QED
    BY <1>3, <1>4, <1>6, <1>7 DEF Sound

LEMMA EvidenceIsSound ==
    ASSUME NEW new, NEW i, new[i].slot = "evidence", new[i].scope = "episode"
    PROVE  Sound(new, i)
BY DEF Sound, PerceptSound, BeliefSound, PredictionSound, AlertSound, ScopeSound

\* The records a commit adds are sound.
LEMMA LandedIsSound ==
    ASSUME NEW rs \in Seq(Record), NEW j \in Job, j.prop \in DOMAIN rs,
           WellFormed(rs[j.prop]), j.trace \in Traces, rs[j.prop].trace = j.trace,
           j.op \in {"belief", "prediction", "action"}, rs[j.prop].slot = SlotOf[j.op],
           Sound(rs, j.prop), j.since = Len(rs),
           rs[j.prop].slot = "actions" /\ rs[j.prop].kind = alert => Foretold(rs, Len(rs), j, rs[j.prop])
    PROVE  \A i \in (Len(rs) + 1)..Len(Landed(rs, j)) :
             Sound(Landed(rs, j), i) /\ Landed(rs, j)[i].slot # "percepts"
  <1> DEFINE p == j.prop
             gone == Invalidate(rs, p, "SUPERSEDED_BY_COMMIT")
             e == EvidenceFor(rs, p, j.trace, Voucher(j), j.since)
             b == CommittedFrom(rs, p, j.trace, Len(rs) + 1, j.since)
             c == CommittedFrom(rs, p, j.trace, NoId, j.since)
  <1>1. PICK n \in Nat : /\ n = Len(rs) /\ DOMAIN rs = 1..n
                         /\ gone \in Seq(Record) /\ Len(gone) = n
                         /\ \A i \in 1..n : Kept(rs[i], gone[i])
    <2>1. /\ Len(rs) \in Nat /\ DOMAIN rs = 1..Len(rs) /\ gone \in Seq(Record) /\ Len(gone) = Len(rs)
          /\ \A i \in 1..Len(rs) : i # p => gone[i] = rs[i]
          /\ Kept(rs[p], gone[p])
      BY LenProperties, InvalidateFacts DEF Reasons
    <2> HIDE DEF gone
    <2>2. \A i \in 1..Len(rs) : Kept(rs[i], gone[i])
      BY <2>1, Zenon DEF Kept
    <2> QED
      BY <2>1, <2>2
  <1>2. Voucher(j) \in Vouchers /\ j.since \in Nat /\ rs[p].kind \in Kinds /\ n + 1 \in Nat
    BY <1>1 DEF Job, Voucher, Vouchers, WellFormed
  <1>3. e \in Record /\ b \in Record /\ c \in Record
    BY <1>1, <1>2, WrittenAreRecords DEF NoId
  <1>4. e.slot = "evidence" /\ e.scope = "episode"
    BY DEF EvidenceFor
  <1>5. /\ b.role = "kernel" /\ b.slot = rs[p].slot /\ b.kind = rs[p].kind /\ b.body = rs[p].body
        /\ b.trace = j.trace /\ b.scope = "episode" /\ b.since = n
        /\ c.role = "kernel" /\ c.slot = rs[p].slot /\ c.kind = rs[p].kind /\ c.body = rs[p].body
        /\ c.trace = j.trace /\ c.scope = "episode" /\ c.since = n
    BY <1>1 DEF CommittedFrom
  <1>6. Landed(rs, j) = IF j.op = "belief" THEN Append(Append(gone, e), b) ELSE Append(gone, c)
    BY LandedIsCommit
  <1>7. p \in 1..n /\ Sound(rs, p) /\ rs[p].slot # "percepts" /\ rs[p].trace = j.trace
        /\ (rs[p].slot = "actions" /\ rs[p].kind = alert => Foretold(rs, n, j, rs[p]))
    BY <1>1 DEF SlotOf
  <1> HIDE DEF gone, e, b, c, p
  <1>8. CASE j.op = "belief"
    <2> DEFINE mid == Append(gone, e)
               new == Append(mid, b)
    <2>1. /\ mid \in Seq(Record) /\ Len(mid) = n + 1
          /\ \A i \in 1..n : mid[i] = gone[i]
          /\ mid[n + 1] = e
      BY <1>1, <1>3, AppendProperties
    <2> HIDE DEF mid
    <2>2. /\ Len(new) = n + 2
          /\ \A i \in 1..(n + 1) : new[i] = mid[i]
          /\ new[n + 2] = b
      BY <1>3, <2>1, AppendProperties
    <2>3. Landed(rs, j) = new
      BY <1>6, <1>8 DEF mid
    <2> HIDE DEF new
    <2>4. new[n + 1] = e /\ \A i \in 1..n : Kept(rs[i], new[i])
      BY <1>1, <2>1, <2>2
    <2>5. Sound(new, n + 1) /\ new[n + 1].slot # "percepts"
      BY <1>4, <2>4, EvidenceIsSound
    <2>6. Sound(new, n + 2) /\ new[n + 2].slot # "percepts"
      <3>1. /\ n + 2 \in Nat /\ n < n + 2
            /\ \A k \in (n + 1)..((n + 2) - 1) : new[k].slot = "evidence"
        BY <1>4, <2>4
      <3> QED
        BY <1>1, <1>5, <1>7, <2>2, <2>4, <3>1, CopyIsSound
    <2>7. \A i \in (n + 1)..(n + 2) : i = n + 1 \/ i = n + 2
      OBVIOUS
    <2> QED
      BY <1>1, <2>2, <2>3, <2>5, <2>6, <2>7
  <1>9. CASE j.op # "belief"
    <2> DEFINE new == Append(gone, c)
    <2>1. /\ Len(new) = n + 1
          /\ \A i \in 1..n : new[i] = gone[i]
          /\ new[n + 1] = c
      BY <1>1, <1>3, AppendProperties
    <2>2. Landed(rs, j) = new
      BY <1>6, <1>9
    <2> HIDE DEF new
    <2>3. Sound(new, n + 1) /\ new[n + 1].slot # "percepts"
      <3>1. /\ n + 1 \in Nat /\ n < n + 1
            /\ \A k \in (n + 1)..((n + 1) - 1) : new[k].slot = "evidence"
            /\ \A i \in 1..n : Kept(rs[i], new[i])
        BY <1>1, <2>1
      <3> QED
        BY <1>1, <1>5, <1>7, <2>1, <3>1, CopyIsSound
    <2>4. \A i \in (n + 1)..(n + 1) : i = n + 1
      OBVIOUS
    <2> QED
      BY <1>1, <2>1, <2>2, <2>3, <2>4
  <1> QED
    BY <1>8, <1>9

\* While a pipeline judges, the board is the one it fetched its proposal from.
LEMMA SinceIsNow ==
    ASSUME Inv, NEW t \in Threads, Step(t), ~At(t, "return"),
           pc[t] \in Pending => job[t].since = Len(recs)
    PROVE  pc'[t] \in Pending => job'[t].since = Len(recs')
  <1>1. /\ job[t] \in Job /\ job \in [Threads -> Job] /\ DOMAIN pc = Threads
        /\ pc[t] \in Labels
    BY ThreadFacts DEF Inv, TypeOK
  <1>2. CASE Fetch(t)
    <2>1. CASE IsProposal(recs, job[t].prop, job[t].op)
      BY <1>1, <1>2, <2>1 DEF Fetch, Job
    <2>2. CASE ~IsProposal(recs, job[t].prop, job[t].op)
      BY <1>1, <1>2, <2>2, PendingLabels DEF Fetch, Goto
    <2> QED
      BY <2>1, <2>2
  <1>3. CASE Acquire(t)
    BY <1>1, <1>3, PendingLabels DEF Acquire, Goto
  <1>4. CASE Refuse(t) \/ EndTx(t)
    BY <1>1, <1>4, PendingLabels DEF Refuse, EndTx, Goto
  <1>5. CASE ~Fetch(t) /\ ~Acquire(t) /\ ~Refuse(t) /\ ~EndTx(t)
    <2>1. recs' = recs /\ pc[t] \in Pending
      BY <1>5, PendingLabels, Zenon DEF Step, ListSlot, JudgeBelief, Arbitrate, Gate, Claims,
         JudgePlan, JudgeAction, CheckNeeds, BeginTx, WriteEvidence, Supersede, WriteRecord, Return, At
    <2> QED
      BY <1>5, <2>1, SameJob DEF KeepsToCall
  <1> QED
    BY <1>2, <1>3, <1>4, <1>5

\* What a pipeline adds to the board is sound.
LEMMA PipelineIsSound ==
    ASSUME Inv, Known, NEW t \in Threads, Step(t), \A i \in DOMAIN recs : Sound(recs, i),
           pc[t] \in Pending =>
             /\ job[t].since = Len(recs) /\ recs[job[t].prop].trace = job[t].trace
             /\ IsAlert(job[t].prop) => job[t].need
    PROVE  \A i \in (Len(recs) + 1)..Len(recs') : Sound(recs', i) /\ recs'[i].slot # "percepts"
  <1>1. recs \in Seq(Record) /\ Len(recs) \in Nat /\ job[t] \in Job
    BY ThreadFacts, LenProperties DEF Inv, TypeOK
  <1>2. CASE Refuse(t)
    <2>1. /\ pc[t] \in Pending /\ recs' = Invalidate(recs, job[t].prop, job[t].code)
          /\ job[t].code \in Reasons /\ job[t].prop \in DOMAIN recs
      BY <1>2, ThreadFacts, PendingLabels DEF Refuse, At, Fit, Reasons
    <2>2. Len(recs') = Len(recs)
      BY <1>1, <2>1, InvalidateFacts
    <2> QED
      BY <1>1, <2>2
  <1>3. CASE EndTx(t)
    <2>1. pc[t] = "end" /\ pc[t] \in Pending /\ recs' = Landed(recs, job[t])
      BY <1>3, InTransaction DEF EndTx, At, Inv, Safe, Ready, Writing, InTx
    <2>2. /\ job[t].prop \in DOMAIN recs /\ WellFormed(recs[job[t].prop]) /\ job[t].trace \in Traces
          /\ job[t].op \in {"belief", "prediction", "action"}
          /\ recs[job[t].prop].slot = SlotOf[job[t].op]
      BY <2>1, AcceptedBoards, InTransaction, ThreadFacts DEF Fit, AllOps, Writing
    <2>3. recs[job[t].prop].slot = "actions" /\ recs[job[t].prop].kind = alert =>
            Foretold(recs, Len(recs), job[t], recs[job[t].prop])
      <3> SUFFICES ASSUME recs[job[t].prop].slot = "actions", recs[job[t].prop].kind = alert
                   PROVE  Foretold(recs, Len(recs), job[t], recs[job[t].prop])
        OBVIOUS
      <3>1. job[t].op = "action" /\ job[t].need
        BY <2>1, <2>2 DEF SlotOf, IsAlert
      <3>2. KnowsAction(recs, pc[t], job[t]) /\ pc[t] \in Cleared
        BY <2>1 DEF Known, Knows, Cleared, Writing
      <3> QED
        BY <3>1, <3>2, Zenon DEF KnowsAction
    <2> QED
      BY <1>1, <2>1, <2>2, <2>3, LandedIsSound
  <1>4. CASE recs' = recs
    BY <1>1, <1>4
  <1>5. \/ Refuse(t) \/ EndTx(t) \/ recs' = recs
    BY Zenon DEF Step, Acquire, Fetch, ListSlot, JudgeBelief, Arbitrate, Gate, Claims, JudgePlan,
       JudgeAction, CheckNeeds, BeginTx, WriteEvidence, Supersede, WriteRecord, Return
  <1> QED
    BY <1>2, <1>3, <1>4, <1>5

LEMMA OneMore ==
    ASSUME NEW rs \in Seq(Record), NEW d, NEW new, new = Append(rs, d), d \in Record
    PROVE  \E m \in Nat : /\ m = Len(rs) /\ DOMAIN rs = 1..m /\ Len(new) = m + 1
                          /\ \A k \in 1..m : new[k] = rs[k]
                          /\ new[m + 1] = d
                          /\ \A i \in (m + 1)..(m + 1) : i = m + 1
  <1>1. PICK m \in Nat : m = Len(rs)
    BY LenProperties
  <1>2. DOMAIN rs = 1..m
    BY <1>1, LenProperties
  <1>3. /\ Len(new) = m + 1
        /\ \A k \in 1..m : new[k] = rs[k]
        /\ new[m + 1] = d
    BY <1>1, AppendProperties
  <1>4. \A i \in (m + 1)..(m + 1) : i = m + 1
    OBVIOUS
  <1> QED
    BY <1>1, <1>2, <1>3, <1>4, Zenon

\* What a step of the demo adds to the board is sound, and a percept it adds is the
\* reading of the episode.
AddsSound(i) ==
    Sound(recs', i) /\ (recs'[i].slot = "percepts" => recs'[i] = Percept(reading, Trace))

LEMMA NewIsSound ==
    ASSUME Inv, Known, OneKernel, DemoInv, BoardInv, OwnProposal, GroundsInv, [DemoNext]_demoVars
    PROVE  \A i \in (Len(recs) + 1)..Len(recs') : AddsSound(i)
  <1>1. recs \in Seq(Record) /\ Len(recs) \in Nat
    BY LenProperties DEF Inv, TypeOK
  <1>2. ASSUME recs' = recs PROVE \A i \in (Len(recs) + 1)..Len(recs') : AddsSound(i)
    BY <1>1, <1>2
  <1>3. ASSUME NEW d \in Drafts, Write(d),
               ASSUME NEW m \in Nat, m = Len(recs), DOMAIN recs = 1..m,
                      \A k \in 1..m : recs'[k] = recs[k], recs'[m + 1] = d
               PROVE  AddsSound(m + 1)
        PROVE  \A i \in (Len(recs) + 1)..Len(recs') : AddsSound(i)
    <2>1. d \in Record /\ recs' = Append(recs, d)
      BY <1>3, PublishedIsRecord DEF Write
    <2>2. PICK m \in Nat : /\ m = Len(recs) /\ DOMAIN recs = 1..m /\ Len(recs') = m + 1
                           /\ \A k \in 1..m : recs'[k] = recs[k]
                           /\ recs'[m + 1] = d
                           /\ \A i \in (m + 1)..(m + 1) : i = m + 1
      BY <1>1, <2>1, OneMore
    <2>3. AddsSound(m + 1)
      BY <1>3, <2>2
    <2> QED
      BY <2>2, <2>3
  <1>4. CASE UNCHANGED demoVars
    BY <1>2, <1>4 DEF demoVars, vars
  <1>5. ASSUME NEW n, NEW r, BeginEpisode(n, r) PROVE recs' = recs
    BY <1>5 DEF BeginEpisode, vars
  <1>6. ASSUME Look \/ StartStep \/ GoRound \/ EndEpisode \/ SimulatorEnds \/ WriteFails
        PROVE  recs' = recs
    BY <1>6 DEF Look, StartStep, GoRound, EndEpisode, SimulatorEnds, WriteFails, vars
  <1>7. ASSUME SensorStep PROVE \A i \in (Len(recs) + 1)..Len(recs') : AddsSound(i)
    <2> DEFINE d == Percept(reading, Trace)
    <2>1. stage = "step" /\ Write(d)
      BY <1>7 DEF SensorStep
    <2>2. d \in Drafts
      BY <2>1, WrittenIsDraft
    <2>3. ASSUME NEW m \in Nat, m = Len(recs), DOMAIN recs = 1..m,
                 \A k \in 1..m : recs'[k] = recs[k], recs'[m + 1] = d
          PROVE  AddsSound(m + 1)
      BY <2>1, <2>3, PerceptIsSound DEF AddsSound, GroundsInv
    <2> HIDE DEF d
    <2> QED
      BY <1>3, <2>1, <2>2, <2>3
  <1>8. ASSUME NEW d \in Drafts, Write(d), d.slot # "percepts",
               \/ d \in {Suspicion(Trace), Alert(Trace), Review(Trace)}
               \/ \E base \in BaseReasons : d = LessonRecord(base, Trace)
        PROVE  \A i \in (Len(recs) + 1)..Len(recs') : AddsSound(i)
    <2>1. ASSUME NEW m \in Nat, m = Len(recs), DOMAIN recs = 1..m,
                 \A k \in 1..m : recs'[k] = recs[k], recs'[m + 1] = d
          PROVE  AddsSound(m + 1)
      BY <1>8, <2>1, WorkersSound DEF AddsSound
    <2> QED
      BY <1>3, <1>8, <2>1
  <1>9. ASSUME AnalystStep \/ ActuatorStep PROVE \A i \in (Len(recs) + 1)..Len(recs') : AddsSound(i)
    <2>1. stage = "step"
      BY <1>9 DEF AnalystStep, ActuatorStep
    <2>2. PICK d \in {Suspicion(Trace), Alert(Trace), Review(Trace)} : Write(d)
      BY <1>9 DEF AnalystStep, ActuatorStep, Propose
    <2>3. d \in Drafts /\ d.slot # "percepts"
      <3>1. /\ Suspicion(Trace).slot # "percepts" /\ Alert(Trace).slot # "percepts"
            /\ Review(Trace).slot # "percepts"
        BY DEF Suspicion, Alert, Review, Proposal
      <3>2. DemoInv /\ stage # "between"
        BY <2>1
      <3> QED
        BY <3>1, <3>2, WrittenIsDraft
    <2> QED
      BY <1>8, <2>2, <2>3
  <1>10. ASSUME NEW base \in BaseReasons, AdaptiveWrites(base)
         PROVE  \A i \in (Len(recs) + 1)..Len(recs') : AddsSound(i)
    <2> DEFINE d == LessonRecord(base, Trace)
    <2>1. stage = "step" /\ Write(d)
      BY <1>10 DEF AdaptiveWrites
    <2>2. d \in Drafts /\ d.slot # "percepts"
      BY <2>1, WrittenIsDraft DEF LessonRecord
    <2> HIDE DEF d
    <2>3. \E other \in BaseReasons : d = LessonRecord(other, Trace)
      BY DEF d
    <2> QED
      BY <1>8, <2>1, <2>2, <2>3
  <1>11. ASSUME SimulatorPredicts PROVE \A i \in (Len(recs) + 1)..Len(recs') : AddsSound(i)
    <2>1. PICK n : n = Min(FiringNow)
      OBVIOUS
    <2> DEFINE d == PredictionFrom(Rules[n], Trace)
    <2>2. stage = "step" /\ FiringNow # {} /\ Write(d)
      BY <1>11, <2>1 DEF SimulatorPredicts, Propose
    <2>3. n \in DOMAIN Rules /\ n \in FiringNow
      BY <2>1, <2>2, FiringRule DEF DemoInv
    <2>4. d \in Drafts /\ d.slot # "percepts"
      BY <2>2, <2>3, WrittenIsDraft DEF PredictionFrom
    <2>5. ASSUME NEW m \in Nat, m = Len(recs), DOMAIN recs = 1..m,
                 \A k \in 1..m : recs'[k] = recs[k], recs'[m + 1] = d
          PROVE  AddsSound(m + 1)
      <3>1. Sound(recs', m + 1)
        BY <2>2, <2>3, <2>5, PredictionIsSound DEF GroundsInv
      <3> QED
        BY <2>4, <2>5, <3>1 DEF AddsSound
    <2> HIDE DEF d
    <2> QED
      BY <1>3, <2>2, <2>4, <2>5
  <1>12. ASSUME NEW w \in DOMAIN OpOf, CallPipeline(w) PROVE recs' = recs
    BY <1>12 DEF CallPipeline, Call
  <1>13. ASSUME PipelineStep PROVE \A i \in (Len(recs) + 1)..Len(recs') : AddsSound(i)
    <2>1. stage = "inside" /\ Step(Main) /\ Main \in Threads
      BY <1>13, EpisodesAssumption DEF PipelineStep
    <2>2. pc[Main] \in Pending =>
             /\ job[Main].since = Len(recs) /\ recs[job[Main].prop].trace = job[Main].trace
             /\ IsAlert(job[Main].prop) => job[Main].need
      BY <2>1 DEF GroundsInv, CallSound, OwnProposal
    <2>3. \A i \in DOMAIN recs : Sound(recs, i)
      BY DEF GroundsInv
    <2> QED
      BY <2>1, <2>2, <2>3, PipelineIsSound DEF AddsSound
  <1>14. ASSUME Answer \/ PipelineFails PROVE recs' = recs
    BY <1>14 DEF Answer, PipelineFails, Return, Raise
  <1>15. ASSUME Restart PROVE recs' = recs
    BY <1>15 DEF Restart, KernelDies, Crash, vars
  <1> QED
    BY <1>2, <1>4, <1>5, <1>6, <1>7, <1>9, <1>10, <1>11, <1>12, <1>13, <1>14, <1>15, Zenon
    DEF DemoNext, Proceed

\* An episode keeps its reading, and shows of the board what is its own.
LEMMA EpisodeKept ==
    ASSUME Inv, Known, OneKernel, DemoInv, BoardInv, OwnProposal, GroundsInv, [DemoNext]_demoVars
    PROVE  EpisodeSound'
  <1> SUFFICES ASSUME stage' # "between" PROVE EpisodeSound'
    BY DEF EpisodeSound
  <1>1. News(recs, recs', Trace)
    BY DemoNews
  <1>2. PICK m \in Nat, n \in Nat :
            /\ m = Len(recs) /\ n = Len(recs') /\ m <= n
            /\ DOMAIN recs = 1..m /\ DOMAIN recs' = 1..n
    BY <1>1, LenProperties DEF News
  <1>3. \A i \in 1..m : i \in 1..n /\ Kept(recs[i], recs'[i])
    BY <1>1, <1>2 DEF News
  <1>4. ASSUME NEW i \in WholeView(Trace)
        PROVE  i \in 1..m /\ (recs[i].slot # "constraints" => recs[i].trace = Trace)
    <2>1. i \in 1..m /\ (recs[i].trace = Trace \/ recs[i].scope = "persistent")
      BY <1>2 DEF WholeView, Listed, Visible
    <2>2. recs[i].slot # "constraints" => recs[i].scope = "episode"
      BY <1>2, <2>1 DEF GroundsInv, Sound, ScopeSound
    <2> QED
      BY <2>1, <2>2
  <1>5. ASSUME stage # "between", UNCHANGED <<episode, reading>>, view' \in {view, WholeView(Trace)}
        PROVE  EpisodeSound'
    <2>1. Trace' = Trace /\ Percept(reading, Trace)' = Percept(reading, Trace)
      BY <1>5 DEF Trace, Percept, Proposal
    <2>2. /\ \A i \in 1..m : recs[i].slot = "percepts" /\ recs[i].trace = Trace =>
               recs[i].body = Percept(reading, Trace).body /\ recs[i].conf = reading.conf
          /\ \A i \in view : i \in 1..m /\ (recs[i].slot # "constraints" => recs[i].trace = Trace)
      BY <1>2, <1>5 DEF GroundsInv, EpisodeSound
    <2>3. ASSUME NEW i \in 1..n, recs'[i].slot = "percepts", recs'[i].trace = Trace
          PROVE  recs'[i].body = Percept(reading, Trace).body /\ recs'[i].conf = reading.conf
      <3>1. CASE i \in 1..m
        BY <1>3, <2>2, <2>3, <3>1 DEF Kept
      <3>2. CASE i \in (m + 1)..n
        <4>1. recs'[i] = Percept(reading, Trace)
          BY <1>2, <2>3, <3>2, NewIsSound DEF AddsSound
        <4> QED
          BY <4>1 DEF Percept, Proposal
      <3> QED
        BY <3>1, <3>2
    <2>4. ASSUME NEW i \in view'
          PROVE  i \in 1..n /\ (recs'[i].slot # "constraints" => recs'[i].trace = Trace)
      <3>1. i \in 1..m /\ (recs[i].slot # "constraints" => recs[i].trace = Trace)
        BY <1>4, <1>5, <2>2, <2>4
      <3> QED
        BY <1>3, <3>1 DEF Kept
    <2> QED
      BY <1>2, <1>5, <2>1, <2>3, <2>4 DEF EpisodeSound
  <1>6. ASSUME NEW e, NEW r, BeginEpisode(e, r) PROVE EpisodeSound'
    <2>1. /\ recs' = recs /\ view' = {} /\ episode' = episode + 1
      BY <1>6 DEF BeginEpisode, StartRun, vars
    <2>2. episode \in Nat /\ episode' \in DOMAIN TraceIds /\ DOMAIN TraceIds = 1..Len(TraceIds)
          /\ Len(TraceIds) \in Nat
      <3>1. DemoInv'
        BY DemoKeepsInv
      <3>2. Len(TraceIds) \in Nat /\ DOMAIN TraceIds = 1..Len(TraceIds)
        BY EpisodesAssumption
      <3> QED
        BY <3>1, <3>2 DEF DemoInv
    <2>3. ASSUME NEW i \in 1..m PROVE recs[i].trace # Trace'
      <3>1. PICK k \in 1..episode : recs[i].trace = TraceIds[k]
        BY <1>2, <2>3 DEF BoardInv
      <3>2. k \in DOMAIN TraceIds /\ k # episode'
        BY <2>1, <2>2
      <3>3. TraceIds[k] # TraceIds[episode']
        BY <2>2, <3>2, EpisodesAssumption
      <3> QED
        BY <3>1, <3>3 DEF Trace
    <2> QED
      BY <1>2, <2>1, <2>3 DEF EpisodeSound
  <1>7. CASE UNCHANGED demoVars
    BY <1>5, <1>7 DEF demoVars, orchVars, workerVars, driverVars
  <1>8. CASE Look
    BY <1>5, <1>8 DEF Look, LookAround, workerVars, driverVars
  <1>9. CASE StartStep \/ GoRound \/ SensorStep \/ AnalystStep \/ ActuatorStep \/ SimulatorPredicts
             \/ SimulatorEnds
    BY <1>5, <1>9 DEF StartStep, GoRound, SensorStep, AnalystStep, ActuatorStep, SimulatorPredicts,
       SimulatorEnds, Propose, EnterStep, EndRound, LeaveStep, workerVars, driverVars
  <1>10. ASSUME NEW base \in BaseReasons, AdaptiveWrites(base) PROVE EpisodeSound'
    BY <1>5, <1>10 DEF AdaptiveWrites, LeaveStep, orchVars, driverVars
  <1>11. ASSUME NEW w \in DOMAIN OpOf, CallPipeline(w) PROVE EpisodeSound'
    BY <1>5, <1>11 DEF CallPipeline, workerVars, driverVars
  <1>12. CASE PipelineStep \/ Answer
    BY <1>5, <1>12 DEF PipelineStep, Answer, LeaveStep, orchVars, workerVars, driverVars
  <1>13. CASE WriteFails \/ PipelineFails
    BY <1>5, <1>13 DEF WriteFails, PipelineFails, Fault, StepFailed, workerVars
  <1>14. ~EndEpisode /\ ~Restart
    BY DEF EndEpisode, FinishRun, Restart
  <1> QED
    BY <1>6, <1>7, <1>8, <1>9, <1>10, <1>11, <1>12, <1>13, <1>14, Zenon DEF DemoNext, Proceed

\* Workers of one key are one worker.
LEMMA OneAtWork ==
    ASSUME NEW w \in DOMAIN OpOf, AtWork(w), AtWork("actuator")
    PROVE  w = "actuator"
  <1>1. w \in Workers /\ "actuator" \in Workers
    BY EpisodesAssumption DEF OpOf, Workers, DemoWrites
  <1> QED
    BY <1>1, OrchestratorAssumption DEF AtWork

\* The alert goes to its pipeline with the demand for a prediction, and keeps it there.
LEMMA CallKept ==
    ASSUME Inv, Known, OneKernel, DemoInv, BoardInv, OwnProposal, GroundsInv, [DemoNext]_demoVars
    PROVE  CallSound'
  <1>1. recs \in Seq(Record)
    BY DEF Inv, TypeOK
  <1>2. ASSUME stage' \notin {"call", "inside"} PROVE CallSound'
    BY <1>2 DEF CallSound
  <1>3. CASE UNCHANGED demoVars
    BY <1>3 DEF GroundsInv, CallSound, IsAlert, AtWork, demoVars, vars, orchVars, workerVars
  <1>4. ASSUME NEW n, NEW r, BeginEpisode(n, r) PROVE CallSound'
    BY <1>2, <1>4 DEF BeginEpisode, StartRun
  <1>5. ASSUME Look \/ StartStep \/ GoRound \/ EndEpisode \/ SensorStep \/ SimulatorEnds \/ Answer
               \/ WriteFails \/ PipelineFails \/ Restart
        PROVE  CallSound'
    BY <1>2, <1>5 DEF Look, StartStep, GoRound, EndEpisode, SensorStep, SimulatorEnds, Answer,
       WriteFails, PipelineFails, Restart, LookAround, EnterStep, EndRound, FinishRun, LeaveStep,
       StepFailed
  <1>6. ASSUME NEW base \in BaseReasons, AdaptiveWrites(base) PROVE CallSound'
    BY <1>2, <1>6 DEF AdaptiveWrites, LeaveStep, orchVars
  <1>7. ASSUME NEW d \in Drafts, Propose(d),
               d.slot = "actions" /\ d.kind = alert => AtWork("actuator") /\ ~local'.safe
        PROVE  CallSound'
    <2>1. d \in Record /\ recs' = Append(recs, d) /\ stage' = "call" /\ turn' = turn
      BY <1>7, PublishedIsRecord DEF Propose, Write
    <2>2. PICK m \in Nat : Len(recs') = m + 1 /\ recs'[m + 1] = d
      BY <1>1, <2>1, OneMore
    <2> QED
      BY <1>7, <2>1, <2>2 DEF CallSound, IsAlert, AtWork
  <1>8. CASE AnalystStep
    <2>1. stage = "step" /\ Propose(Suspicion(Trace))
      BY <1>8 DEF AnalystStep
    <2>2. Suspicion(Trace) \in Drafts /\ Suspicion(Trace).slot = "beliefs"
      BY <2>1, WrittenIsDraft DEF Suspicion, Proposal
    <2> QED
      BY <1>7, <2>1, <2>2
  <1>9. CASE SimulatorPredicts
    <2> DEFINE d == PredictionFrom(Rules[Min(FiringNow)], Trace)
    <2>1. stage = "step" /\ FiringNow # {} /\ Propose(d)
      BY <1>9 DEF SimulatorPredicts
    <2>2. d \in Drafts /\ d.slot = "predictions"
      BY <2>1, FiringRule, WrittenIsDraft DEF DemoInv, PredictionFrom
    <2> HIDE DEF d
    <2> QED
      BY <1>7, <2>1, <2>2
  <1>10. CASE ActuatorStep
    <2>1. stage = "step" /\ AtWork("actuator") /\ local' = local
          /\ Propose(IF local.safe THEN Review(Trace) ELSE Alert(Trace))
      BY <1>10 DEF ActuatorStep, workerVars
    <2>2. Review(Trace) \in Drafts /\ Alert(Trace) \in Drafts
      BY <2>1, WrittenIsDraft
    <2>3. Review(Trace).kind # alert
      BY GroundsAssumption DEF Review, Proposal
    <2>4. CASE local.safe
      BY <1>7, <2>1, <2>2, <2>3, <2>4
    <2>5. CASE ~local.safe
      BY <1>7, <2>1, <2>2, <2>5
    <2> QED
      BY <2>4, <2>5
  <1>11. ASSUME NEW w \in DOMAIN OpOf, CallPipeline(w) PROVE CallSound'
    <2> DEFINE need == w = "actuator" /\ ~local.safe
               j == [NoJob EXCEPT !.op = OpOf[w], !.prop = Len(recs), !.trace = Trace, !.need = need]
    <2>1. /\ stage = "call" /\ stage' = "inside" /\ recs' = recs /\ AtWork(w)
          /\ job' = [job EXCEPT ![Main] = j] /\ pc' = [pc EXCEPT ![Main] = "acquire"]
      BY <1>11 DEF CallPipeline, Call, Goto
    <2>2. Main \in Threads /\ DOMAIN job = Threads /\ DOMAIN pc = Threads
      BY EpisodesAssumption DEF Inv, TypeOK
    <2>3. j.prop = Len(recs) /\ j.need = need
      BY DEF NoJob
    <2> HIDE DEF j
    <2>4. job'[Main] = j /\ pc'[Main] \notin Pending
      BY <2>1, <2>2, PendingLabels
    <2>5. IsAlert(Len(recs)) => need
      BY <2>1, OneAtWork DEF GroundsInv, CallSound
    <2> HIDE DEF need
    <2> QED
      BY <2>1, <2>3, <2>4, <2>5 DEF CallSound, IsAlert
  <1>12. CASE PipelineStep
    <2>1. /\ stage = "inside" /\ stage' = "inside" /\ Step(Main) /\ ~At(Main, "return")
          /\ Main \in Threads
      BY <1>12, EpisodesAssumption DEF PipelineStep, orchVars
    <2>2. job'[Main].prop = job[Main].prop /\ job'[Main].need = job[Main].need
      BY <2>1, SameJob DEF KeepsToCall
    <2>3. /\ IsAlert(job[Main].prop) => job[Main].need
          /\ pc[Main] \in Pending => job[Main].since = Len(recs)
          /\ job[Main].prop \in DOMAIN recs
      BY <2>1 DEF GroundsInv, CallSound, OwnProposal
    <2>4. pc'[Main] \in Pending => job'[Main].since = Len(recs')
      BY <2>1, <2>3, SinceIsNow
    <2>5. Kept(recs[job[Main].prop], recs'[job[Main].prop])
      <3>1. News(recs, recs', Trace)
        BY DemoNews
      <3> QED
        BY <2>3, <3>1, LenProperties DEF News
    <2> QED
      BY <2>1, <2>2, <2>3, <2>4, <2>5 DEF CallSound, IsAlert, Kept
  <1> QED
    BY <1>3, <1>4, <1>5, <1>6, <1>8, <1>9, <1>10, <1>11, <1>12, Zenon DEF DemoNext, Proceed

LEMMA GroundsInit == DemoInit => GroundsInv
  <1> SUFFICES ASSUME DemoInit PROVE GroundsInv
    OBVIOUS
  <1>1. recs = << >> /\ stage = "between" /\ DOMAIN recs = {}
    BY DEF DemoInit, Init
  <1>2. EpisodeSound /\ CallSound
    BY <1>1 DEF EpisodeSound, CallSound
  <1> QED
    BY <1>1, <1>2 DEF GroundsInv

LEMMA GroundsNext ==
    ASSUME Inv, Known, OneKernel, DemoInv, BoardInv, OwnProposal, GroundsInv, [DemoNext]_demoVars
    PROVE  GroundsInv'
  <1>1. \A i \in DOMAIN recs' : Sound(recs', i)
    <2>1. \A i \in (Len(recs) + 1)..Len(recs') : Sound(recs', i)
      BY NewIsSound DEF AddsSound
    <2>2. News(recs, recs', Trace) /\ \A i \in DOMAIN recs : Sound(recs, i)
      BY DemoNews DEF GroundsInv
    <2> QED
      BY <2>1, <2>2, SoundKept
  <1> QED
    BY <1>1, EpisodeKept, CallKept DEF GroundsInv

LEMMA GroundsInvariant ==
    ASSUME OneKernel
    PROVE  DemoSpec => []GroundsInv
  <1>1. DemoInit => GroundsInv
    BY GroundsInit
  <1>2. Inv /\ Known /\ DemoInv /\ LessonsInv /\ GroundsInv /\ [DemoNext]_demoVars => GroundsInv'
    BY GroundsNext DEF LessonsInv
  <1>3. DemoSpec => []Inv /\ []Known
    <2>1. DemoSpec => Spec
      BY DemoUsesKernel DEF UsesKernel
    <2> QED
      BY <2>1, KernelInv, KernelKnown, PTL
  <1>4. DemoSpec => [](DemoInv /\ LessonsInv)
    BY LessonsInvariant
  <1> QED
    BY <1>1, <1>2, <1>3, <1>4, PTL DEF DemoSpec

\* The percepts of an episode are one reading.
LEMMA OneReading ==
    ASSUME \A i \in DOMAIN recs : Sound(recs, i), recs \in Seq(Record),
           NEW p \in DOMAIN recs, NEW q \in DOMAIN recs, recs[p].slot = "percepts",
           recs[q].slot = "percepts", recs[p].trace = recs[q].trace
    PROVE  recs[p].body = recs[q].body /\ recs[p].conf = recs[q].conf
  <1>1. DOMAIN recs = 1..Len(recs) /\ Len(recs) \in Nat
    BY LenProperties
  <1>2. PerceptSound(recs, p) /\ PerceptSound(recs, q)
    BY DEF Sound
  <1>3. p \in 1..(q - 1) \/ q \in 1..(p - 1) \/ p = q
    BY <1>1
  <1> QED
    BY <1>2, <1>3, Zenon DEF PerceptSound

\* A belief of the demo is committed on a reading that is good evidence.
LEMMA BeliefsAreGrounded ==
    ASSUME \A i \in DOMAIN recs : Sound(recs, i), recs \in Seq(Record),
           DependenciesJudged, WeakEvidenceRefused,
           NEW b \in DOMAIN recs, recs[b].slot = "beliefs", recs[b].mode = "COMMIT"
    PROVE  \E p \in CommittedAs(recs[b].trace, "percepts", temperature) :
             /\ p < b /\ ~recs[p].body.stale
             /\ recs[p].conf >= (IF recs[p].body.conflict THEN ArbConf ELSE MinConf)
  <1> DEFINE seen == Before(b, "percepts", temperature)
  <1>1. DOMAIN recs = 1..Len(recs) /\ Len(recs) \in Nat /\ b \in 1..Len(recs)
    BY LenProperties
  <1>2. /\ recs[b].body.depends_on = <<temperature>> /\ recs[b].role = "kernel"
        /\ \A k \in 1..(b - 1) : recs[k].slot = "percepts" => k <= recs[b].since
    BY DEF Sound, BeliefSound
  <1>3. b \in CommitsIn("beliefs")
    BY <1>2 DEF CommitsIn
  <1>4. 1 \in DOMAIN recs[b].body.depends_on /\ recs[b].body.depends_on[1] = temperature
    BY <1>2
  <1>5. /\ seen # {}
        /\ \A q \in seen : Standing(b, q) =>
             /\ ~recs[q].body.stale
             /\ recs[q].body.conflict => \E i \in seen : recs[i].conf >= ArbConf
    <2>1. \A j \in 1..(1 - 1) : FALSE
      OBVIOUS
    <2> QED
      BY <1>3, <1>4, <2>1 DEF DependenciesJudged
  <1>6. ~(/\ \E q \in seen : q <= recs[b].since /\ ~recs[q].ttl
          /\ \A i \in seen : recs[i].conf \in 0..(MinConf - 1))
    BY <1>3, <1>4 DEF WeakEvidenceRefused
  <1>7. \A i \in seen : /\ i \in 1..(b - 1) /\ i \in DOMAIN recs
                        /\ recs[i].slot = "percepts" /\ recs[i].kind = temperature
                        /\ recs[i].mode = "COMMIT" /\ recs[i].trace = recs[b].trace
    BY <1>1 DEF Before
  <1>8. PICK m \in Nat : m = b - 1
    BY <1>1
  <1>9. PICK q \in seen : \A i \in seen : i <= q
    <2>1. seen \in SUBSET (1..m)
      BY <1>7, <1>8
    <2> HIDE DEF seen
    <2> QED
      BY <1>5, <2>1, MaxIsMember
  <1> HIDE DEF seen
  <1>10. /\ q \in DOMAIN recs /\ q <= recs[b].since /\ q < b
         /\ ~recs[q].ttl /\ recs[q].conf \in 0..MaxConf
    BY <1>1, <1>2, <1>7 DEF Sound, PerceptSound
  <1>11. Standing(b, q)
    BY <1>7, <1>9, <1>10 DEF Standing, seen
  <1>12. \A i \in seen : recs[i].conf = recs[q].conf
    BY <1>7, OneReading
  <1>13. recs[q].body.conflict => recs[q].conf >= ArbConf
    BY <1>5, <1>11, <1>12
  <1>14. recs[q].conf >= MinConf
    <2>1. ~(recs[q].conf \in 0..(MinConf - 1))
      BY <1>6, <1>10, <1>12
    <2>2. MinConf \in Nat /\ MaxConf \in Nat
      BY KernelAssumption, ScaleAssumption
    <2> QED
      BY <1>10, <2>1, <2>2
  <1>15. q \in CommittedAs(recs[b].trace, "percepts", temperature)
    BY <1>7 DEF CommittedAs, Of
  <1> QED
    BY <1>5, <1>10, <1>11, <1>13, <1>14, <1>15

\* No alert without its grounds: whatever the readings and the rules, and whichever
\* store calls fail, an alert on the board has before it, in its own episode, a reading
\* that is good evidence, the belief committed on it, and the favourable prediction
\* that a rule made of that reading.
THEOREM DemoAlertsAreGrounded ==
    ASSUME OneKernel
    PROVE  DemoSpec => []AlertsAreGrounded
  <1>1. ASSUME Inv, GroundsInv, DependenciesJudged, WeakEvidenceRefused PROVE AlertsAreGrounded
    <2> SUFFICES ASSUME NEW a \in DOMAIN recs, recs[a].mode = "COMMIT", recs[a].slot = "actions",
                        recs[a].kind = alert
                 PROVE  \E p \in CommittedAs(recs[a].trace, "percepts", temperature),
                           b \in CommittedAs(recs[a].trace, "beliefs", anomaly_detected),
                           f \in CommittedAs(recs[a].trace, "predictions", PredKind(alert)) :
                             /\ p < b /\ b < f /\ f < a
                             /\ ~recs[p].body.stale
                             /\ recs[p].conf >= (IF recs[p].body.conflict THEN ArbConf ELSE MinConf)
                             /\ recs[f].body.expected_outcome >= 0
                             /\ \E n \in DOMAIN Rules :
                                  /\ Rules[n].expected_outcome >= 0
                                  /\ MeetsConditions(recs[p].body,
                                                     Rules[n].percept_conditions[temperature])
      BY Zenon DEF AlertsAreGrounded
    <2>1. /\ recs \in Seq(Record) /\ DOMAIN recs = 1..Len(recs) /\ Len(recs) \in Nat
          /\ \A i \in DOMAIN recs : Sound(recs, i)
      BY <1>1, LenProperties DEF Inv, TypeOK, GroundsInv
    <2>2. recs[a].body.type = alert /\ Foretold(recs, a - 1, recs[a], recs[a])
      BY <2>1 DEF Sound, AlertSound
    <2>3. ActionType(recs[a]) = alert
      BY <2>2 DEF ActionType
    <2>4. PICK f \in 1..(a - 1) :
             /\ recs[f].slot = "predictions" /\ recs[f].mode = "COMMIT"
             /\ recs[f].trace = recs[a].trace /\ recs[f].body.action_type = alert
             /\ ~(recs[f].body.expected_outcome < 0)
      BY <2>2, <2>3 DEF Foretold
    <2>5. f \in DOMAIN recs /\ f < a
      BY <2>1
    <2>6. PICK n \in DOMAIN Rules :
             /\ recs[f].kind = PredKind(Rules[n].action_type)
             /\ recs[f].body.action_type = Rules[n].action_type
             /\ recs[f].body.expected_outcome = Rules[n].expected_outcome
             /\ Rules[n].action_type = alert => Grounded(recs, f, n)
      BY <2>1, <2>4, <2>5 DEF Sound, PredictionSound
    <2>7. recs[f].kind = PredKind(alert) /\ Grounded(recs, f, n)
      BY <2>4, <2>6
    <2>8. Rules[n].expected_outcome >= 0 /\ recs[f].body.expected_outcome >= 0
      <3>1. Rules[n].expected_outcome \in Int
        BY EpisodesAssumption DEF IsSimRule
      <3> QED
        BY <2>4, <2>6, <3>1
    <2>9. PICK b \in 1..(f - 1) : recs[b].slot = "beliefs" /\ recs[b].mode = "COMMIT"
                                  /\ recs[b].trace = recs[a].trace
      BY <2>4, <2>7 DEF Grounded
    <2>10. PICK q \in 1..(f - 1) :
              /\ recs[q].slot = "percepts" /\ recs[q].trace = recs[a].trace
              /\ MeetsConditions(recs[q].body, Rules[n].percept_conditions[temperature])
      BY <2>4, <2>7 DEF Grounded
    <2>11. b \in DOMAIN recs /\ q \in DOMAIN recs /\ b < f /\ recs[b].kind = anomaly_detected
      <3>1. b \in DOMAIN recs /\ q \in DOMAIN recs /\ b < f
        BY <2>1, <2>5
      <3> QED
        BY <2>1, <2>9, <3>1 DEF Sound, BeliefSound
    <2>12. PICK p \in CommittedAs(recs[a].trace, "percepts", temperature) :
              /\ p < b /\ ~recs[p].body.stale
              /\ recs[p].conf >= (IF recs[p].body.conflict THEN ArbConf ELSE MinConf)
      BY <1>1, <2>1, <2>9, <2>11, BeliefsAreGrounded
    <2>13. recs[p].body = recs[q].body
      <3>1. p \in DOMAIN recs /\ recs[p].slot = "percepts" /\ recs[p].trace = recs[a].trace
        BY DEF CommittedAs, Of
      <3> QED
        BY <2>1, <2>10, <2>11, <3>1, OneReading
    <2>14. MeetsConditions(recs[p].body, Rules[n].percept_conditions[temperature])
      BY <2>10, <2>13
    <2>15. /\ b \in CommittedAs(recs[a].trace, "beliefs", anomaly_detected)
           /\ f \in CommittedAs(recs[a].trace, "predictions", PredKind(alert))
      BY <2>4, <2>5, <2>7, <2>9, <2>11 DEF CommittedAs, Of
    <2> QED
      BY <2>5, <2>8, <2>11, <2>12, <2>14, <2>15, Zenon
  <1>2. DemoSpec => []Inv /\ []DependenciesJudged /\ []WeakEvidenceRefused
    <2>1. DemoSpec => Spec
      BY DemoUsesKernel DEF UsesKernel
    <2> QED
      BY <2>1, KernelInv, KernelDependenciesJudged, KernelWeakEvidenceRefused, PTL
  <1> QED
    BY <1>1, <1>2, GroundsInvariant, PTL
=============================================================================
