\* The monitoring demo: three episodes, with one store call failing or one restart.
CONSTANTS
    temperature = temperature  anomaly_detected = anomaly_detected
    alert = alert  queue_for_review = queue_for_review
    ep1 = ep1  ep2 = ep2  ep3 = ep3  main = main  k1 = k1
    Kinds <- MCKinds
    Traces = {ep1, ep2, ep3}
    Payloads <- MCPayloads
    MaxConf = 2  MinConf = 1  ArbConf = 2
    Drafts <- DemoDrafts
    MaxRecs = 50
    Kernels = {k1}
    Threads = {main}
    NoThread = NoThread
    Home <- MCHome
    Ops = {"belief", "plan", "prediction", "action"}
    MaxCalls = 12
    Writes <- DemoWrites
    MaxRounds = 4
    Main = main
    TraceIds <- MCTraceIds
    Readings <- MCReadings
    Rules <- MCRules
    Thresholds = {1, 2}
    MaxFaults = 2
SPECIFICATION FairDemo
CHECK_DEADLOCK FALSE
INVARIANTS
    AlertsAreGrounded
    EpisodeDecided
    FaultsContained
    RunsEndQuiet
    LessonsHaveCauses
    NothingForgotten
    LessonsNotRepeated
PROPERTIES
    UsesKernel
    RunsEnd
