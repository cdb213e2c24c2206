\* Two threads of one kernel contend for the same proposals.
CONSTANTS
    photo = photo  claim = claim  refund = refund  limit = limit
    ep1 = ep1  t1 = t1  t2 = t2  k1 = k1  k2 = k2
    Kinds = {photo, claim, refund, limit}
    Traces = {ep1}
    Payloads <- MCPayloads
    MaxConf = 2  MinConf = 1  ArbConf = 2
    Drafts <- ContendedDrafts
    MaxRecs = 3
    Kernels = {k1}
    Threads = {t1, t2}
    NoThread = NoThread
    Home <- OneHome
    Ops = {"belief", "prediction"}
    MaxCalls = 3
SPECIFICATION Spec
SYMMETRY Symmetry
CHECK_DEADLOCK FALSE
PROPERTIES
    IsAuditTrail
