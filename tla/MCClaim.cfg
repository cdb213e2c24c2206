\* Evidence claims a check the gate never made.
CONSTANTS
    photo = photo  claim = claim  refund = refund  limit = limit
    ep1 = ep1  t1 = t1  t2 = t2  k1 = k1  k2 = k2
    Kinds = {photo, claim, refund, limit}
    Traces = {ep1}
    Payloads <- MCPayloads
    MaxConf = 2  MinConf = 1  ArbConf = 2
    Drafts <- LateDrafts
    MaxRecs = 3
    Kernels = {k1}
    Threads = {t1}
    NoThread = NoThread
    Home <- OneHome
    Ops = {"belief"}
    MaxCalls = 1
SPECIFICATION Spec
CHECK_DEADLOCK FALSE
INVARIANTS
    ClaimsOnlyChecksMade
