\* Two kernels over one store commit one proposal twice.
CONSTANTS
    photo = photo  claim = claim  refund = refund  limit = limit
    ep1 = ep1  t1 = t1  t2 = t2  k1 = k1  k2 = k2
    Kinds = {photo, claim, refund, limit}
    Traces = {ep1}
    Payloads <- MCPayloads
    MaxConf = 2  MinConf = 1  ArbConf = 2
    Drafts <- PlainDrafts
    MaxRecs = 2
    Kernels = {k1, k2}
    Threads = {t1, t2}
    NoThread = NoThread
    Home <- TwoHomes
    Ops = {"belief", "action"}
    MaxCalls = 2
SPECIFICATION Spec
CHECK_DEADLOCK FALSE
INVARIANTS
    AtMostOneCommit
