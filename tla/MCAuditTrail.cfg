\* The promises of the audit trail on its own, and of the views clients take of it.
CONSTANTS
    refund = refund  ep1 = ep1  ep2 = ep2
    Kinds = {refund}
    Traces = {ep1, ep2}
    Payloads <- MCPayloads
    MaxConf = 1
    Drafts <- MCDrafts
    MaxRecs = 2
    ViewCalls <- MCViewCalls
SPECIFICATION ViewSpec
CHECK_DEADLOCK FALSE
INVARIANTS
    TypeOK
    AtMostOneCommit
    VerdictsAgree
    EvidenceVouches
    CommitsAreProposals
    BeliefsShownWithEvidence
    ProposalsShownAreOpen
    NothingStandingMissed
PROPERTIES
    Settled
