CONSTANTS
    b1 = b1
    b2 = b2
    v1 = v1
    v2 = v2
    n1 = n1
    n2 = n2
    n3 = n3
    Legacy = {b1, b2}
    V3 = {v1, v2}
    Nullifiers = {n1, n2, n3}
    NotesOf <- MCNotesOf
    Payloads <- MCPayloads
    Workers = {w1, w2}
    NoBundle = none
    RetryLimit = 1
    MaxTx = 3
    MaxDeliveries = 2
    MaxFaults = 2
    RewardDivisor = 110
    ZeroNonce = zero
    Refusal = refused
    Pools = {"pool"}
    Maximum <- SmallMaximum
    Validity = 60
    Account = "relayer"
    Chain = 1
    Offers <- SmallOffers
SPECIFICATION FairSpec
INVARIANTS MarksAreTrue ArchiveIsTrue NoSubmissionForgotten PublishedIsHonoured
PROPERTIES ResolvableIsArchived
CHECK_DEADLOCK FALSE
