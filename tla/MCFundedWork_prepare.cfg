CONSTANTS
    a1 = a1
    a2 = a2
    t1 = t1
    t2 = t2
    t3 = t3
    p1 = p1
    Attempts = {a1, a2}
    Publications = {p1}
    PubOf <- MCPubOf
    Transfers = {t1, t2, t3}
    AttemptOf <- MCAttemptOf
    Exact = {t1, t2, t3}
    Early = {t2}
    Seen = {t3}
    MaxRevisions = 2
    Processes = 2
    NoPub = nopub
    None = none
    MaxFaults = 1
    Master = "master"
    Transactions <- SmallTransactions
    Bookings <- SmallBookings
SPECIFICATION FairSpec
INVARIANTS PublicationPaidOnce DepositsAreDistinct CleanPaymentIsSingle
PROPERTIES LeaseEndsByHolder PayloadNeverChanges FundedIsPrepared
CHECK_DEADLOCK FALSE
