CONSTANTS
    c1 = c1
    c2 = c2
    n1 = n1
    Calls = {c1, c2}
    Nullifiers = {n1}
    InputsOf <- MCInputsOf
    Hashes = {}
    NoHash = none
    ChildrenOf <- MCChildrenOf
    QuoteEnd <- MCQuoteEnd
    Margin = 0
    Leases <- MCLeases
    Workers = {w1, w2}
    NoCall = none
    NoStep = none
    NoLease = none
    MaxTime = 2
    MaxFaults = 1
SPECIFICATION FairSpec
INVARIANTS RetiredIsDead GroundsAreFinal
CHECK_DEADLOCK FALSE
PROPERTIES ExpiredIsRetired
