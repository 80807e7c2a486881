CONSTANTS
    Intents <- TwoIntents
    Hashes <- SomeHashes
    NoHash = 0
    NoIntent = 0
    Workers = {w1, w2}
    Loop5And6 = w1
    Plans <- BatchPlans
    MaxFaults = 1
SPECIFICATION FairSpec
PROPERTIES EveryChildIsRecovered
CHECK_DEADLOCK FALSE
