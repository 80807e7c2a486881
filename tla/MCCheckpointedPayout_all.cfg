CONSTANTS
    Intents <- TwoIntents
    Hashes <- SomeHashes
    NoHash = 0
    NoIntent = 0
    Workers = {w1, w2}
    Loop5And6 = w1
    Plans <- AllPlans
    MaxFaults = 1
SPECIFICATION FairSpec
INVARIANTS CheckpointIsASuccess RemoteFollowsLocal ClosedMeansEnded
PROPERTIES NoRebroadcastOverRecorded WithdrawalIsRecovered PublicRecordFollows ImplementsPromise
CHECK_DEADLOCK FALSE
