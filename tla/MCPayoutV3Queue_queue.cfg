CONSTANTS
    Payouts <- TwoPayouts
    Ticks = {t1, t2}
    NoTick = none
    NoPayout = 0
    MaxAttempts = 2
    PromotionLimit = 1
    Settings <- SomeSettings
    MaxSent = 4
    MaxFaults = 1
SPECIFICATION FairSpec
INVARIANTS RowsTellTheTruth NoStrandedPayout
PROPERTIES OnlyTheHolderWrites RecordedDeliveryStands ConfirmedPayoutEnds
