CONSTANTS
    good = good
    bad = bad
    Image <- MCImage
    Size <- MCSize
    Healthy <- MCHealthy
    Factory <- MCHealthy
    Provisioning = {"none", "confirmed", "stale"}
    SlotChunks = 3
    SectorChunks = 2
    MaxAttempts = 3
    NoRecord = NoRecord
    Erased = Erased
    Torn = Torn
    BadCrc = BadCrc
SPECIFICATION FairSpec
INVARIANTS BootsOnlyWholeImages StartsAreCounted ConfirmedIsHealthy
PROPERTY HungImageFallsBack
