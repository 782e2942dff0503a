CONSTANTS
    good = good
    bad = bad
    Image <- MCImage
    Size <- MCSize
    Healthy <- MCHealthy
    Factory <- MCHealthy
    Provisioning = {"confirmed"}
    SlotChunks = 3
    SectorChunks = 2
    MaxAttempts = 3
    NoRecord = NoRecord
    Erased = Erased
    Torn = Torn
    BadCrc = BadCrc
SPECIFICATION FairSpec
PROPERTY AlwaysRecoverable
