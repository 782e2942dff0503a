CONSTANTS
    old = old
    new = new
    Image <- MCImage
    Size <- MCSize
    Healthy <- MCImage
    Factory <- MCFactory
    Provisioning = {"confirmed"}
    SlotChunks = 2
    SectorChunks = 1
    MaxAttempts = 3
    NoRecord = NoRecord
    Erased = Erased
    Torn = Torn
    BadCrc = BadCrc
    New = new
    Others <- MCOthers
    InRecovery = FALSE
    Retries = 5
    ChunkRetries = 3
    MaxFaults = 4
SPECIFICATION TransferFairSpec
INVARIANTS DoneMeansInstalled NoBounceBack
PROPERTIES ImplementsBootloader FlashSucceeds
