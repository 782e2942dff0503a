CONSTANTS
    Poll = 2
    KeepalivePeriod = 8
    LivenessTimeout = 24
    ReconnectPeriod = 8
    Grace = 4
    MaxDelay = 3
    MaxLost = 1
    EdgeDelay = 3
    Never = Never
SPECIFICATION FairSpec
INVARIANTS NoticedInTime RequestNotFlushed GreetedInTime
PROPERTIES LivingKept ImplementsLinkWatch
