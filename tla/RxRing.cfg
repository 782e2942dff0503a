CONSTANTS
    RingSize = 4
    HwSize = 2
    ReadMax = 2
    SentLimit = 6
SPECIFICATION FairSpec
INVARIANTS InOrder Accounted
PROPERTIES ImplementsFifo FlushEmptiesRing NothingStuck
