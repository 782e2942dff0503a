CONSTANTS
    Octets = {3, 102}
    MaxFaults = 2
    Lateness = {0, 200}
    Unread = Unread
    RINGS = 2
    NumLeds <- MCNumLeds
    MaxLeds = 16
    RingCmds <- MCRingCmds
    Grb = TRUE
    MaxResets = 1
SPECIFICATION FairSpec
INVARIANTS TypeOK StaysConfigured CleanStartWorks ConfirmedIsAnswered LedTellsAddress RingsShown
PROPERTY AddressShown
