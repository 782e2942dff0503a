CONSTANTS
    TARGETS = 2
    Value = {red, blue}
    None = None
    Overlap = FALSE
    MaxCmds = 2
    MaxFaults = 2
    MaxFlips = 1
SPECIFICATION FairSpec
INVARIANTS TypeOK SettledShows SettledPublishes
PROPERTY Converges
