CONSTANTS
    TARGETS = 2
    Value = {red, blue}
    None = None
    Overlap = TRUE
    MaxCmds = 2
    MaxFaults = 1
    MaxFlips = 0
SPECIFICATION FairSpec
PROPERTY Converges
