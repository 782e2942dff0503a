CONSTANTS
    BTN_COUNT = 2
    ClockMod = 8
    Windows = {1, 3}
    MaxEvents = 1
    MaxGap = 2
    AgeLimit = 8
SPECIFICATION FairSpec
PROPERTIES OnlySteady Prompt HeldIsReported ImplementsStream
