CONSTANTS
    TimeMod = 9
    SaveDelay = 3
    SaveDelta = 1
    MaxCharge = 4
    MaxLag = 2
    Unreadable = none
    WriteFails = FALSE
    UpdateFails = TRUE
SPECIFICATION Spec
PROPERTIES EveryHundredMAh
