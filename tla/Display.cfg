CONSTANTS
    TimeMod = 18
    ReadDelay = 2
    UpdateDelay = 6
    MaxLag = 1
    LastTick = 13
    Measured = {z, v}
    Zero = z
    ContentDelay = 4
    BarDelay = 1
    ShortTime = 2
    LongTime = 4
    StartTime = 4
SPECIFICATION DisplaySpec
INVARIANTS DisplayTypeOK PowersFollow ShownIsFresh MessageGoes
PROPERTIES MessageKept
