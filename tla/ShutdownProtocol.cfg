CONSTANTS
    TimeMod = 8
    PrepareTime = 0
    LoadTime = 0
    VoltageTimeout = 0
    MountDelay = 0
    ActivationTime = 0
    PowerDownTime = 0
    PcTimeout = 4
    MaxLag = 1
    VoltageChecks = {TRUE}
    SensorGlitch = FALSE
    TxInterval = 1
    ShutdownDelay = 1
SPECIFICATION ShutdownSpec
INVARIANTS ShutdownIsRecent
PROPERTIES CleanCut
