CONSTANTS
    TimeMod = 11
    PrepareTime = 1
    LoadTime = 1
    VoltageTimeout = 3
    MountDelay = 3
    ActivationTime = 4
    PowerDownTime = 1
    PcTimeout = 5
    MaxLag = 2
    VoltageChecks = {TRUE}
    SensorGlitch = TRUE
SPECIFICATION Spec
PROPERTIES GracefulCut
