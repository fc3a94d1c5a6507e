CONSTANTS
    TimeMod = 11
    PrepareTime = 1
    LoadTime = 1
    VoltageTimeout = 3
    MountDelay = 2
    ActivationTime = 4
    PowerDownTime = 1
    PcTimeout = 5
    MaxLag = 2
    VoltageChecks = {TRUE, FALSE}
    SensorGlitch = FALSE
SPECIFICATION FairSpec
INVARIANTS TypeOK PhaseDeadline
PROPERTIES SoftStart MountComesLast GracefulCut ShutdownCompletes StartupCompletes
