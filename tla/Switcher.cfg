CONSTANTS
    TimeMod = 5
    PrepareTime = 0
    LoadTime = 0
    VoltageTimeout = 1
    MountDelay = 0
    ActivationTime = 0
    PowerDownTime = 0
    PcTimeout = 2
    MaxLag = 1
    VoltageChecks = {TRUE, FALSE}
    SensorGlitch = FALSE
    QueueSize = 3
    MaxReplies = 2
SPECIFICATION SwitcherFairSpec
INVARIANTS SwitcherTypeOK AsksAreObeyed
PROPERTIES AsksAreCarriedOut
