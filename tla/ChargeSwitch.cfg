CONSTANTS
    TimeMod = 12
    UpdateDelay = 2
    IdleTime = 3
    IdleCurrent = 1
    Full = 4
    IntWidth = 16
    Charging = {2}
    Discharging = {1, 2}
    Voltages = {0, 126, 134, 143}
    MaxLag = 2
    StopSoC = 80
    RestartSoC = 60
    ChargeCurrent = 1
SPECIFICATION ChargeSpec
INVARIANTS ChargeTypeOK OffIsRemembered
PROPERTIES EachMomentCountedOnce CorrectedAfterRest ChargerFollowsLimits
