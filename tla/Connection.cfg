CONSTANTS
    TimeMod = 9
    AttemptTime = 3
    ReconnectTime = 5
    ssid_list_len = 2
    MaxLag = 2
SPECIFICATION FairSpec
INVARIANTS TypeOK TriesInTime
PROPERTIES AttemptGetsItsTime BotComesBack KeepsTrying
