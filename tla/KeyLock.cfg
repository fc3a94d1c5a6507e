CONSTANTS
    TimeMod = 11
    PressMod = 3
    HoldTime = 2
    ReleaseLimit = 3
    QuietTime = 2
    AckWindow = 3
    UnlockDuration = 3
    DebounceTime = 1
    BounceTime = 1
    MaxLag = 2
    SnapDelay = 0
    MaxEdges = 2
    Coalesce = FALSE
SPECIFICATION FairSpec
INVARIANTS TypeOK PressIsFresh UnlockedExpires AckWindowCloses
PROPERTIES UnlockSequence Debounced AutoRelock
