CONSTANTS
    TimeMod = 9
    PressMod = 3
    HoldTime = 2
    ReleaseLimit = 3
    QuietTime = 1
    AckWindow = 2
    UnlockDuration = 2
    DebounceTime = 1
    BounceTime = 1
    MaxLag = 1
    SnapDelay = 1
    MaxEdges = 3
    Coalesce = FALSE
SPECIFICATION Spec
PROPERTIES UnlockSequence
