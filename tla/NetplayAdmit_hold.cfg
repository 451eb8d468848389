SPECIFICATION HostSpec
CONSTANTS
    SlotCount = 2
    Inputs = {"n"}
    Neutral = "n"
    D0 = 1
    D1 = 1
    InputDelay <- MCInputDelay
    Redundancy = 0
    Slack = 0
    Ancient = 4
    MaxBack = 2
    TrailFloor = 2
    MaxBundle = 1
    HistoryLength = 8
    MaxTick = 2
    EnterFrames = 1
    ExitFrames = 2
    GraceTicks = 1
INVARIANTS
    HostTypeOK
    HoldNeverMutual
CHECK_DEADLOCK FALSE
