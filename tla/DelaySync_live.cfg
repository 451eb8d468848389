SPECIFICATION FairSpec
CONSTANTS
    SlotCount = 2
    Inputs = {"n"}
    Neutral = "n"
    D0 = 0
    D1 = 1
    InputDelay <- MCInputDelay
    Redundancy = 0
    Slack = 0
    Ancient = 4
    MaxBack = 2
    TrailFloor = 2
    MaxBundle = 1
    HistoryLength = 8
    MaxTick = 2
INVARIANT
    WaiterIsSentRow
PROPERTY
    Progress
CHECK_DEADLOCK FALSE
