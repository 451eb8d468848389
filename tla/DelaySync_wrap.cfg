SPECIFICATION Spec
CONSTANTS
    SlotCount = 2
    Inputs = {"n", "x"}
    Neutral = "n"
    D0 = 0
    D1 = 0
    InputDelay <- MCInputDelay
    Redundancy = 0
    Slack = 0
    Ancient = 4
    MaxBack = 2
    TrailFloor = 1
    MaxBundle = 1
    HistoryLength = 2
    MaxTick = 3
INVARIANTS
    TypeOK
    AdmittedRowsHeld
    WaiterIsSentConfirm
    Agreement
    SkewBound
    NoSpuriousDesync
PROPERTY
    ImplementsLockstep
CHECK_DEADLOCK FALSE
