SPECIFICATION FairSpec
CONSTANTS
    SlotCount = 3
    HostDelay = 3
    GuestDelay = 2
    ConfigDelay <- MCConfigDelay
    MinDelay = 2
    MaxDelay = 20
    HasTurn = {1}
INVARIANTS
    TypeOK
    ReadyBarrier
PROPERTIES
    DelaySettles
    FirstTickPlayed
CHECK_DEADLOCK FALSE
