SPECIFICATION Spec
CONSTANTS
    SlotCount = 2
    HostDelay = 3
    GuestDelay = 2
    ConfigDelay <- MCConfigDelay
    MinDelay = 2
    MaxDelay = 20
    HasTurn = {0, 1}
INVARIANT
    PrefixComplete
CHECK_DEADLOCK FALSE
