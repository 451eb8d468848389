SPECIFICATION FairSpec
CONSTANTS
    Guests = {1}
    Sizes = {3}
    Probes <- MCNoProbes
    PaceMin <- MCPaceMin
    PaceStart <- MCPaceStart
    PaceMax <- MCPaceMax
    PaceStep <- MCPaceStep
    MaxXfer = 1
INVARIANTS
    TypeOK
    WholeBlobIsIntact
PROPERTY
    MidTransferProgress
CHECK_DEADLOCK FALSE
