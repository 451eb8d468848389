SPECIFICATION FairSpec
CONSTANTS
    Guests = {1}
    Sizes = {1}
    Probes <- MCNoProbes
    PaceMin <- MCPaceMin
    PaceStart <- MCPaceStart
    PaceMax <- MCPaceMax
    PaceStep <- MCPaceStep
    MaxXfer = 1
PROPERTY
    TransferCompletes
CHECK_DEADLOCK FALSE
