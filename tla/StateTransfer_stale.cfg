SPECIFICATION LateSpec
CONSTANTS
    Guests = {1}
    Sizes = {1, 2}
    Probes <- MCProbes
    PaceMin <- MCPaceMin
    PaceStart <- MCPaceStart
    PaceMax <- MCPaceMax
    PaceStep <- MCPaceStep
    MaxXfer = 2
INVARIANTS
    ReadyMeansDelivered
    TransferStalls
    ReplyIsAnswer
CHECK_DEADLOCK FALSE
