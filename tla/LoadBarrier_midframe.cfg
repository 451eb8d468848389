SPECIFICATION BarrierSpec
CONSTANTS
    Guests = {1}
    Sizes = {1}
    Probes <- MCProbes
    PaceMin <- MCPace
    PaceStart <- MCPace
    PaceMax <- MCPace
    PaceStep <- MCPace
    MaxXfer = 4
    Saves = {1}
    InitFile <- MCInitFile
    InitCard <- MCInitCard
    Delay = 1
    LoadMayFail = {}
    Patient = TRUE
    SavedTo = {1}
    AskBy = 0
    MaxAsks = 1
    MaxSim = 4
    MaxResumed = 1
INVARIANTS LaterApplierCanAdmit
CHECK_DEADLOCK FALSE
