SPECIFICATION FairSpec
CONSTANTS
    Pages = {1}
    Variants = {1, 2}
    Shards <- MCShards
    Boot <- MCBoot
    MaxRuns = 3
    MaxTries = 2
    MaxWrites = 1
INVARIANTS
    TypeOK
    OneHandoff
    IdleIsQuiet
    EvidenceRetained
    EvidenceIsTrue
    EvidenceIsOffered
PROPERTIES
    HonestSuccess
    RunEnds
    ShutdownEnds
CHECK_DEADLOCK FALSE
