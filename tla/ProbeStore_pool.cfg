SPECIFICATION Spec
CONSTANTS
    Hash = {h1, h2}
    Reply = {"json", "text"}
    JSONReply = {"json"}
    TTL = 2
    MinSamples = 2
    MaxEntries = 1
    DiskFaults = TRUE
    MaxNow = 3
    MaxHits = 1
    MaxEvents = 4
SYMMETRY HashSymmetry
INVARIANTS
    TypeOK
    ReplaysCollectedReplies
    WarmEntryAnswers
    PoolBounded
    FileIsEarlierStage
    CleanMeansSaved
    SavesFailOnlyOnDisk
PROPERTIES
    SamplesOnlyGrow
    IsSampleCache
CHECK_DEADLOCK FALSE
