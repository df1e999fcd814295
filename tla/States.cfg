SPECIFICATION Spec
CONSTANTS
    Subjects = {"transition", "prune", "repair", "effect", "parents"}
    s1 = s1
    s2 = s2
    s3 = s3
    Archived <- MCArchived
    Active = s2
    New <- MCNew
    MaxParking = 1
    Empty = Empty
    None = None
    PruneArchived <- PruneMCArchived
    PruneActive <- MCActive
    Created <- MCCreated
    MaxRollback <- MCMaxRollback
    MaxBatch <- MCMaxBatch
    MaxOutside = 2
    MaxFaults = 1
    StartupMaxOutside = 2
    MaxCrashes = 2
    MaxMoves = 2
INVARIANTS TransitionsKeepStates ArchivesStayWhole RecoveryIsBacked
PROPERTIES NoStepGoesBack TransitionsSettle
CHECK_DEADLOCK FALSE
