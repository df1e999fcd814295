SPECIFICATION Spec
CONSTANTS
    Subjects = {"stateful"}
    None = None
    Tasks = {a, b}
    MaxInode = 2
    MaxFaults = 2
    MaxMoves = 2
    MaxInventoryFaults = 1
    MaxEntries = 3
    MaxDepth = 2
    MaxOutside <- MetadataMaxOutside
    Rebindable <- MetadataRebindable
    Writable <- MetadataWritable
    Starts <- MetadataStarts
    MaxStateidOutside = 2
    MaxStateidFaults = 2
    Procs = {p1, p2}
    MaxRoots = 2
    FrozenMaxFaults = 1
    FrozenMaxOutside = 1
    MaxCrashes = 1
    Closed = {"d", "f"}
    MaxTreeOutside = 2
    FrozenRebindable = {"d", "f", "l", "x"}
    Mutable = {2, 3, 6}
    FrozenFiles <- TargetFiles
    MaxTargetOutside <- TargetMaxOutside
    Executions <- TargetExecutions
    Touch <- TargetTouch
    Rows <- MCRedirectRows
    MaxRows = 3
    Modes <- LayoutModes
    MaxInodes = 20
    InspectMaxOutside = 2
    InspectMaxEntries = 2
    Worlds <- CaptureWorlds
    Records <- CaptureRecords
    Flows <- CaptureFlows
    MaxCaptureOutside <- CaptureMaxOutside
    InspectMaxFaults <- CaptureMaxFaults
    RequestLists <- NamespaceRequestLists
    Volumes <- NamespaceVolumes
    Puts <- NamespacePuts
    FoldLookup <- NamespaceFoldLookup
    Limits <- NamespaceLimits
    InspectMaxMoves <- NamespaceMaxMoves
    MaxNamespaceFaults <- NamespaceMaxFaults
    Listings <- MCListings
    LedgerLimits <- MCLedgerLimits
    HardMax <- MCHardMax
    MaxRecord = 3
    Buffer = 5
    MaxPasses = 3
INVARIANT ReparentedBeneathTarget
CHECK_DEADLOCK FALSE
