SPECIFICATION Spec
CONSTANTS
    Subjects = {"mirror", "checkout", "replacement", "replacementmoves", "collected", "collectedmoves", "bundle", "bundlemoves", "sink", "sinkmoves", "activation", "cgroup"}
    None = None
    Processes = {"p", "q"}
    MaxTip = 3
    TagAt = 1
    Submodules = {2}
    MaxOps = 2
    MaxFaults = 1
    MaxKills = 1
    MaxOutside = 2
    CollectionMaxOps <- ReplacementMaxOps
    CollectionMaxOutside <- ReplacementMaxOutside
    CollectionMaxFaults <- ReplacementMaxFaults
    MaxCollectedOps <- CollectedMaxOps
    MaxCollectedOutside <- CollectedMaxOutside
    MaxCollectedFaults <- CollectedMaxFaults
    Touch <- CollectedTouch
    MaxAttempts <- BundleMaxAttempts
    MaxBundleOutside <- BundleMaxOutside
    MaxBundleFaults <- BundleMaxFaults
    CollectionMaxKills <- BundleMaxKills
    Slots = 2
    MaxSinkOutside <- SinkMaxOutside
    MaxSinkFaults <- SinkMaxFaults
    Modes = {"cgroup", "legacy"}
    ContainerMaxFaults = 3
    ContainerMaxOutside = 1
    ContainerMaxKills = 1
    ContainerNames = {"leaf1", "leaf2"}
    MAX_RETIRED_CGROUPS = 2
    LEAF_CREATE_ATTEMPTS = 2
    MaxLeaves = 2
    MaxCgroupFaults = 1
INVARIANTS SourcesAreExact  ContainersAreConfined
PROPERTIES StepsKeepOthers BuildsEnd
CHECK_DEADLOCK FALSE
