SPECIFICATION Spec
CONSTANTS
    Subjects = {"context", "mountinfo", "mountedits", "block", "blockedits", "identity", "pair", "gpt", "gptedits", "gptmoves"}
    None = None
    Namespaces = {n1, n2}
    Roots = {r1, r2}
    Parents <- MCParents
    Leaves <- MCLeaves
    MaxMoves = 2
    MaxPivots = 2
    MaxOperations = 3
    Tables <- MountinfoTables
    Selectors <- MountinfoSelectors
    Damage <- MountinfoDamage
    MaxEdits <- MountinfoMaxEdits
    max_lines = 2
    max_fields_per_line = 17
    max_total_fields = 32
    max_options = 17
    MaxU64 = 31
    MaxU32 = 15
    MAX_SELECTOR_COMPONENTS = 2
    Partitions <- BlockPartitions
    Disks <- BlockDisks
    Links <- BlockLinks
    Subsystems <- BlockSubsystems
    DeviceDamage <- BlockDamage
    DeviceMaxEdits <- BlockMaxEdits
    DeviceMaxU32 = 15
    DeviceMaxU64 = 31
    MaxLines = 8
    MaxComponents = 5
    SysfsPartitions <- IdentityPartitions
    Shapes <- IdentityShapes
    Sequences <- IdentitySequences
    Sizes <- IdentitySizes
    DeviceMaxMoves <- IdentityMaxMoves
    BlockEntries = 2
    MIN_GPT_ENTRIES = 2
    MAX_GPT_ENTRIES = 4
    Roles = {"esp", "xbootldr"}
    Images <- GptImages
    Expected <- GptExpected
    Attachments <- GptAttachments
    Writes <- MCWrites
    GptEdits <- MCEdits
    SECTORS = 2
    MaxGptEdits <- GptMaxEdits
    MaxGptMoves <- GptMaxMoves
SYMMETRY Interchangeable
INVARIANTS MountsWereCurrent DevicesWereTrue
CHECK_DEADLOCK FALSE
