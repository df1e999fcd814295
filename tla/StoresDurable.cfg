SPECIFICATION Spec
CONSTANTS
    Subjects = {"migration"}
    p1 = p1
    p2 = p2
    x = x
    y = y
    None = None
    Package <- MCPackage
    Asset <- MCAsset
    Files <- MCFiles
    MaxDamage <- MCMaxDamage
    MaxStates <- MCMaxStates
    f1 = f1
    f2 = f2
    f3 = f3
    o1 = o1
    o2 = o2
    Outside <- MCOutside
    Task <- MCTwoTasks
    MaxAttempts <- MCMaxAttempts
    MaxRot <- MCMaxRot
    MaxId = 2
    Transitions = {t1, t2}
    Packages = {p}
    Texts = {a, b}
    MaxMoves = 4
    MaxFaults = 1
    Threads <- ReadsThreads
    Kinds <- ReadsKinds
    Tables <- ReadsTables
    MaxRows = 2
    MaxBytes = 3
    MaxReadsFaults <- ReadsMaxFaults
    MaxWrites <- ReadsMaxWrites
    MaxReads <- ReadsMaxReads
    Procs = {"p"}
    Langs <- TwoLangs
    MaxInodes = 5
    MaxVer = 12
    MaxOps <- SlotMaxOps
    DeclarationMaxFaults <- SlotMaxFaults
    MaxOutside <- SlotMaxOutside
    MaxCrashes <- SlotMaxCrashes
    Foreign <- SlotForeign
    States = {s1, s2}
    Sources = {a, b}
    MaxMigrationCrashes = 1
    MaxDrifts = 1
    MaxMigrationOps = 4
INVARIANT RowIsDurable
CHECK_DEADLOCK FALSE
