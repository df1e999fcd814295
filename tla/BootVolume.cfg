SPECIFICATION Spec
CONSTANTS
    Subjects = {"files", "commit", "leaf", "leafmoves", "plan", "options", "inputs", "race", "sandwich", "roots", "rootmoves"}
    Plan <- MCPlan
    FilesContents <- MCContents
    Wanted <- MCWanted
    FirstImage <- MCFirstImage
    MaxRounds = 2
    MaxOutside = 1
    MaxStops = 2
    None = None
    CommitOutputs <- TwoOutputs
    MaxFaults = 1
    MaxCommitOutside = 2
    Top = "top"
    Outer <- LeafOuter
    Inner <- LeafInner
    LeafFiles <- LeafNodes
    MaxLeafMoves <- LeafMoves
    MaxLeafFaults <- LeafFaults
    PlanStates <- TwoStates
    Pool <- PlanPool
    LocalPool <- PlanLocalPool
    Schemas <- PlanSchemas
    MaxKernels <- PlanMaxKernels
    MaxTokens <- PlanMaxTokens
    MaxTotalTokens <- PlanMaxTotalTokens
    MaxInitrds <- PlanMaxInitrds
    MaxPublications = 12
    Empty = 0
    Other = 7
    HeadId = 5
    InitrdNames = {"s.initrd"}
    CmdlineNames = {"g.cmdline", "k.cmdline"}
    LibNames = {"lib", "lib64"}
    MaxHistory = 2
    MaxHops = 2
    Length <- Lengths
    RoleLimit <- InputsLimits
    Databases <- InputsDatabases
    Catalogs <- InputsCatalogs
    MaxPackages = 2
    MaxInputsKernels <- InputsMaxKernels
    MaxAssets <- InputsMaxAssets
    MaxDigests <- InputsMaxDigests
    MaxDescriptors <- InputsMaxDescriptors
    MaxAssetBytes = 6
    MaxTotalBytes <- InputsMaxTotalBytes
    MaxReferenced <- InputsMaxReferenced
    MaxControl <- InputsMaxControl
    PlanningMaxOutside <- InputsMaxOutside
    Trees = {"h", "a", "b", "d"}
    Token <- TokenOf
    StateOf <- PlanningStates
    Places <- PlanningStart
    Projected <- Three
    Requirements <- Needs
    Infos <- InfoDocs
    MaxFlaws <- RootsMaxFlaws
    Rewritable <- RootsRewritable
    Reshapable <- RootsReshapable
    MaxRootsOutside <- RootsMaxOutside
INVARIANTS PublicationIsKept PlansAreTrue
PROPERTIES PublicationIsOrdered PublicationSettles
CHECK_DEADLOCK FALSE
