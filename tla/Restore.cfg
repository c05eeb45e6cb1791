CONSTANTS
    Paths <- MCPaths
    Tops <- MCTops
    Top <- MCTop
    Archive <- MCArchive
    MaxOps = 3
    MaxFaults = 1
    MaxEdits = 1
SPECIFICATION Spec
INVARIANT
    NeverWithoutCopy
PROPERTIES
    CopyBeforeLoss
    DeletesOnlyShown
    AppliedIsApplied
CHECK_DEADLOCK FALSE
