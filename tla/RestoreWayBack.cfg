CONSTANTS
    Paths <- MCPaths
    Tops <- MCTops
    Top <- MCTop
    Archive <- MCArchive
    MaxOps = 3
    MaxFaults = 1
    MaxEdits = 0
SPECIFICATION Spec
INVARIANT WayBackStands
CHECK_DEADLOCK FALSE
