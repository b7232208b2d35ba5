SPECIFICATION Spec
CONSTANTS
    Value = {1, 2, 3}
    NumWarps = 2
    GroupSize = 2
    TileSize = 2
    Programs <- MCChains
    Databases <- MCDatabases
INVARIANTS
    MeaningKept
