SPECIFICATION Spec
CONSTANTS
    Value = {1, 2, 3}
    NumWarps = 2
    GroupSize = 2
    TileSize = 2
    Programs <- MCPrograms
    Databases <- MCDatabases
INVARIANTS
    MeaningKept
    EachMatchOnce
    CountsMatchWrites
    PlannedIndexRead
    RefusedForCause
