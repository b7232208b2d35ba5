SPECIFICATION Spec
CONSTANTS
    A = A
    B = B
    C = C
    Rel = {A, B, C}
    Pipelines <- Mixed
    Sizes <- MixedSizes
    MinBlocks = 2
    Garbage = 7
INVARIANTS
    ReservedOnce
    NewIsComplete
