SPECIFICATION Spec
CONSTANTS
    A = A
    B = B
    C = C
    Rel = {A, B, C}
    Pipelines <- WithProduct
    Sizes <- WithProductSizes
    MinBlocks = 2
    Garbage = 7
INVARIANT
    NewIsComplete
