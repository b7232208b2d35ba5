SPECIFICATION Spec
CONSTANTS
    Node = {1, 2, 3, 4}
    Relation <- MCRelation
    Fact <- MCFact
    RelOf <- MCRelOf
    Rule <- MCRule
    Body <- MCBody
    Negated <- MCNegated
    Heads <- MCHeads
    Ground <- MCGround
    Strata <- MCStrata
    Access <- MCAccess
    NegAccess <- MCNegAccess
    BlockOrder <- MCBlockOrder
    Files <- MCFiles
    MaxIters = {1, 3, 9}
    MaxRows = 4
INVARIANTS
    ReadsAreCurrent
    CleanMeansCurrent
    ResultInColumns
PROPERTY
    ImplementsTuples
