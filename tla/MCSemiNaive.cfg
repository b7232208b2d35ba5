SPECIFICATION FairSpec
CONSTANTS
    Node = {1, 2, 3}
    Relation <- MCRelation
    Fact <- MCFact
    RelOf <- MCRelOf
    Rule <- MCRule
    Body <- MCBody
    Negated <- MCNegated
    Heads <- MCHeads
    Ground <- MCGround
    Strata <- MCStrata
    Files <- MCFiles
    MaxIters <- MCMaxIters
INVARIANTS
    TypeOK
    NothingSkipped
    CompletedClosed
    ResultIsPerfectModel
PROPERTIES
    DeltaIsFresh
    Returns
    Implements
