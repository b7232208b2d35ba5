SPECIFICATION Spec
CONSTANTS
    Key = {1, 2, 3, 4}
    Bound = 2
    Spec2 = {"by_node"}
    Programs <- MCPrograms
    Problems <- MCProblems
INVARIANTS
    ResultIsLeastFixpoint
PROPERTIES
    Terminates
    Implements
