SPECIFICATION Spec
CONSTANTS
    Rel = {1, 2, 3}
    Programs <- AllPrograms
INVARIANTS
    ComponentsBottomUp
    RulesPartitioned
    RunnerAssumption
