SPECIFICATION Spec
CONSTANTS
    Value = {0, 1, 2, 3}
    Programs <- MCPrograms
INVARIANTS
    ResultIsModel
    PipelineExact
    SourcesAreCurrent
CHECK_DEADLOCK FALSE
