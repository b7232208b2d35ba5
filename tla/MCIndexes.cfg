CONSTANTS
  Row <- MCRow
  Plans <- MCPlans
  SearchRatio = 1
  CompactRatio = 1
  MaxBatch = 2
SPECIFICATION Spec
INVARIANTS IndexesAgree NoRowTwice
PROPERTY ImplementsContract
CHECK_DEADLOCK FALSE
