CONSTANTS
  GroupSize = 3
  ScanLimit = 2
  Window = 2
  Sentinel = 4
  BlockSize = 1
  SeekWindow = 2
  Spans <- MCSpans
  Sides = {"device", "host"}
  Searches <- MCSearches
SPECIFICATION Spec
INVARIANTS SearchExact FindsCommonOnce PositionsAreFirst
PROPERTY Ends
