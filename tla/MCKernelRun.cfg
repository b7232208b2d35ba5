CONSTANTS
  QueueCapacity = 1
  FanCapacity = 6
  BoardCapacity = 1
  GrabSize = 2
  FanChunk = 2
  FanDegree = 3
  BufferSize = 2
  TableSize = 2
  ProbeLimit = 2
  Junk = Junk
  Warps = {1, 2}
  Capacities = {1, 3, 4}
  Slot <- MCSlot
  HeadOf <- MCHead
  Leads <- MCLeads
  Modes <- MCModes
  ColumnsFor <- MCColumnsFor
SPECIFICATION Spec
INVARIANTS Delivered WorkConserved
PROPERTIES WrittenOnce Ends
