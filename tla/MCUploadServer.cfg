SPECIFICATION FairSpec
CONSTANTS
  Requests = {r1, r2, r3}
  Lengths = {0, 1, 2, 3}
  MaxBytes = 2
  MaxPending = 2
  BufferLimit = 3
  Workers = 2
INVARIANTS TypeOK CountersExact MemoryBounded
PROPERTY CapacityReturns
CHECK_DEADLOCK FALSE
