SPECIFICATION Spec
CONSTANTS
  Requests = {r1}
  Lengths = {1}
  MaxBytes = 2
  MaxPending = 2
  BufferLimit = 2
  Workers = 1
INVARIANT StoresWhatWasSent
CHECK_DEADLOCK FALSE
