\* One worker, a parcel of two chunks and bodies of other producers.
SPECIFICATION LiveSqsSpec
CONSTANTS
  b1 = b1
  b2 = b2
  Bodies = {b1, b2}
  Handles = {1, 2}
  Messages <- MCMessages
  Foreign <- MCForeign
  Parcel <- MCParcel
  SendLimit = 1
  ReceiveLimit = 2
  Workers = {w1}
  Callers = {}
  MaxBatch = 2
  Concurrency = 1
  BufferSize = 1
  MaxExiting = 1
CHECK_DEADLOCK FALSE
INVARIANTS PublishContract OverlapNeedsExpiry AgainNeedsExpiry
PROPERTIES ImplementsAtLeastOnce EventuallyRemoved
