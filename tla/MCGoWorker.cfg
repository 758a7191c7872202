\* One worker with two slots, two callers of Stop, no room in the queue for every message.
SPECIFICATION LiveSpec
CONSTANTS
  Workers = {w1}
  Messages = {m1, m2, m3}
  Callers = {c1, c2}
  MaxBatch = 2
  Concurrency = 2
  BufferSize = 2
  MaxExiting = 1
CHECK_DEADLOCK FALSE
INVARIANTS ConcurrencyBound StopDrains
PROPERTIES ImplementsDelivery ImplementsCustody StopReturns EventuallySettled
