\* Two workers under a pool and one message, one goroutine that calls Stop.
SPECIFICATION PoolLiveSpec
CONSTANTS
  Workers = {w1, w2}
  Messages = {m1}
  Callers = {}
  PoolCallers = {c1}
  MaxBatch = 1
  Concurrency = 1
  BufferSize = 1
  MaxExiting = 1
CHECK_DEADLOCK FALSE
INVARIANTS PoolDrains CleanStop Conservation LossNeedsCause
PROPERTIES ErrorStopsPool PoolStopReturns PoolCancelReturns
