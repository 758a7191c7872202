\* One worker is enough for the race between errCh and doneCh.
SPECIFICATION PoolSpec
CONSTANTS
  Workers = {w1}
  Messages = {m1}
  Callers = {}
  PoolCallers = {}
  MaxBatch = 1
  Concurrency = 1
  BufferSize = 1
  MaxExiting = 1
CHECK_DEADLOCK FALSE
INVARIANT PoolReportsError
