\* Two workers and one message: one worker fails, the other goes on.
SPECIFICATION PoolLiveSpec
CONSTANTS
  Workers = {1, 2}
  Messages = {m1}
  Callers = {}
  PoolCallers = {c1}
  MaxBatch = 1
  Concurrency = 1
  BufferSize = 1
  Nobody = Nobody
CHECK_DEADLOCK FALSE
PROPERTY FailureStopsAll
