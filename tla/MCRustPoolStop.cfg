\* One worker with one message in flight, and one task that calls stop.
SPECIFICATION PoolLiveSpec
CONSTANTS
  Workers = {1}
  Messages = {m1}
  Pool = Pool
  PoolCallers = {c1}
  Callers = {c1, Pool}
  MaxBatch = 1
  Concurrency = 1
  BufferSize = 1
CHECK_DEADLOCK FALSE
PROPERTY DrainsOnShutdown
