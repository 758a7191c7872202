\* One worker, one caller of stop, and a queue with no room for every message.
SPECIFICATION LiveSpec
CONSTANTS
  Workers = {w1}
  Messages = {m1, m2, m3}
  Callers = {c1}
  MaxBatch = 2
  Concurrency = 2
  BufferSize = 2
  Nobody = Nobody
CHECK_DEADLOCK FALSE
INVARIANTS ConcurrencyBound WorkerDrains NoLostWakeup
PROPERTIES ImplementsCustody ShutdownCompletes EventuallySettled
