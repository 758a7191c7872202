\* The same instance, for what the test and the README say of a cancellation.
SPECIFICATION Spec
CONSTANTS
  Workers = {w1}
  Messages = {m1, m2, m3}
  Callers = {c1}
  MaxBatch = 2
  Concurrency = 2
  BufferSize = 2
CHECK_DEADLOCK FALSE
INVARIANT DrainsInFlight
