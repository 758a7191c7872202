\* A call over HTTP and a batch, a consumer, one Clear, two places.
SPECIFICATION LivePublishSpec
CONSTANTS
  p1 = p1
  p2 = p2
  m1 = m1
  m2 = m2
  m3 = m3
  NoOne = NoOne
  Publishers = {p1, p2}
  Payload <- MCPayload
  Requests <- MCRequests
  Consumers = {c1}
  Clearers = {k1}
  MaxBatch = 2
  BufferSize = 2
CHECK_DEADLOCK FALSE
INVARIANTS AnswerIsTrue Conservation ClearIsFinal Routed
PROPERTY MutexReleased
