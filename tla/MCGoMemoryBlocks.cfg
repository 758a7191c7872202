\* Two publishers with three messages, one consumer, two places, no Clear.
SPECIFICATION Spec
CONSTANTS
  p1 = p1
  p2 = p2
  m1 = m1
  m2 = m2
  m3 = m3
  NoOne = NoOne
  Publishers = {p1, p2}
  Payload <- MCPayload
  Consumers = {c1}
  Clearers = {}
  MaxBatch = 2
  BufferSize = 2
CHECK_DEADLOCK FALSE
INVARIANT PublishNeverBlocks
