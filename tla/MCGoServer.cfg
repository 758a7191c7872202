\* A server with two handlers for one method, two messages, one place in the queue.
SPECIFICATION LiveServerSpec
CONSTANTS
  m1 = m1
  m2 = m2
  h1 = h1
  h2 = h2
  create = create
  NoHandler = NoHandler
  Workers = {srv}
  Server = srv
  Messages = {m1, m2}
  Requests = {m1, m2}
  Callers = {}
  Methods = {create}
  Handlers = {h1, h2}
  MethodOf <- MCMethodOf
  Decodes <- MCDecodes
  Target <- MCTarget
  Signature <- MCSignature
  MaxBatch = 2
  Concurrency = 2
  BufferSize = 1
  MaxExiting = 1
CHECK_DEADLOCK FALSE
INVARIANTS ExitDrains ServedOnce NoStaleHandler
PROPERTIES SignalExits RegisterReturns
