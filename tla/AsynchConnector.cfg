SPECIFICATION FairSpec
CONSTANTS
  c1 = c1
  Caller = {c1, c2}
  Dispatcher = {d1}
  Connection = {k1}
  MaxHandle = 2
  Retries <- MCRetries
  MaxCalls = 2
  None = None
INVARIANT SocketsOwned
PROPERTY OnlyStreamWaitBlocks
CHECK_DEADLOCK FALSE
