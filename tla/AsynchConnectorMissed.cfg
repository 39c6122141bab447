SPECIFICATION Spec
CONSTANTS
  c1 = c1
  Caller = {c1}
  Dispatcher = {d1}
  Connection = {k1}
  MaxHandle = 2
  Retries <- MCNoRetries
  MaxCalls = 1
  None = None
INVARIANT WaitSeesResult
CHECK_DEADLOCK FALSE
