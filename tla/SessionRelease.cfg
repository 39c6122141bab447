SPECIFICATION Spec
CONSTANTS
  Opener = {u1}
  Closer = {u1}
  Connection = {k1, k2}
  MaxHandle = 2
  WriteOnly = {}
  None = None
INVARIANT ReleasedSafely
CHECK_DEADLOCK FALSE
