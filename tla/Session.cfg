SPECIFICATION FairSpec
CONSTANTS
  Opener = {u1}
  Closer = {u2}
  Connection = {k1, k2}
  MaxHandle = 2
  WriteOnly = {k1}
  None = None
INVARIANTS TypeOK AssertionsConfined
PROPERTIES CloseReturns WaitReturns
CHECK_DEADLOCK FALSE
