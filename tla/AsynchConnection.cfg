SPECIFICATION FairSpec
CONSTANTS
  Dispatcher = {d1, d2}
  User = {u1}
  MaxSends = 2
  MaxParts = 2
INVARIANTS TypeOK ReferencesExact UseAfterFreeConfined CounterExact ReaderAlive SessionPaired
PROPERTIES IdleReturns ClosedIsReclaimed
CHECK_DEADLOCK FALSE
