SPECIFICATION FairSpec
CONSTANTS
  Opener = opener
  Dispatcher = {d1, d2}
  User = {u1}
  MaxSends = 2
  MaxParts = 1
  None = None
INVARIANTS TypeOK ReferencesExact UseAfterFreeConfined InOrder SessionPaired
PROPERTIES Written OnlyErrorsKeep
CHECK_DEADLOCK FALSE
