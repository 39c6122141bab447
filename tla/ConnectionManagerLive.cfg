SPECIFICATION FairSpec
CONSTANTS
  Connection = {c1, c2}
  Thread = {t1}
  WriteOnly = {c2}
  Address = {a1, a2}
  a1 = a1
  a2 = a2
  c1 = c1
  AddressOf <- MCAddressOf
  Maximum = 2
  None = None
PROPERTIES AbortCompletes WaitCompletes ClosedIsReclaimed
CHECK_DEADLOCK FALSE
