SPECIFICATION Spec
CONSTANTS
  Connection = {c1, c2}
  Thread = {t1}
  WriteOnly = {}
  Address = {a1, a2}
  a1 = a1
  a2 = a2
  c1 = c1
  AddressOf <- MCAddressOf
  Maximum = 1
  None = None
INVARIANT FailedOpenIsReleased
CHECK_DEADLOCK FALSE
