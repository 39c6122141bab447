SPECIFICATION Spec
CONSTANTS
  Connection = {c1, c2}
  Thread = {t1, t2}
  WriteOnly = {c2}
  Address = {a1, a2}
  a1 = a1
  a2 = a2
  c1 = c1
  AddressOf <- MCAddressOf
  Maximum = 1
  None = None
SYMMETRY Symmetry
INVARIANTS TypeOK ReferencesExact UseAfterFreeConfined ListBounded NoLostWakeup
PROPERTIES NoResurrection ImplementsRegistry
CHECK_DEADLOCK FALSE
