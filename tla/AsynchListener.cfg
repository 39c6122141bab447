SPECIFICATION FairSpec
CONSTANTS
  Client = {c1, c2}
  Dispatcher = {d1, d2}
  Backlog = 2
  MaxStarts = 2
  MaxFaults = 1
  None = None
INVARIANTS PoolKept SocketsOwned
PROPERTY PeersServed
CHECK_DEADLOCK FALSE
