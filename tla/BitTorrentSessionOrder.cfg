SPECIFICATION Spec
CONSTANTS
  Connection = {c1, c2, c3}
  Initial = {c1, c2}
  p1 = p1
  p2 = p2
  c2 = c2
  Peer = {p1, p2}
  PeerOf <- MCPeerOf
  Piece = {1, 2}
  Block = {1}
  First <- MCFirst
  Has <- MCHas
  MaxPerPeer = 2
  MaxFaults = 1
  None = None
INVARIANT HandshakeFirst
CHECK_DEADLOCK FALSE
