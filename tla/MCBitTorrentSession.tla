------------------------ MODULE MCBitTorrentSession ------------------------
(* Instances of BitTorrentSession for TLC.                                 *)
EXTENDS BitTorrentSession

CONSTANTS p1, p2, \* peers
          c2      \* the connection to the second peer

MCPeerOf == [c \in Connection |-> IF c = c2 THEN p2 ELSE p1]

\* The first peer gets its second piece later, the other one has a piece only.
MCFirst == [p \in Peer |-> {1}]
MCHas == [p \in Peer |-> IF p = p1 THEN {1, 2} ELSE {1}]
=============================================================================
