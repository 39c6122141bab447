------------------------ MODULE MCConnectionManager ------------------------
(* Instances of ConnectionManager for TLC.                                 *)
EXTENDS ConnectionRegistry, TLC

CONSTANTS a1, a2, \* addresses
          c1      \* the connection that has an address of its own

MCAddressOf == [c \in Connection |-> IF c = c1 THEN a1 ELSE a2]

\* All connections to one peer.
OneAddress == [c \in Connection |-> a1]

Symmetry == Permutations(Thread)
=============================================================================
