--------------------------- MODULE MCAsynchConnector ---------------------------
(* Finite instances of AsynchConnector for TLC.                               *)
EXTENDS AsynchConnector, TLC

CONSTANT c1  \* a caller

\* One caller may repeat its attempt, the others not.
MCRetries == [c \in Caller |-> IF c = c1 THEN 1 ELSE 0]

\* Nobody repeats anything.
MCNoRetries == [c \in Caller |-> 0]

Symmetry == Permutations(Caller \ {c1}) \cup Permutations(Dispatcher)
              \cup Permutations(Connection)
=============================================================================
