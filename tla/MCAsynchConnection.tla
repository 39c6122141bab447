-------------------------- MODULE MCAsynchConnection --------------------------
(* Finite instances of AsynchConnection for TLC.                              *)
EXTENDS AsynchConnection, TLC

Symmetry == Permutations(Dispatcher) \cup Permutations(User)
=============================================================================
