-------------------------- MODULE MCStreamConnection --------------------------
(* Finite instances of StreamConnection for TLC.                              *)
EXTENDS StreamConnection, TLC

Symmetry == Permutations(Dispatcher) \cup Permutations(User)
=============================================================================
