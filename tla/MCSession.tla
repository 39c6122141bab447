------------------------------- MODULE MCSession -------------------------------
(* Finite instances of Session for TLC.                                        *)
EXTENDS Session, TLC

Symmetry == Permutations(User) \cup Permutations(Connection \ WriteOnly)
=============================================================================
