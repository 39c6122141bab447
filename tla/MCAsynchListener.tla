--------------------------- MODULE MCAsynchListener ---------------------------
(* Finite instances of AsynchListener for TLC.                               *)
EXTENDS AsynchListener, TLC
=============================================================================
