------------------------- MODULE MCVhciCommandQueue -------------------------
(* A small instance of VhciCommandQueue for TLC.                           *)
EXTENDS VhciCommandQueue

CONSTANTS t1, t2, a, b
=============================================================================
