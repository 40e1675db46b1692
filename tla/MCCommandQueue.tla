--------------------------- MODULE MCCommandQueue ---------------------------
(* Small instances of CommandQueue for TLC.                                *)
EXTENDS CommandQueue, TLC

CONSTANTS t1, t2

\* The callers are interchangeable.
Symmetry == Permutations(Threads)
=============================================================================
