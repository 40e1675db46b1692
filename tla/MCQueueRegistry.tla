--------------------------- MODULE MCQueueRegistry ---------------------------
(* Small instances of QueueRegistry for TLC.                               *)
EXTENDS QueueRegistry, TLC

CONSTANTS w1, w2, w3

\* The workers are interchangeable.
Symmetry == Permutations(Workers)
=============================================================================
