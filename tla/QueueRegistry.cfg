SPECIFICATION Spec
CONSTANTS
    w1 = w1
    w2 = w2
    w3 = w3
    Workers = {w1, w2, w3}
    Qids = {2, 3}
    MaxQueues = 3
SYMMETRY Symmetry
INVARIANTS
    NoUseAfterFree
    NoMisroutedCompletion
