SPECIFICATION Spec
CONSTANTS
    NUrbs = 2
    Kinds = {"in"}
    MaxActive = 2
    MaxTroubles = 0
    MaxControlTroubles = 0
INVARIANT GhostsAreCancelled
CHECK_DEADLOCK FALSE
