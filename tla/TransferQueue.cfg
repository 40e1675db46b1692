SPECIFICATION Spec
CONSTANTS
    NUrbs = 2
    Kinds = {"in", "out", "control"}
    MaxActive = 2
    MaxTroubles = 2
    MaxControlTroubles = 1
INVARIANTS
    SlotsAccounted
    StoppedHasReason
    WorkIsOwed
    QuietWhenIdle
PROPERTY KeepsContract
CHECK_DEADLOCK FALSE
