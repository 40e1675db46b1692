SPECIFICATION Spec
CONSTANTS
    ElCount = 6
    Pending = 2
    MaxEvents = 3
    MaxCycles = 2
INVARIANTS
    EventsInOrder
    QuietWhenPaused
    KeepsListening
    RaceNeedsLeftover

