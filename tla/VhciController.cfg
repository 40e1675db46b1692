SPECIFICATION MCSpec
CONSTANTS
    NPorts = 2
    NDevIds = 3
    NObjs = 3
    Bulk = {1}
    MaxFailures = 2
    MaxIncidents = 2
INVARIANTS
    MappingIsSound
    ReenumerationIsNoticed
    CancelledIsReenumerated
    SuspendPauseIsLifted
    NoWorkLeft
    WatchdogIsKept
