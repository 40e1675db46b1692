SPECIFICATION PowerSpec
CONSTANTS
    MaxSuspends = 3
INVARIANTS
    StopIsFinal
    SyncKeepsGoing
    NoBufferLeak
