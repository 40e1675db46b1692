SPECIFICATION Spec
CONSTANTS
    q1 = q1
    q2 = q2
    r1 = r1
    r2 = r2
    NoQueue = NoQueue
    SQs = {q1}
    CQCount = 1
    ElCount <- ElCount3
    CqElCount <- CqElCount3
    CqOf <- OneCq
    Deferred = {q1}
    Cancelable = {}
    Requests = {r1, r2}
    MaxSleepers <- OneSleeper
    MaxFaults = 1
INVARIANTS
    TypeOK
    SlotAccounting
    RingOrder
    ResultMatchesRequest
    NoSleepWithFreeSlot
