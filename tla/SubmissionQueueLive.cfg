SPECIFICATION FairSpec
CONSTANTS
    q1 = q1
    q2 = q2
    r1 = r1
    r2 = r2
    NoQueue = NoQueue
    SQs = {q1, q2}
    CQCount = 2
    ElCount <- ElCount2
    CqElCount <- CqElCount2
    CqOf <- OwnCq
    Deferred = {q1}
    Cancelable = {q2}
    Requests = {r1}
    MaxSleepers <- OneSleeper
    MaxFaults = 0
INVARIANT NoLostCompletion
PROPERTY SubmissionsComplete
