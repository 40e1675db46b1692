SPECIFICATION Spec
CONSTANTS
    t1 = t1
    t2 = t2
    NoThread = NoThread
    Threads = {t1, t2}
    ElCount = 3
    MaxCalls = 3
INVARIANTS
    NoDanglingResult
    OwnResult
