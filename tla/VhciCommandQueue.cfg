SPECIFICATION FairSpec
CONSTANTS
    t1 = t1
    t2 = t2
    a = a
    b = b
    NoThread = NoThread
    NoCmd = NoCmd
    Threads = {t1, t2}
    Cmds = {a, b}
    QueueSlots = 1
    MaxCalls = 3
INVARIANTS
    NoDanglingResult
    NoUninitialisedReply
    ForeignReplyNeedsFailure
PROPERTY CallsReturn
