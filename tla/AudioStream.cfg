CONSTANTS
    stream = stream
    pm = pm
    Jacks = {j1}
    Callers = {stream, pm, j1}
    TagCount = 2
    ElementCount = 2
    None = None
    MaxCommands = 3
    MaxIncidents = 2
SPECIFICATION Spec
CHECK_DEADLOCK FALSE
INVARIANTS
    NoDanglingEntry
    LateByALap
    TimestampOfThisRun
    IoFollowsStarted
    PeriodTimerRuns
    JackIsCurrent
