SPECIFICATION FairSpec
CONSTANTS
    j1 = j1
    j2 = j2
    JobIds = {j1, j2}
    TriggerOf <- MCTriggerOf
    Callers = {}
    Persistent = FALSE
    MaxTime = 2
    MaxStarts = 2
    MaxCalls = 2
INVARIANTS TypeOK NeverOversleeps LoopLives LostOnlyAfterRestart
PROPERTY ShutdownReturns
CHECK_DEADLOCK FALSE
