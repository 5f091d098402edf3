SPECIFICATION FairSpec
CONSTANTS
    j1 = j1
    j2 = j2
    JobIds = {j1}
    TriggerOf <- MCTriggerOf
    Callers = {j1}
    Persistent = TRUE
    MaxTime = 1
    MaxStarts = 1
    MaxCalls = 1
PROPERTY ShutdownReturns
CHECK_DEADLOCK FALSE
