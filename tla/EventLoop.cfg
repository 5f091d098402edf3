SPECIFICATION Spec
CONSTANTS
    j1 = j1
    j2 = j2
    JobIds = {j1, j2}
    TriggerOf <- MCTriggerOf
    Persistent = FALSE
    MaxTime = 2
    MaxStarts = 2
    MaxCalls = 4
INVARIANTS TypeOK TimerCovers StaysShutInMemory
CHECK_DEADLOCK FALSE
