SPECIFICATION FairSpec
CONSTANTS
    j1 = j1
    j2 = j2
    f1 = f1
    f2 = f2
    JobIds = {j1, j2}
    MaxInstances <- MCMaxInstances
    Coroutines = {j2}
    Futures = {f1, f2, f3}
    Submissions <- MCSubmissions
    RunTimes <- MCRunTimes
    Workers = 2
    Free = Free
INVARIANTS TypeOK CounterExact InstancesBounded HeardWhenOver
PROPERTIES SlotsComeBack EveryRunHeard
CHECK_DEADLOCK FALSE
