SPECIFICATION Spec
CONSTANTS
    a = a
    b = b
    all = all
    j1 = j1
    j2 = j2
    NoEnvelope = NoEnvelope
    Instances = {a, b}
    JobIds = {j1}
    Globs = {all}
    GlobMatch <- MCGlobMatch
    Preloaded <- SharedBuckets
    Requests <- BroadcastRequests
    Calls = {"add", "replace", "modify", "pause", "resume", "reschedule", "remove", "remove_all"}
    Faults = {"crash", "fetch"}
    RetryInterval = 1
    MaxTime = 3
    MaxRound = 1
    MaxCalls = 1
    MaxFaults = 1
INVARIANTS TypeOK NoFireSkipped NeverOversleeps CreatorRemovesForGood
PROPERTIES BroadcastIntervalOnce ReceiptOfRun
CHECK_DEADLOCK FALSE
