SPECIFICATION FairSpec
CONSTANTS
    a = a
    b = b
    all = all
    j1 = j1
    j2 = j2
    NoEnvelope = NoEnvelope
    Instances = {a}
    JobIds = {j1, j2}
    Globs = {all}
    GlobMatch <- MCGlobMatch
    Preloaded <- TwoJobBuckets
    Requests <- OnceRequests
    Calls = {"replace", "add", "pause", "modify", "resume", "reschedule", "remove"}
    Faults = {"crash", "fetch", "restore", "save", "executor"}
    RetryInterval = 0
    MaxTime = 3
    MaxRound = 1
    MaxCalls = 1
    MaxFaults = 1
INVARIANT NoFireSkipped
PROPERTIES KnownJobRuns BroadcastIntervalOnce
CHECK_DEADLOCK FALSE
