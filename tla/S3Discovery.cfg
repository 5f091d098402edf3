SPECIFICATION FairSpec
CONSTANTS
    a = a
    b = b
    all = all
    j1 = j1
    j2 = j2
    NoEnvelope = NoEnvelope
    Instances = {a, b}
    JobIds = {j1}
    Globs = {all}
    GlobMatch <- MCGlobMatch
    Preloaded <- EmptyBuckets
    Requests <- ExactRequests
    Calls = {"add"}
    Faults = {}
    RetryInterval = 1
    MaxTime = 3
    MaxRound = 1
    MaxCalls = 1
    MaxFaults = 0
PROPERTY StoredJobRuns
CHECK_DEADLOCK FALSE
