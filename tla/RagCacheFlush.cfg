SPECIFICATION FairSpec
CONSTANTS
    Requests = {r1, r2}
    Queries = {1}
    Dist <- MCDist
    MaxDist = 1
    Files = {f1}
    Threads = 2
    MaxRuns = 1
    MaxFaults = 1
INVARIANT OnlyLateStoresAreOutdated
PROPERTY EverythingEnds
CHECK_DEADLOCK FALSE
