SPECIFICATION FairSpec
CONSTANTS
    Requests = {r1, r2}
    Queries = {1}
    Dist <- MCDist
    MaxDist = 1
    Files = {f1}
    Threads = 1
    MaxRuns = 1
    MaxFaults = 0
PROPERTY NoOutdatedHit
CHECK_DEADLOCK FALSE
