SPECIFICATION Spec
CONSTANTS
    Requests = {r1, r2, r3}
    Queries = {1, 2, 3}
    Dist <- MCDist
    MaxDist = 1
    Files = {}
    Threads = 2
    MaxRuns = 0
    MaxFaults = 1
SYMMETRY Symmetry
INVARIANTS NoSimilarityDrift PermanentKeysNeedFaults
CHECK_DEADLOCK FALSE
