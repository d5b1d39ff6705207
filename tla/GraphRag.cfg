SPECIFICATION FairRag
CONSTANTS
    s1 = s1
    s2 = s2
    l1 = l1
    l2 = l2
    r1 = r1
    r2 = r2
    Sections = {s1, s2}
    Refers <- MCRefers
    MaxPieces = 2
    Pieces <- MCPieces
    Limit = 2
    Batch = 1
    Loads = {l1, l2}
    Runs = {r1, r2}
    Root = s1
    MaxNeighbours = 1
INVARIANTS SyncedAreCurrent OnlyTailsAreOld
PROPERTIES CopiesLag SyncEnds ErrorsHaveCause
CONSTRAINT Bound
