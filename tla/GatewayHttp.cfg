SPECIFICATION FairSpec
CONSTANTS
    r1 = r1
    r2 = r2
    r3 = r3
    r4 = r4
    c1 = c1
    c2 = c2
    NoOne = NoOne
    Requests = {r1, r2, r3, r4}
    Route <- MCRoute
    Upstream <- MCUpstream
    Public = {r3, r4}
    Conns = {c1, c2}
    RateLimit = 1
INVARIANTS OwnAnswer EffectsMatchAnswers
PROPERTY RequestsAreAnswered
\* All requests may have been answered.
CHECK_DEADLOCK FALSE
