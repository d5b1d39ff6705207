SPECIFICATION Spec
CONSTANTS
    Pods = {p1}
    Sessions = {s1, s2}
    Exchanges = {e1, e2}
    Backends = {"memory"}
    MaxTime = 1
    MaxCrashes = 0
INVARIANT MostRecentlyUpdatedFirst
CHECK_DEADLOCK FALSE
