SPECIFICATION Spec
CONSTANTS
    Pods = {p1}
    Sessions = {s1}
    Exchanges = {e1, e2}
    Backends = {"cassandra"}
    MaxTime = 1
    MaxCrashes = 0
INVARIANT TwoRowsPerExchange
CHECK_DEADLOCK FALSE
