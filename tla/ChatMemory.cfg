SPECIFICATION Spec
CONSTANTS
    Pods = {p1, p2}
    Sessions = {s1, s2}
    Exchanges = {e1, e2, e3}
    Backends = {"cassandra", "memory"}
    MaxTime = 1
    MaxCrashes = 1
SYMMETRY Symmetry
INVARIANTS TypeOK AnswersSurvive SessionsMatchMessages LocalReadsInOrder ListedUnlessCrowdedOut
PROPERTY LocalRefinesLog
CHECK_DEADLOCK FALSE
