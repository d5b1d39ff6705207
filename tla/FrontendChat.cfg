CONSTANTS
    Sessions = {s1, s2, s3}
    NoSession = NoSession
    Old = {s1}
    Page = 1
    MaxAsked = 2
    MaxLoads = 2
    MaxSockets = 2
SPECIFICATION FairSpec
INVARIANTS TypeOK OneSocket FiledWhereAsked ViewFollowsSession AnswersInPlace
PROPERTIES StreamingEnds
CHECK_DEADLOCK FALSE
