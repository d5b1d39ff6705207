SPECIFICATION FairSpec
CONSTANTS
    Conns = {c1}
    Posts = {p1, p2}
    Workers = 2
    MaxMsgs <- TwoMessages
    MaxChunks = 3
INVARIANTS GettersHaveProducers StreamsIntact CompletedIsRemembered
PROPERTIES HandlersProceed ThreadsComeBack
CHECK_DEADLOCK FALSE
