\* Three clients, one service, two workers; clients leave and calls fail, nobody stops the service.
CONSTANTS
    c1 = c1
    c2 = c2
    c3 = c3
    c4 = c4
    s1 = s1
    s2 = s2
    w1 = w1
    w2 = w2
    None = None
    Conns = {c1, c2, c3}
    Services = {s1}
    Workers = {w1, w2}
    Pool <- OneServiceTwoWorkers
    StopOrder <- OneServiceOrder
    Target <- AnyService
    Asks <- AnyOfFirst
    MaxMsgs <- FirstTwice
    MaxCuts <- FirstIsCut
    Backlog = 2
    PipeCap = 1
    MayFail = {"acceptor", "parser", "crash", "hang"}
    MayLeave = {c1}
    MayStop = FALSE
SPECIFICATION Spec
INVARIANTS TypeOK TokenPerPendingFd OnePlace NoUnaskedReply KnownDeaths
PROPERTIES LifecycleRefined
CHECK_DEADLOCK FALSE
