\* Four clients, two services of one worker each behind the one dispatcher; calls fail, Stop may come.
CONSTANTS
    c1 = c1
    c2 = c2
    c3 = c3
    c4 = c4
    s1 = s1
    s2 = s2
    w1 = w1
    w2 = w2
    None = None
    Conns = {c1, c2, c3, c4}
    Services = {s1, s2}
    Workers = {w1, w2}
    Pool <- TwoServicesOneWorkerEach
    StopOrder <- TwoServicesOrder
    Target <- OnlyLastElsewhere
    Asks <- GetsOnly
    MaxMsgs <- FirstAndLastAsk
    MaxCuts <- NoCuts
    Backlog = 1
    PipeCap = 1
    MayFail = {"acceptor", "parser", "crash", "hang"}
    MayLeave = {}
    MayStop = TRUE
SPECIFICATION FairSpec
INVARIANTS NoHandoffToStoppedWorker
PROPERTIES EveryClientServed RequestAnswered StopEnds
CHECK_DEADLOCK FALSE
