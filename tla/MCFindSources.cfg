SPECIFICATION Spec
CONSTANTS
    engine = engine
    dsh = dsh
    c1 = c1
    c2 = c2
    NoJob = NoJob
    NoPost = NoPost
    Sources <- TwoSources
    MaxEvents = 2
    MaxBatch = 1
    MaxTries = 1
    OwnIds = {TRUE}
    Clients <- NoClients
    MaxClients = 1
    RingSize = 1
    QueueSize = 1
    QueryLimit = 1
    MaxRestarts = 0
INVARIANT EverySourceHeard
CHECK_DEADLOCK FALSE
