SPECIFICATION MCSpec
CONSTANTS
    engine = engine
    dsh = dsh
    c1 = c1
    c2 = c2
    NoJob = NoJob
    NoPost = NoPost
    Sources <- OneSource
    MaxEvents = 3
    MaxBatch = 2
    MaxTries = 1
    OwnIds = {TRUE}
    Clients <- TwoClients
    MaxClients = 1
    RingSize = 2
    QueueSize = 1
    QueryLimit = 3
    MaxRestarts = 0
INVARIANT StreamsHaveNoGaps
INVARIANT SeqsNeverReused
INVARIANT AcknowledgedIsStored
SYMMETRY Symmetry
CHECK_DEADLOCK FALSE
