SPECIFICATION MCSpec
CONSTANTS
    c1 = c1
    c2 = c2
    a1 = a1
    a2 = a2
    Calls = {c1, c2}
    DegradedAt = 2
    FailedAt = 3
    MaxRetries = 1
    MaxBoots = 0
    LoggedCalls = {"k1", "k2", "k3"}
    Attempts = {1, 2}
    Archivers = {a1, a2}
    Archived = {1, 2, 3}
    ProjectOf <- MCProjectOf
    Keep = 1
    MaxClock = 0
    PatternIds = {"i1", "i2"}
    Writers = {"w1", "w2"}
    RalphRuns = {"r1"}
    Namespaces = {"n1"}
    Scores = {0, 1}
    Limit = 1
    Cap = 1
    Configs <- MCConfigs
    Corpus <- MCCorpus
    Checked = {"t1"}
    Reps = 1
    DoneThreshold = 2
    MaxLives = 0
    Walk <- MCWalk
    Rules <- MCRules
    Contents <- MCContents
    Size <- MCSize
    Budget = 3
    MaxTicks = 0
    MapEdits = 0
INVARIANT EveryCallLogged
CHECK_DEADLOCK FALSE
