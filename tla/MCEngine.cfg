SPECIFICATION MCSpec
CONSTANTS
    Plans <- EngPlans
    MaxRetriesGenerate = 2
    MaxRetriesTest = 2
    MaxRetriesCommit = 1
    MaxReplansPerTask = 2
    MaxLlmCalls = 6
    SideCalls = 1
    Runs = 2
    Items = {"a", "b", "c"}
    NewFiles = {"a", "b"}
    Settings <- RepoSettings
INVARIANTS
    SuccessIsEarned
    BudgetOvershootBounded
    StopBlocksStages
    ClaimedIsPublished
PROPERTIES
    ImplementsContract
    ClaimedWorkStays
    MainStaysClean
    AllRunsEnd
