SPECIFICATION Spec
CONSTANTS
    Ports = {port1, port2}
    Default = port1
    Second = port2
    MaxCalls = 2
    Questions = {"which file?"}
    Adapted = {"adapted_tool"}
    Misfits = {"run_tests"}
    Unknown = {"rm_rf"}
    MaxQueries = 2
    MaxDepth = 2
    MaxRetries = 1
    MaxAsked = 4
    Pids = {p1, p2}
    MaxCommands = 3
    MaxStrangers = 1
    Nil = Nil
    Sizes = {2, 5}
    Vrams = {8, 14, 20, 30}
    Kvs = {2, 9}
    Margin = 2
    PerLayer = 300
    Costs <- MCCosts
    Sessions = {s1, s2}
    MaxEvents = 3
    MaxStreamed = 2
    MaxBreaks = 1
    MaxCancels = 1
INVARIANT HandedUpToCursor
INVARIANT AnswersAreTheModels
INVARIANT AnswersMatchCalls
INVARIANT ServersAreInReach
INVARIANT RecommendedFits
CHECK_DEADLOCK FALSE
