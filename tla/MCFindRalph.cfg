SPECIFICATION MCSpec
CONSTANTS
    Procs = {"p1", "p2"}
    Configs <- MCConfigs
    MaxWall = 0
    MaxCost = 0
    MaxResumes = 0
    MaxDeaths = 0
    Texts = {"a", "b", "c"}
    Big = {"c"}
    Stub = "stub"
    Filler = "filler"
    Objective = "objective"
    Sim <- MCSim
    Marks = {6}
    Configured = 2
    Threshold = 8
    Needed = 2
    MaxRounds = 3
INVARIANT FailedRoundFailsRun
