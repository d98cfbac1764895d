SPECIFICATION MCSpec
CONSTANTS
    Procs = {"p1", "p2"}
    Configs <- MCConfigs
    MaxWall = 2
    MaxCost = 1
    MaxResumes = 2
    MaxDeaths = 1
    Texts = {"a", "b", "c"}
    Big = {"c"}
    Stub = "stub"
    Filler = "filler"
    Objective = "objective"
    Sim <- MCSim
    Marks = {6}
    Configured = 2
    Threshold = 8
    Needed = 2
    MaxRounds = 3
INVARIANT NoRoundSkipped
INVARIANT BudgetOvershoot
INVARIANT ResumeKnowsLastRound
INVARIANT RepetitionIsNoticed
PROPERTY CompletedIsTerminal
PROPERTY EveryDriverEnds
