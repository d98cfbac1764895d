SPECIFICATION Spec
CONSTANTS
    p1 = p1
    p2 = p2
    Procs = {p1}
    Ids = {1}
    MaxCalls = 3
    MaxReplans = 1
    Cap = 1
    Attempts = 3
    AtomIds = {"a", "b"}
    Answers <- MCAnswers
CHECK_DEADLOCK FALSE
INVARIANT DeadRunsResume
