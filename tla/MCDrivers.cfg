SPECIFICATION Spec
CONSTANTS
    p1 = p1
    p2 = p2
    Procs = {p1, p2}
    Ids = {1}
    MaxCalls = 2
    MaxReplans = 1
    Cap = 1
    Attempts = 3
    AtomIds = {"a", "b"}
    Answers <- MCAnswers
INVARIANT LockHasHolder
INVARIANT AtomsCanBeOrdered
SYMMETRY Symmetry
CHECK_DEADLOCK FALSE
