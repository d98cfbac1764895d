SPECIFICATION MCSpec
CONSTANTS
    d1 = d1
    d2 = d2
    r1 = r1
    r2 = r2
    e1 = e1
    Desks = {d1, d2}
    Texts = {"always", "never", "mostly"}
    Negations <- MCNegations
    Alike <- MCAlike
    Research = {r1, r2}
    Edits = {e1}
    Run <- MCRun
    Atom <- MCAtom
    Documents <- MCDocuments
    Blocks <- MCBlocks
    Original <- MCOriginal
    MaxGenerate = 2
    MaxEdits = 3
INVARIANT UntoldConflictsOverlapped
INVARIANT ClaimsComeFromValidVerdicts
INVARIANT EditIsAllOrNothing
CHECK_DEADLOCK FALSE
SYMMETRY Symmetry
