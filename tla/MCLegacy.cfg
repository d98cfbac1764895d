SPECIFICATION Spec
CONSTANTS
  t1 = t1
  t2 = t2
  t3 = t3
  r1 = r1
  r2 = r2
  a = a
  b = b
  profile1 = profile1
  profile2 = profile2
  Paths = {f1, f2}
  Tests = {x1}
  MaxAttempts = 2
  Runs = {r1, r2}
  NameOf <- MCNameOf
  Profile <- MCProfile
  NoProfile = NoProfile
  Sandboxed = {r1}
  MaxRows = 2
  Imports <- MCImports
  MaxBlocks = 2
  Marks <- MCMarks
  Modules = {"a.py", "b.py"}
  ItemLists <- MCItemLists
  MaxStories = 1
  MaxReqs = 1
  MaxSections = 2
  MaxOrder = 2
INVARIANT SuccessIsTested
INVARIANT OnlyAnswersArePublished
INVARIANT ValidatedCodeRuns
INVARIANT OrderRespectsDependencies
PROPERTY ExecuteAllEnds
CHECK_DEADLOCK FALSE
