SPECIFICATION Spec
CONSTANTS
  p1 = p1
  p2 = p2
  h1 = h1
  h2 = h2
  Process = {p1, p2}
  Handle = {h1, h2}
  ProcOf <- OneEach
  Creator = h1
  Ops = {"force", "crash", "archive"}
  MaxRuns = 1
  MaxLog = 5
INVARIANTS
  DrivenRunsAreRecorded
  OneVerdict
CHECK_DEADLOCK FALSE
