SPECIFICATION Spec
CONSTANTS
  p1 = p1
  p2 = p2
  h1 = h1
  h2 = h2
  Process = {p1}
  Handle = {h1, h2}
  ProcOf <- SameProcess
  Creator = h1
  Ops = {"archive", "close", "crash", "abort", "unsupported"}
  MaxRuns = 3
  MaxLog = 4
PROPERTIES
  TakesTurns
CHECK_DEADLOCK FALSE
