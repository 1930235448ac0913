SPECIFICATION Spec
CONSTANTS
  p1 = p1
  p2 = p2
  h1 = h1
  h2 = h2
  Process = {p1}
  Handle = {h1, h2}
  ProcOf <- SameProcess
  Creator = h1
  Ops = {"force", "cancel", "close", "unsupported"}
  MaxRuns = 3
  MaxLog = 3
INVARIANTS
  ActiveIsNewestLive
  ForceUnblocks
  LogAgreesWithRow
PROPERTIES
  VerdictIsFinal
  NoRunLeftBehind
CHECK_DEADLOCK FALSE
