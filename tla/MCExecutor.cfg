SPECIFICATION LiveSpec
CONSTANTS
  s1 = s1
  s2 = s2
  e1 = e1
  e2 = e2
  j1 = j1
  Steer = {s1}
  Exec = {e1, e2}
  Job = {j1}
  Ops = {"abort", "close", "early_end", "request_fails", "slow_start", "steer_fails"}
  MaxLog = 2
INVARIANTS
  EndIsTrue
PROPERTIES
  OneEnd
  AllReturn
CHECK_DEADLOCK FALSE
