SPECIFICATION Spec
CONSTANTS
  Places = {"slow"}
  PageLimit = 2
  MaxLog = 5
INVARIANTS
  VerdictDelivered
CHECK_DEADLOCK FALSE
