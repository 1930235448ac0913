SPECIFICATION Spec
CONSTANTS
  Owner = {1}
  Id = {1, 2}
  Stored <- OneAgent
  Limit = 1
  MaxRows = 2
  MaxCalls = 1
INVARIANT ToleratesPartialLine
