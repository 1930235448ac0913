SPECIFICATION Spec
CONSTANTS
  Request = {"q1"}
  ToolCall = {"t"}
INVARIANT ForegroundWaits
