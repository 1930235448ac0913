SPECIFICATION MCSpec
CONSTANTS
  Auth = {"a"}
  Tool = {"c"}
  MaxLinks = 4
  Run = {1}
  Prefer = "h2"
  Messages = 1
  Sends = 2
  Request = {"q1", "q2", "q3"}
  ToolCall = {"t"}
  Message = {1, 2}
  Inputs <- SmallInputs
  Host = {"g", "h", "i"}
  Process = {"p"}
  Backend = {"b", "c"}
  MaxAttempts = 3
  Lifetime = 1
  MaxTime = 2
  MaxLogins = 2
INVARIANTS AnswersAreOwn LinksAreKept InOrder OneTransport RunsAsAllowed AnswersFit AnswersAreTrue
PROPERTY AllEnd
\* the bounds, and the end of what is done, end a behaviour
CHECK_DEADLOCK FALSE
