SPECIFICATION MCSpec
CONSTANTS
  Eager = FALSE
  MaxTurns = 4
  MaxUpdates = 6
  Owner = {1, 2}
  Id = {1, 2}
  Stored <- SmallFiles
  Limit = 1
  MaxRows = 3
  MaxCalls = 3
  t1 = t1
  t2 = t2
  Task = {t1, t2}
  MaxRuns = 3
  MaxOps <- SmallOps
  Process = {"p", "q"}
  Backend = {"b", "c"}
  MaxAttempts = 3
  Lifetime = 1
  MaxTime = 2
  MaxLogins = 2
  Fd = {0, 1, 2}
  Caller = {"c1", "c2"}
  Iterating = {"c2"}
  MaxLoops = 3
  MaxItems = 1
  TaskThread = {"w1", "w2"}
  MaxVersion = 4
  MaxTimers = 3
  Thread = {"a", "b"}
  Sites <- SmallSites
  Workdir <- SmallWorkdir
  Interval = 1
  MaxAge = 2
  MaxNow = 4
  MaxLogs = 2
  MaxEvents = 3
  EventCap = 2
  PageSize = 1
  Counts <- SmallCounts
  Path <- SmallPath
  Content <- SmallContent
  Read <- SmallRead
  Skipped = {".git"}
  Cap = 3
  GlobLimit = 2
  Limits <- SmallLimits
  GrepLimit = 2
  HardLimit = 3
  Outputs <- SmallOutputs
  FetchLimit = 4
  Chunks <- SmallChunks
  MaxDepth = 0
  MaxChanges = 1
  Digit = 4
  Modulus = 64
  Wide = 2
  Narrow = 1
  Schema <- SmallSchema
  NumberValue <- NumberName
  StringValue <- StringName
  FieldsName <- ObjectName
  Enum <- SmallEnum
  Top = "Outer"
  Sent <- SmallSent
  Foreign <- SmallForeign
  MaxPieces = 2
  Job = {1, 2, 3}
  Document <- SmallDocument
INVARIANTS FilesHold TurnsKept KeysAreCurrent DevNullIsSound
           CallsAreServed FlushShowsLatest HelperIsSound HistoryIsTold
           AnswersAreWhole RoundTrip TasksInOrder
PROPERTIES ArchivedStays LatestCheckpointSent
\* the bounds end a behaviour
CHECK_DEADLOCK FALSE
