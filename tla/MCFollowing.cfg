SPECIFICATION MCSpec
CONSTANTS
  MaxAttempts = 1
  Ops = {"cancel", "denied", "id_rejected", "bad_frame"}
  MaxFrames = 3
  Handle = {"made", "again", "back"}
  AgentOf <- SmallAgents
  OwnKey <- SmallOwnKeys
  Resumed = {"back"}
  Message = {"m", "n"}
  KeyOf <- SmallKeys
  NoKey = "none"
  MaxSends = 3
  MaxUnderWay = 2
  MaxItems = 3
  Ahead = 5
  Places = {"loop", "slow", "process"}
  PageLimit = 2
  MaxLog = 6
INVARIANTS
  StreamIsTrue
  RunIsOfMessage
  FramesAreRead
  TailIsFaithful
  LoopReadersAgree
PROPERTIES
  NothingTwice
  StreamEnds
  TailEnds
CHECK_DEADLOCK FALSE
