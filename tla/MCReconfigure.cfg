SPECIFICATION Spec
CONSTANTS
  Sources <- TwoSources
  Stamps <- OneStamp
  Channels <- NoChannels
  StaleAfter = 0
  OfflineAfter = 1
  QueueDepth = 1
  ConfigQueue = 2
  PollThreshold = 0
  FailCap = 0
  BackoffTicks <- Delays
  PollTicks = 1
  SaverPollTicks = 1
  ZombieTicks = 1
  MaxRevisions = 2
  SaverInputs <- NeverSaver
  OtaUsed = FALSE
  RefreshUsed = FALSE
INVARIANTS
  OneServer
