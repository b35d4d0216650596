SPECIFICATION LiveSpec
CONSTANTS
  Sources <- OneSource
  Stamps = {}
  Channels <- NoChannels
  StaleAfter = 0
  OfflineAfter = 1
  QueueDepth = 1
  ConfigQueue = 1
  PollThreshold = 2
  FailCap = 3
  BackoffTicks <- Delays
  PollTicks = 2
  SaverPollTicks = 3
  ZombieTicks = 2
  MaxRevisions = 1
  SaverInputs = {TRUE, FALSE}
  OtaUsed = FALSE
  RefreshUsed = TRUE
PROPERTIES
  RecoveryContinues
  FallbackPolls
