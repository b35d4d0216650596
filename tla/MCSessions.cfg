SPECIFICATION LiveSpec
CONSTANTS
  Sources <- OneSource
  Stamps <- OneStamp
  Channels <- NoChannels
  StaleAfter = 0
  OfflineAfter = 1
  QueueDepth = 1
  ConfigQueue = 1
  PollThreshold = 1
  FailCap = 1
  BackoffTicks <- Delays
  PollTicks = 1
  SaverPollTicks = 1
  ZombieTicks = 1
  MaxRevisions = 1
  SaverInputs <- NeverSaver
  OtaUsed = TRUE
  RefreshUsed = FALSE
PROPERTIES
  PauseQuiesces
  SessionsEnd
