SPECIFICATION LinkSpec
CONSTANTS
  Credentials = {1}
  Volumes = {40, 60}
  MaxForms = 2
  FormQueue = 1
  Depth = 2
  SetupTicks = 2
  JoinTicks = 2
  MaxFailures = 1
  Retry <- MCRetry
  Versions = {1, 2, 3}
  Good = {1, 3}
  First = 1
  Servers = {"a", "b"}
INVARIANTS
  ConfigSafe
  SetupSafe
  UpdatesSafe
PROPERTIES
  WholeRecords
  EditsSettle
  LinkGoesOn
  BusyEnds
