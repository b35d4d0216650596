SPECIFICATION PathSpec
CONSTANTS
  JsonMax = 4
  ChunkMax = 2
  FrameMax = 5
  MessageMax = 7
  Sources = {1, 2}
  Stamps <- MCStamps
  Channels = {"cpu", "ram"}
  StaleAfter = 1
  OfflineAfter = 2
  Conns = {1, 2}
  Limit = 2
  MaxSeq = 2
  Sockets = {1, 2}
  Patience = 2
  MaxBody = 1
INVARIANTS
  FeedAgreement
  Delivers
  ClientsServed
  CutsOnlyLate
PROPERTIES
  SnapshotsAdvance
  AlertsAreEdges
  InOrder
  AgentGoesOn
  FetchEnds
