SPECIFICATION BoardSpec
CONSTANTS
  Formats = {1, 2}
  Percents = {50, 130}
  Owners = {"a", "b"}
  Nobody = "nobody"
  Voltages = {0, 149, 150, 446, 447, 1899, 1900, 3300}
  Entries = 2
  LowPowerEntry = 1
  MaxSlept = 2
  Bytes = 2
  Polls = 2
  Charges = {15, 50}
  Pins = {1, 2}
  Chunks = 2
INVARIANTS
  CodecSafe
  ButtonsSafe
  PagesSafe
  DisplaySafe
  GaugeSafe
PROPERTIES
  WakeRestores
  WorkersPark
  GaugeRecovers
