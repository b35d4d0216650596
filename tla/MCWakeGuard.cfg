SPECIFICATION Spec
CONSTANTS
  Gestures = {"click", "double", "long", "triple"}
  Depth = 12
  Timeout = 1
  MaxGestures = 3
  MaxClock = 5
INVARIANTS
  OnlyWakeIsConsumed
