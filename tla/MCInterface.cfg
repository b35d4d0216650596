SPECIFICATION InterfaceSpec
CONSTANTS
  Clips <- VoiceClips
  Level <- VoiceLevel
  Category <- VoiceCategory
  BusDepth = 1
  QueueDepth = 1
  ClipChunks = 2
  ToneChunks = 1
  NormalTicks = 1
  CriticalTicks = 2
  Gestures = {"click", "double", "triple"}
  InputDepth = 2
  TimeoutTicks = 1
  MaxGestures = 2
  MaxClock = 4
  ControlDepth = 2
  FirstVolumes = {95}
  Changed = {0, 1, 9}
  MaxChanges = 3
INVARIANTS
  VoiceSafe
  ScreenSafe
  MenuSafe
PROPERTIES
  CriticalKept
  CriticalTaken
  InstallTakesTwo
