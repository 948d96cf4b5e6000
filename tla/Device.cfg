SPECIFICATION DeviceFairSpec
CONSTANTS
  BoardType = {t1, t2}
  CountOff = 4
  MaxLosses = 2
  MaxQueue = 2
INVARIANT OfflineMeansSilent
PROPERTIES
  BoardRecognized
  ModeRestored
CHECK_DEADLOCK FALSE
