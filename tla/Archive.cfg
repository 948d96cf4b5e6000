SPECIFICATION Spec
CONSTANTS
  MaxDay = 3
  Back = {0, 2}
  MaxTicks = 3
  MaxLoads = 2
  MaxCrashes = 1
INVARIANTS
  TicksKept
  GraphComplete
CHECK_DEADLOCK FALSE
