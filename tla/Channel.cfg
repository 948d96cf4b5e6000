SPECIFICATION FairSpec
CONSTANTS
  MaxSets = 2
  MaxFaults = 1
  MaxLine = 0
INVARIANT LastWriteWins
PROPERTIES
  BoardConfigured
  WritesEnd
