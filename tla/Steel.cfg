SPECIFICATION FairSpec
CONSTANTS
  Input = {i1, i2}
  Oxygen = {i1}
  MaxMelts = 2
  MaxLosses = 1
  Backlog = 1
INVARIANTS
  PauseHasOwner
  ArchivedOnce
  ArchivedComplete
PROPERTIES
  PauseEnds
  MeltArchived
