SPECIFICATION FairSpec
CONSTANTS
  Ustavka = {u1, u2}
  TotalRelay = 2
  Config <- MCConfig
  Commanded = {1}
  MaxEdits = 1
INVARIANTS
  NoSwitchLost
  OneDialogEach
PROPERTIES
  RelaySwitchedOn
  ReleasedUnlessEdited
CHECK_DEADLOCK FALSE
