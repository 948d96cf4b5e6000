SPECIFICATION FairSpec
CONSTANTS
  NumRelay = 2
  NormallyClosed = {}
  MaxCommands = 3
  MaxOutstanding = 2
INVARIANT ConfirmedIsTrue
PROPERTIES
  Settles
  Switched
CHECK_DEADLOCK FALSE
