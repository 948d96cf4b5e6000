SPECIFICATION FairSpec
CONSTANT MaxChannels = 2
INVARIANT NobodyHangs
CHECK_DEADLOCK FALSE
