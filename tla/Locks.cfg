SPECIFICATION FairSpec
CONSTANT MaxChannels = 2
INVARIANT NoDeadlock
PROPERTY HandlersEnd
CHECK_DEADLOCK FALSE
