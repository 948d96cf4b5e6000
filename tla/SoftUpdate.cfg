SPECIFICATION SUFairSpec
CONSTANTS
  MaxSent = 5
  Batch = 2
  Lines = 2
  Reclick = FALSE
INVARIANTS
  RequestsInOrder
  FlasherAlone
  LinesInOrder
PROPERTIES
  EveryRequestTaken
  EveryAnswerParsed
  ImplementsLine
  LineReturned
