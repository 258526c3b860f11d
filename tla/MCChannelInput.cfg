SPECIFICATION Spec
CONSTANTS
  BufSize = 2
  Total = 4
  ReadSizes = {3, 5}
INVARIANTS
  TypeOK
  AnswerExplained
  QueueIsWhole
PROPERTIES
  ImplementsStream
  InputReturns
