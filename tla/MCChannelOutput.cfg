SPECIFICATION Spec
CONSTANTS
  MaxLine = 3
  MaxBytes = 6
INVARIANTS
  TypeOK
  OkMeansReceived
  LastErrorExplainsAnswer
PROPERTIES
  ImplementsStream
  BlockingPutsReturns
  PutsReturnsOnceReady
