SPECIFICATION Spec
CONSTANTS
  MaxLine = 3
  MaxBytes = 6
PROPERTIES
  NonblockingPutsReturns
