SPECIFICATION Spec
CONSTANTS
  Channels = {vi, rm}
  RMChannels = {rm}
  Half <- MCHalf
  DefaultTimeout = 1
  ScriptInts <- MCScriptInts
  LongIs64 = TRUE
INVARIANTS
  TypeOK
  TimeoutKept
  TclNeverAhead
  ReadBackDenotesTimeout
PROPERTIES
  NonblockingNeverBlocks
  ImplementsRegister
CHECK_DEADLOCK TRUE
