SPECIFICATION Spec
CONSTANTS
  Resources = {r1, r2}
  U16 = 2
  U32 = 4
  BufLen = 2
  NoSecAddr = 1
  Ints <- MCInts
  Sizes <- MCSizes
  States <- MCStates
INVARIANTS
  TypeOK
  FindIsComplete
  FindListClosed
  LastErrorExplains
  IntegersReachVisa
  AttributeRoundTrip
  TransferIsTold
