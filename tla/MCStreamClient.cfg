SPECIFICATION FairSpec
CONSTANTS
  Wires <- MCWires
  ChunkSizes = {1, 2, 4, 5, 9}
  MaxPipe = 3
  MaxCalls = 6
CHECK_DEADLOCK FALSE
INVARIANTS
  TypeOK
  InOrder
  NoFalseAlarm
PROPERTIES
  HyperOutcomeStays
  ErrorStays
  RecvReturns
  KeepsPromise
