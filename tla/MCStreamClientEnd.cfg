SPECIFICATION Spec
CONSTANTS
  Wires <- MCWires
  ChunkSizes = {1, 4, 9}
  MaxPipe = 2
  MaxCalls = 5
CHECK_DEADLOCK FALSE
PROPERTIES
  NoneAtEnd
