SPECIFICATION CallSpec
CONSTANTS
  main = main
  Main = main
  Threads <- OneThread
  MaxEmits <- Thrice
  MaxSets = 0
  ErrCodes = {5, 13, 99}
  Scripts <- MCScripts
  ChunkSizes = {2, 6, 8}
  MaxPipe = 2
  MaxCalls = 5
CHECK_DEADLOCK FALSE
PROPERTIES
  HandlerReachesCaller
  PromptDelivery
  OutcomeArrives
  NothingStays
