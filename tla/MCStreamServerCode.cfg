SPECIFICATION Spec
CONSTANTS
  main = main
  worker = worker
  Main = main
  Threads <- OneThread
  MaxEmits <- MainOnce
  MaxSets = 1
  ErrCodes <- AnyCode
CHECK_DEADLOCK FALSE
INVARIANTS
  FailureRidesEnd
