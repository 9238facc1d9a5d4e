SPECIFICATION Spec
CONSTANTS
  main = main
  worker = worker
  Main = main
  Threads <- TwoThreads
  MaxEmits <- EachOnce
  MaxSets = 1
  ErrCodes <- UsualCodes
CHECK_DEADLOCK FALSE
INVARIANTS
  EndTerminates
