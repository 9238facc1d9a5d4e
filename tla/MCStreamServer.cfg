SPECIFICATION FairSpec
CONSTANTS
  main = main
  worker = worker
  Main = main
  Threads <- TwoThreads
  MaxEmits <- MainTwice
  MaxSets = 1
  ErrCodes <- UsualCodes
CHECK_DEADLOCK FALSE
INVARIANTS
  TypeOK
  BodyIsPrefix
  EndIsLast
  AtMostOneEnd
  EndTellsResult
  AcceptedIsWritten
  ThreadOrder
  HeadFitsBody
  EofTellsOutcome
PROPERTIES
  HeadersBeforeFrame
  Incremental
  BodyEnds
