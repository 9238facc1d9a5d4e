SPECIFICATION Spec
CONSTANTS
  v = v
  w = w
  x = x
  y = y
  z = z
  NoTask = NoTask
  Workers = {v, w}
  Calls = {x, y, z}
  Workloads <- MCWorkloads
  MaxInt = 7
CHECK_DEADLOCK FALSE
INVARIANTS
  ToldTheTruth
  OnlyOwnAnswerWaits
PROPERTIES
  
  WorkersComeBack
