SPECIFICATION Spec
CONSTANTS
  v = v
  w = w
  x = x
  y = y
  z = z
  NoTask = NoTask
  Workers = {v, w}
  Calls = {x}
  Workloads <- StreamAlone
  MaxInt = 7
CHECK_DEADLOCK FALSE
PROPERTIES
  FramesFlow
