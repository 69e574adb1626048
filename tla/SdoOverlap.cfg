SPECIFICATION Spec
CONSTANTS
  c1 = c1
  c2 = c2
  t1 = t1
  o1 = o1
  o2 = o2
  Callers <- MCCallers
  Tasks <- MCNoTasks
  Objects <- MCObjects
  NoObject = NoObject
  MaxCalls = 1
  Overlap = TRUE
INVARIANTS
  ResponseMatchesObject
CHECK_DEADLOCK FALSE
