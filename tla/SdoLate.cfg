SPECIFICATION Spec
CONSTANTS
  c1 = c1
  c2 = c2
  t1 = t1
  o1 = o1
  o2 = o2
  Callers <- MCOneCaller
  Tasks <- MCNoTasks
  Objects <- MCObjects
  NoObject = NoObject
  MaxCalls = 2
  Overlap = FALSE
INVARIANTS
  AnswersThisCall
CHECK_DEADLOCK FALSE
