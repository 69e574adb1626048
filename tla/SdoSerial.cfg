SPECIFICATION FairSpec
CONSTANTS
  c1 = c1
  c2 = c2
  t1 = t1
  o1 = o1
  o2 = o2
  Callers <- MCOneCaller
  Tasks <- MCTasks
  Objects <- MCObjects
  NoObject = NoObject
  MaxCalls = 3
  Overlap = FALSE
INVARIANTS
  TypeOK
  BusyHasOwner
  AnswerMatchesObject
  CallbackAtMostOnce
PROPERTIES
  ListedIsCalledBack
CHECK_DEADLOCK FALSE
