SPECIFICATION Spec
CONSTANTS
  can0 = can0
  can1 = can1
  n1 = n1
  n2 = n2
  n3 = n3
  t1 = t1
  t2 = t2
  t3 = t3
  Threads <- MCThreads
  Opens <- MCOpens
  Ifaces = {can0, can1}
  NodeIds = {n1, n2, n3}
  Drives <- MCDrives
  Masters = {m1, m2, m3, m4, m5, m6}
  None = None
  MaxBuses = 1
  MaxTpdo = 5
INVARIANTS
  TypeOK
  ReferencesExact
  RegisteredIsAlive
  OneHandlePerDrive
  NoCallbackAfterFree
  SomebodyCanGo
PROPERTIES
  HandlesKept
