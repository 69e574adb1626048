SPECIFICATION FairSpec
CONSTANTS
  Motors = {m1, m2}
  Periods <- MCPeriods
  Fds = {f1, f2}
  NoFd = NoFd
  MaxRefs = 4
  Traffic = TRUE
INVARIANTS
  TypeOK
  HoldersKeepTimer
  EpollIsCurrent
PROPERTIES
  RunningTimerTicks
