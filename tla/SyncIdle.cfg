SPECIFICATION FairSpec
CONSTANTS
  Motors = {m1}
  Periods <- MCPeriods
  Fds = {f1, f2}
  NoFd = NoFd
  MaxRefs = 1
  Traffic = FALSE
PROPERTIES
  RunningTimerTicks
