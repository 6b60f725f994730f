CONSTANTS
  A = A
  B = B
  Routes <- BothWays
  Modules = {A, B}
  Callers = {c1}
  Republishers = {}
  Fds = {f1, f2}
  NoThread = NoThread
  NoFd = NoFd
  MaxPublish = 2
  MaxRemove = 1
  RcvBuf = 1
  StrayPublish = FALSE
  Faults = FALSE
  JoinFails = FALSE
SPECIFICATION FairSpec
PROPERTIES RemovalReturns
CHECK_DEADLOCK FALSE
