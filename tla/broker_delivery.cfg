CONSTANTS
  A = A
  B = B
  Routes <- BothWays
  Modules = {A, B}
  Callers = {c1}
  Republishers = {}
  Fds = {f1, f2}
  NoThread = NoThread
  NoFd = NoFd
  MaxPublish = 2
  MaxRemove = 2
  RcvBuf = 4
  StrayPublish = TRUE
  Faults = TRUE
  JoinFails = TRUE
SPECIFICATION FairSpec
PROPERTIES RemovalReturns EventuallyReceived
CHECK_DEADLOCK FALSE
